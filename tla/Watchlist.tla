------------------------------ MODULE Watchlist ------------------------------
(***************************************************************************)
(* The watchlist: POST /watchlist and DELETE /watchlist/{ticker} of        *)
(* app/api/routes/watchlist.py over the table stocks_watchlist, and the    *)
(* beat's task daily_watchlist_analysis of app/agents/scheduled_tasks.py,  *)
(* which reads the active rows and publishes a run for each.               *)
(*                                                                         *)
(* A request reads its row and then writes it, in a session of its own; a  *)
(* row is known by its stripped, upper-case ticker, which is unique.  Its  *)
(* rows are never deleted.  The answer of a request, which a failing       *)
(* refresh may turn into an error, is no part of it.                       *)
(***************************************************************************)
EXTENDS Integers, FiniteSets

CONSTANTS
  Request,      \* requests, each made once
  Ticker,       \* tickers that may be watched
  MaxDailies,   \* bound on the deliveries of the day's message
  WatchFaults   \* the faults of the surroundings a run explores

ASSUME WatchAssumption ==
  /\ MaxDailies \in Nat \ {0}
  /\ "none" \notin Ticker
  /\ WatchFaults \subseteq {"db", "broker", "connection"}

\* The deliveries of the message that the beat published for today.
Daily == 1..MaxDailies

VARIABLES
  row,          \* row[t]: the row of ticker t
  edit,         \* edit[r]: how far a request has come, and what it read
  daily,        \* daily[d]: the task of a delivery, its list and the rest of it
  published     \* published[t]: runs of the orchestrator published for t today

watchVars == <<row, edit, daily, published>>

NoTicker == "none"
NoEdit == [at |-> "idle", op |-> "none", ticker |-> NoTicker, read |-> "none"]
NoDaily == [at |-> "none", listed |-> {}, todo |-> {}]

WatchTypeOK ==
  /\ row \in [Ticker -> {"none", "active", "inactive"}]
  /\ edit \in [Request -> [at : {"idle", "read", "write", "done", "rejected"},
                              op : {"none", "add", "remove"}, ticker : Ticker \cup {NoTicker},
                              read : {"none", "active", "inactive"}]]
  /\ daily \in [Daily -> [at : {"none", "queued", "reading", "publish", "done", "failed", "lost"},
                          listed : SUBSET Ticker, todo : SUBSET Ticker]]
  /\ published \in [Ticker -> 0..MaxDailies]

WatchInit ==
  /\ row \in [Ticker -> {"none", "active", "inactive"}]
  /\ edit = [r \in Request |-> NoEdit]
  /\ daily = [d \in Daily |-> NoDaily]
  /\ published = [t \in Ticker |-> 0]

-----------------------------------------------------------------------------
\* An operator <definition>_<change> is a mutated form of the one after it.

Call(r) ==
  /\ edit[r].at = "idle"
  /\ \E op \in {"add", "remove"} : \E t \in Ticker :
       edit' = [edit EXCEPT ![r] = [NoEdit EXCEPT !.at = "read", !.op = op, !.ticker = t]]
  /\ UNCHANGED <<row, daily, published>>

\* add_to_watchlist of a row that is active and remove_from_watchlist of one
\* that is not write nothing; a row that is not there cannot be removed.
Outcome_AnyRowIsDone(op, read) ==
  CASE op = "add" /\ read # "none" -> "done"
    [] op = "remove" /\ read = "inactive" -> "done"
    [] op = "remove" /\ read = "none" -> "rejected"
    [] OTHER -> "write"
Outcome(op, read) ==
  CASE op = "add" /\ read = "active" -> "done"
    [] op = "remove" /\ read = "inactive" -> "done"
    [] op = "remove" /\ read = "none" -> "rejected"
    [] OTHER -> "write"
ReadRow(r) ==
  /\ edit[r].at = "read"
  /\ LET read == row[edit[r].ticker] IN
       edit' = [edit EXCEPT ![r].at = Outcome(edit[r].op, read), ![r].read = read]
  /\ UNCHANGED <<row, daily, published>>

\* The INSERT or UPDATE and its commit.  The unique ticker refuses a second row.
WriteRow(r) ==
  /\ edit[r].at = "write"
  /\ IF edit[r].read = "none" /\ row[edit[r].ticker] # "none"
       THEN UNCHANGED row /\ edit' = [edit EXCEPT ![r].at = "rejected"]
       ELSE /\ row' = [row EXCEPT ![edit[r].ticker] =
                         IF edit[r].op = "add" THEN "active" ELSE "inactive"]
            /\ edit' = [edit EXCEPT ![r].at = "done"]
  /\ UNCHANGED <<daily, published>>

\* The database fails, and with it the request.
RequestErrs(r) ==
  /\ "db" \in WatchFaults
  /\ edit[r].at \in {"read", "write"}
  /\ edit' = [edit EXCEPT ![r].at = "rejected"]
  /\ UNCHANGED <<row, daily, published>>

-----------------------------------------------------------------------------
(***************************************************************************)
(* The daily task.                                                         *)
(***************************************************************************)

DailyGoes(d, at) == daily' = [daily EXCEPT ![d].at = at]

\* The beat publishes the message at 9:20 of a weekday.
Beat ==
  /\ daily[1].at = "none"
  /\ DailyGoes(1, "queued")
  /\ UNCHANGED <<row, edit, published>>

\* is_trading_day: no weekend and none of the listed holidays.
is_trading_day(weekday, holiday) == weekday < 5 /\ ~holiday

\* A worker takes the message, and is done with it if the exchange is closed.
TakeDaily(d) ==
  /\ daily[d].at = "queued"
  /\ \E weekday \in 0..6 : \E holiday \in BOOLEAN :
       DailyGoes(d, IF is_trading_day(weekday, holiday) THEN "reading" ELSE "done")
  /\ UNCHANGED <<row, edit, published>>

\* It reads the active rows.
Listed == {t \in Ticker : row[t] = "active"}
ReadActive(d) ==
  /\ daily[d].at = "reading"
  /\ daily' = [daily EXCEPT ![d] = [at |-> "publish", listed |-> Listed, todo |-> Listed]]
  /\ UNCHANGED <<row, edit, published>>

\* apply_async for one ticker, with a fresh query_id, gets a run out.
Sends_KeepsOnList(d, at) ==
  /\ \E t \in daily[d].todo : published' = [published EXCEPT ![t] = @ + 1]
  /\ DailyGoes(d, at)
  /\ UNCHANGED <<row, edit>>
Sends(d, at) ==
  /\ \E t \in daily[d].todo :
       /\ published' = [published EXCEPT ![t] = @ + 1]
       /\ daily' = [daily EXCEPT ![d].todo = @ \ {t}, ![d].at = at]
  /\ UNCHANGED <<row, edit>>
Publish(d) == daily[d].at = "publish" /\ Sends(d, "publish")

\* The database or the broker raises, the broker before the run got out or
\* after it, and the task fails: it is not retried.
DailyRaises_Skips(d) ==
  /\ "broker" \in WatchFaults
  /\ daily[d].at = "publish"
  /\ \E t \in daily[d].todo : daily' = [daily EXCEPT ![d].todo = @ \ {t}]
  /\ UNCHANGED <<row, edit, published>>
DailyRaises(d) ==
  \/ /\ \/ "db" \in WatchFaults /\ daily[d].at = "reading"
        \/ "broker" \in WatchFaults /\ daily[d].at = "publish" /\ daily[d].todo # {}
     /\ DailyGoes(d, "failed")
     /\ UNCHANGED <<row, edit, published>>
  \/ /\ "broker" \in WatchFaults /\ daily[d].at = "publish"
     /\ Sends(d, "failed")

PublishedAll(d) ==
  /\ daily[d].at = "publish" /\ daily[d].todo = {}
  /\ DailyGoes(d, "done")
  /\ UNCHANGED <<row, edit, published>>

\* The message goes back to its queue (task_acks_late), at any moment before
\* it is acknowledged: the worker died, or it lost its connection and carries
\* on regardless.
RedeliverDaily(d) ==
  /\ "connection" \in WatchFaults
  /\ d + 1 \in Daily /\ daily[d + 1].at = "none"
  /\ \/ /\ daily[d].at \in {"reading", "publish", "done", "failed"}
        /\ DailyGoes(d + 1, "queued")
     \/ /\ daily[d].at \in {"reading", "publish"}
        /\ daily' = [daily EXCEPT ![d].at = "lost", ![d + 1].at = "queued"]
  /\ UNCHANGED <<row, edit, published>>

DailyStep(d) ==
  \/ TakeDaily(d) \/ ReadActive(d) \/ Publish(d) \/ DailyRaises(d) \/ PublishedAll(d)
  \/ RedeliverDaily(d)

WatchNext ==
  \/ \E r \in Request : Call(r) \/ ReadRow(r) \/ WriteRow(r) \/ RequestErrs(r)
  \/ Beat \/ \E d \in Daily : DailyStep(d)

WatchSpec == WatchInit /\ [][WatchNext]_watchVars

-----------------------------------------------------------------------------
(***************************************************************************)
(* Properties.                                                             *)
(***************************************************************************)

\* A request is done at the moment of its commit, or of its read when it
\* writes nothing: seen so, concurrent requests follow one another, and what
\* an answer says was so at some moment between the call and the answer.
promised(r) ==
  [op |-> edit[r].op, ticker |-> edit[r].ticker,
   is |-> CASE edit[r].at = "idle" -> "unmade"
            [] edit[r].at \in {"read", "write"} -> "pending"
            [] OTHER -> edit[r].at]
Promise == INSTANCE WatchlistPromise WITH
  active <- Listed, call <- [r \in Request |-> promised(r)]
ImplementsWatchlistPromise == Promise!PromiseSpec

\* Every run is one of a delivery that has its ticker on the list it read and
\* no longer before it: a second run for a ticker on one day needs a second
\* delivery of the message, be its first worker dead or still publishing.
RunsBelongToDeliveries ==
  \A t \in Ticker :
    published[t] = Cardinality({d \in Daily : t \in daily[d].listed \ daily[d].todo})

\* A task that ends without an error has published a run for every ticker of
\* its list; the failure of the broker loses the rest of the list, unless the
\* message is delivered again.
FinishedDailyIsWhole ==
  \A d \in Daily : daily[d].at = "done" => \A t \in daily[d].listed : published[t] > 0

\* What the daily task leaves behind.
DailyRunsAreExplained == FinishedDailyIsWhole /\ RunsBelongToDeliveries
===============================================================================
