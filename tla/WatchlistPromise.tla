--------------------------- MODULE WatchlistPromise ---------------------------
(***************************************************************************)
(* What the watchlist of the API promises: a set of tickers, to which each *)
(* request adds or from which it removes one ticker at one moment between  *)
(* its call and its answer.  A request may end in an error, having done    *)
(* nothing.                                                                *)
(***************************************************************************)
EXTENDS FiniteSets

CONSTANTS
  Request,      \* requests, each made once
  Ticker        \* tickers that may be watched

VARIABLES
  active,       \* the tickers watched
  call          \* call[r]: what request r asks for, and whether it is decided

promiseVars == <<active, call>>

NoTicker == "none"
Calls == [op : {"add", "remove"}, ticker : Ticker]
Unmade == [op |-> "none", ticker |-> NoTicker, is |-> "unmade"]

PromiseInit ==
  /\ active \in SUBSET Ticker
  /\ call = [r \in Request |-> Unmade]

Make(r) ==
  /\ call[r] = Unmade
  /\ \E c \in Calls :
       call' = [call EXCEPT ![r] = [op |-> c.op, ticker |-> c.ticker, is |-> "pending"]]
  /\ UNCHANGED active

\* The one moment at which the request is done.
Effect(r) ==
  /\ call[r].is = "pending"
  /\ call' = [call EXCEPT ![r].is = "done"]
  /\ active' = IF call[r].op = "add" THEN active \cup {call[r].ticker}
               ELSE active \ {call[r].ticker}

\* 404 for a ticker that is not known, 500 for two that add the same one.
Reject(r) ==
  /\ call[r].is = "pending"
  /\ call' = [call EXCEPT ![r].is = "rejected"]
  /\ UNCHANGED active

PromiseNext == \E r \in Request : Make(r) \/ Effect(r) \/ Reject(r)

PromiseSpec == PromiseInit /\ [][PromiseNext]_promiseVars
===============================================================================
