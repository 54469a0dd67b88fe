------------------------------ MODULE PaperBroker ------------------------------
(***************************************************************************)
(* The paper broker of app/tools/paper_broker.py, which app/tools/broker.py *)
(* selects by default.                                                     *)
(*                                                                         *)
(* The broker has no book of its own: an order is a Redis key, and cash    *)
(* and positions are summed, on each call, over the rows of the trades     *)
(* table that have a fill price.  At this commit only get_account and      *)
(* get_positions are called; the calls on orders are the module's          *)
(* interface, with a caller that does as app/agents/execution_agent.py     *)
(* does at Alpaca: it places, polls and records by _upsert_trade.          *)
(*                                                                         *)
(* Prices are small integers; rounding is left out.                        *)
(***************************************************************************)
EXTENDS Integers, Sequences, FiniteSetsExt

CONSTANTS
  MaxOrders,    \* bound on the orders placed
  Name,         \* listed companies
  Price,        \* prices of a share
  Qty,          \* quantities a trade may ask for
  StartingCash, \* PAPER_STARTING_CASH
  MaxMoves,     \* bound on the changes of a price
  PaperFaults   \* the faults of the surroundings a run explores

ASSUME PaperAssumption ==
  /\ IsFiniteSet(Name)
  /\ Price \subseteq Nat \ {0} /\ Price # {}
  /\ Qty \subseteq Nat \ {0}
  /\ StartingCash \in Nat
  /\ MaxMoves \in Nat /\ MaxOrders \in Nat
  /\ PaperFaults \subseteq {"redis", "quote"}

VARIABLES
  order,        \* the orders placed, in the order of their acceptance
  slipped,      \* history: orders whose paper:order:<id> key Redis did not store or
                \* did not give back
  fills,        \* the counted rows of the trades table, oldest first
  price,        \* price[n] at yfinance
  moves         \* price changes so far

paperVars == <<order, slipped, fills, price, moves>>

\* A ticker as a caller writes it: with its exchange suffix or without.
TickerText == [name : Name, suffix : BOOLEAN]
normalise_ticker(t) == [t EXCEPT !.suffix = TRUE]

NoPrice == 0
Order == 1..Len(order)

TradeRow == [ticker : TickerText, action : {"BUY", "SELL"}, qty : Nat \ {0}, price : Price]
OrderRow ==
  [at : {"placed", "polled", "recorded"}, ticker : TickerText, action : {"BUY", "SELL"},
   qty : Nat \ {0}, price : Price \cup {NoPrice}, asked : BOOLEAN, raced : BOOLEAN]

PaperTypeOK ==
  /\ order \in Seq(OrderRow) /\ Len(order) <= MaxOrders
  /\ slipped \subseteq Order
  /\ fills \in Seq(TradeRow)
  /\ price \in [Name -> Price]
  /\ moves \in 0..MaxMoves

PaperInit ==
  /\ order = <<>>
  /\ slipped = {}
  /\ fills = <<>>
  /\ price \in [Name -> {CHOOSE p \in Price : TRUE}]
  /\ moves = 0

-----------------------------------------------------------------------------
(***************************************************************************)
(* What the broker computes from the first n counted rows.                 *)
(* An operator <definition>_<change> is a mutated form of the one after it. *)
(***************************************************************************)

Signed(f) == IF f.action = "BUY" THEN f.qty ELSE -f.qty

\* cash of get_account
Cash_BuysOnly(n) ==
  StartingCash - SumFunction([k \in {k \in 1..n : fills[k].action = "BUY"} |->
                                fills[k].qty * fills[k].price])
Cash(n) == StartingCash - SumFunction([k \in 1..n |-> Signed(fills[k]) * fills[k].price])

\* holdings of get_positions, which lists those above zero only
Net(n, t) == SumFunction([k \in {k \in 1..n : fills[k].ticker = t} |-> Signed(fills[k])])
Positions(n) == {t \in TickerText : Net(n, t) > 0}

\* _current_price: the market's, or the caller's own guess when there is none
Quotes(n) == {price[n]} \cup (IF "quote" \in PaperFaults THEN Price ELSE {})

\* equity of get_account, at market prices
Equity == Cash(Len(fills))
            + SumFunction([t \in Positions(Len(fills)) |-> Net(Len(fills), t) * price[t.name]])

-----------------------------------------------------------------------------
(***************************************************************************)
(* Orders.                                                                 *)
(***************************************************************************)

\* A call of Redis on the key of order o works, or its error is swallowed.
MayFail(o) == slipped' \in {slipped} \cup {slipped \cup {o} : f \in PaperFaults \cap {"redis"}}

\* The key is set and the order accepted.
Places(t, action, qty, asked, raced) ==
  /\ Len(order) < MaxOrders
  /\ \E p \in Quotes(t.name) :
       order' = Append(order, [at |-> "placed", ticker |-> t, action |-> action, qty |-> qty,
                               price |-> p, asked |-> asked, raced |-> raced])
  /\ MayFail(Len(order) + 1)
  /\ UNCHANGED <<fills, price, moves>>

\* place_order for a trade somebody asks for; the broker looks at no holdings.
place_order ==
  \E t \in TickerText, action \in {"BUY", "SELL"}, q \in Qty :
    Places(t, action, q, TRUE, FALSE)

InFlight(t) == {o \in Order : /\ order[o].at \in {"placed", "polled"}
                              /\ order[o].ticker = t
                              /\ order[o].action = "SELL"}

\* close_position sells what the counted rows of the normalised ticker hold.
\* raced: another sale of it was on its way when the holdings were read.
close_position ==
  \E t \in {normalise_ticker(u) : u \in TickerText} :
    /\ t \in Positions(Len(fills))
    /\ Places(t, "SELL", Net(Len(fills), t), FALSE, InFlight(t) # {})

\* get_order always reports "filled", without a price when the key is not
\* there or Redis fails, which get_cache swallows.
get_order(o) ==
  /\ order[o].at = "placed"
  /\ MayFail(o)
  /\ order' = [order EXCEPT ![o].at = "polled",
                            ![o].price = IF o \in slipped' THEN NoPrice ELSE @]
  /\ UNCHANGED <<fills, price, moves>>

\* The row is committed, and counted from then on if it has a fill price.
Record(o) ==
  /\ order[o].at = "polled"
  /\ order' = [order EXCEPT ![o].at = "recorded"]
  /\ fills' = IF order[o].price = NoPrice THEN fills
              ELSE Append(fills, [ticker |-> order[o].ticker, action |-> order[o].action,
                                  qty |-> order[o].qty, price |-> order[o].price])
  /\ UNCHANGED <<slipped, price, moves>>

PriceMoves(n) ==
  /\ moves < MaxMoves
  /\ price' \in {[price EXCEPT ![n] = p] : p \in Price \ {price[n]}}
  /\ moves' = moves + 1
  /\ UNCHANGED <<order, slipped, fills>>

PaperNext ==
  \/ place_order \/ close_position
  \/ \E o \in Order : get_order(o) \/ Record(o)
  \/ \E n \in Name : PriceMoves(n)

PaperSpec == PaperInit /\ [][PaperNext]_paperVars

-----------------------------------------------------------------------------
(***************************************************************************)
(* Properties.                                                             *)
(***************************************************************************)

\* Closing never turns a holding short by itself: a ticker whose counted rows
\* sell more than they buy had a sale somebody asked for, or two sales of it
\* that were on their way at once.
ShortsAreExplained ==
  \A t \in TickerText : Net(Len(fills), t) < 0 =>
    \E o \in Order : /\ order[o].at = "recorded"
                     /\ order[o].ticker = t /\ order[o].action = "SELL"
                     /\ order[o].asked \/ order[o].raced

\* Cash and positions, summed by two functions over rows read twice, agree: the
\* recording of a fill at the market's price moves money into shares or back
\* and leaves the equity as it was, while no ticker is short.
FillsKeepEquity ==
  [][\A o \in Order :
       /\ order[o].at = "polled" /\ order'[o].at = "recorded"
       /\ order[o].price \in {NoPrice, price[order[o].ticker.name]}
       /\ \A t \in TickerText : Net(Len(fills), t) >= 0 /\ Net(Len(fills), t)' >= 0
       => Equity' = Equity]_paperVars

\* A recorded order counts, once and at the price it was placed at, unless
\* Redis lost its key or failed to answer: its row says "filled" then as well.
RecordedIsCounted ==
  /\ Len(fills) <= Cardinality({o \in Order : order[o].at = "recorded"})
  /\ \A o \in Order : order[o].at = "recorded" /\ o \notin slipped =>
       \E k \in 1..Len(fills) :
         \A f \in {"ticker", "action", "qty", "price"} : fills[k][f] = order[o][f]

\* What cash, positions and rows owe to one another.
PaperBooksAgree == []ShortsAreExplained /\ []RecordedIsCounted /\ FillsKeepEquity
===============================================================================
