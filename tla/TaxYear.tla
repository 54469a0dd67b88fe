------------------------------- MODULE TaxYear -------------------------------
(***************************************************************************)
(* The tax summary of app/tools/tax_calculator.py, which                   *)
(* GET /tax/summary?year= answers, over the trades table.                  *)
(*                                                                         *)
(* The execution agent places an order, polls it, and inserts its row      *)
(* once, with what the last poll saw; the row's submitted_at is the        *)
(* database's now() at that insert.  buy_date, which no code writes, is    *)
(* always NULL.  The orders are all for one ticker.  Prices and what is    *)
(* made of them, the gains and the tax, are left out.                      *)
(*                                                                         *)
(* Time is counted in half days: the even moments are midnights, the odd   *)
(* ones lie between two.  The table's filled_at is a timestamp and the     *)
(* query compares it with dates, which stand for their midnights.  Every   *)
(* calendar year has 365 days here, in one time zone.                      *)
(***************************************************************************)
EXTENDS Integers

CONSTANTS
  TaxOrder,     \* orders for one ticker
  Year,         \* the years that may be asked for
  Moment        \* moments at which something happens

ASSUME TaxAssumption ==
  /\ Year \subseteq Nat
  /\ Moment \subseteq Nat

VARIABLES
  today,        \* the present moment
  trade         \* trade[o]: an order, and its row

taxVars == <<today, trade>>

NoTrade == [at |-> "none", action |-> "BUY", submitted |-> 0, filled |-> 0]

TaxTypeOK ==
  /\ today \in Nat
  /\ trade \in [TaxOrder -> [at : {"none", "placed", "filled", "row", "open_row"},
                             action : {"BUY", "SELL"}, submitted : Nat, filled : Nat]]
  /\ \A o \in TaxOrder : /\ trade[o].submitted <= today /\ trade[o].filled <= today
                          /\ trade[o].at = "row" => trade[o].filled <= trade[o].submitted

TaxInit ==
  /\ today = 0
  /\ trade = [o \in TaxOrder |-> NoTrade]

\* An operator <definition>_<change> is a mutated form of the one after it.

\* place_order of the client ...
Submit(o) ==
  /\ trade[o].at = "none"
  /\ \E a \in {"BUY", "SELL"} :
       trade' = [trade EXCEPT ![o] = [NoTrade EXCEPT !.at = "placed", !.action = a]]
  /\ UNCHANGED today

\* ... and the broker fills the order.
FillOrder(o) ==
  /\ trade[o].at = "placed"
  /\ trade' = [trade EXCEPT ![o].at = "filled", ![o].filled = today]
  /\ UNCHANGED today

\* _upsert_trade, after the polls, which may have missed the fill.
InsertRow(o) ==
  /\ trade[o].at \in {"placed", "filled"}
  /\ \E at \in {"open_row"} \cup {"row" : f \in {trade[o].at} \cap {"filled"}} :
       trade' = [trade EXCEPT ![o].at = at, ![o].submitted = today]
  /\ UNCHANGED today

Clock ==
  /\ today' \in {m \in Moment : m > today}
  /\ UNCHANGED trade

TaxNext == Clock \/ \E o \in TaxOrder : Submit(o) \/ FillOrder(o) \/ InsertRow(o)

TaxSpec == TaxInit /\ [][TaxNext]_taxVars

-----------------------------------------------------------------------------
(***************************************************************************)
(* get_tax_summary.                                                        *)
(***************************************************************************)

Midnight(day) == 2 * day
DateOf(moment) == moment \div 2

\* date(year, 4, 1) and date(year + 1, 3, 31): the days are counted from 0.
fy_start(y) == 365 * y + 90
fy_end_FirstOfApril(y) == 365 * (y + 1) + 90
fy_end(y) == 365 * (y + 1) + 89

\* The rows that the query gives and the loop keeps.
InSummary(o, y) ==
  /\ trade[o].at = "row" /\ trade[o].action = "SELL"
  /\ Midnight(fy_start(y)) <= trade[o].filled
  /\ trade[o].filled <= Midnight(fy_end(y))

\* classify_trade, with the date of submitted_at in place of buy_date.
classify_trade(o) ==
  IF DateOf(trade[o].filled) - DateOf(trade[o].submitted) > 365 THEN "LTCG" ELSE "STCG"

-----------------------------------------------------------------------------
(***************************************************************************)
(* Properties.                                                             *)
(***************************************************************************)

\* No gain is taxed twice: a sale is in the summary of at most one year.
CountedOnce ==
  \A o \in TaxOrder : \A y, z \in Year : InSummary(o, y) /\ InSummary(o, z) => y = z

\* A summary holds no sale of another year: the dates that the query compares
\* with a timestamp let in none from beyond the two ends of the year.
SalesAreOfTheYear ==
  \A o \in TaxOrder : \A y \in Year :
    InSummary(o, y) => fy_start(y) <= DateOf(trade[o].filled) /\ DateOf(trade[o].filled) <= fy_end(y)

\* A sale is taxed in its own year and in no other.
SummariesKeepTheirYear == CountedOnce /\ SalesAreOfTheYear

(***************************************************************************)
(* A claim.                                                                *)
(***************************************************************************)

\* tax_calculator.py:16 "Return 'LTCG' if held for more than 365 days, else
\* 'STCG'."; FRONTEND_REDESIGN.md:422 "LTCG (Long Term Capital Gains) - held > 1
\* year": a sale is long-term if all that was bought was filled and recorded
\* more than 365 days before it.
Bought == {b \in TaxOrder : trade[b].action = "BUY" /\ trade[b].at # "none"}
LongHeldIsLongTerm ==
  \A o \in TaxOrder : \A y \in Year :
    /\ InSummary(o, y) /\ Bought # {}
    /\ \A b \in Bought : /\ trade[b].at = "row"
                         /\ DateOf(trade[o].filled) - DateOf(trade[b].submitted) > 365
    => classify_trade(o) = "LTCG"
===============================================================================
