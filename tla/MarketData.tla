------------------------------ MODULE MarketData ------------------------------
(***************************************************************************)
(* The daily prices of a ticker: fetch_ohlcv of app/tools/price_fetcher.py *)
(* with its Redis entry, and its two callers.  get_latest_price asks for   *)
(* five days, for the execution agent and the paper broker; the quant      *)
(* agent (app/agents/quant_agent.py, app/tools/indicators.py) asks for six *)
(* months and makes indicators and a signal of them.  The entry's key,     *)
(* ohlcv:<ticker>:<interval>, says nothing of the period.                  *)
(*                                                                         *)
(* A frame is the number of its rows.  What the library ta computes of     *)
(* enough rows is any value; the prices themselves, and the circuit alert, *)
(* which is made of the last close alone, are left out.                    *)
(***************************************************************************)
EXTENDS Integers

CONSTANTS
  PriceReader,  \* callers of get_latest_price, one call each
  QuantReader,  \* attempts of the quant agent, one call each
  History,      \* numbers of rows that six months may have
  MarketFaults  \* the faults of the surroundings a run explores

ASSUME MarketAssumption ==
  /\ PriceReader \cap QuantReader = {}
  /\ History \subseteq Nat
  /\ MarketFaults \subseteq {"redis", "download", "empty"}

VARIABLES
  history,      \* the rows of six months, as long as the exchange keeps them
  entry,        \* the frame under the key, NoFrame without one
  fetched,      \* fetched[r]: how far a call has come, and its frame
  answer        \* answer[r]: what the caller made of it

marketVars == <<history, entry, fetched, answer>>

Readers == PriceReader \cup QuantReader
NoFrame == -1
Fewer(m, n) == IF m < n THEN m ELSE n
Frame == {NoFrame, 0} \cup History \cup {Fewer(5, h) : h \in History}

MarketTypeOK ==
  /\ history \in History
  /\ entry \in Frame
  /\ fetched \in [Readers -> [at : {"idle", "download", "store", "have", "done"}, rows : Frame]]
  /\ answer \in [Readers -> {"none", "price", "raised", "BUY", "SELL", "HOLD"}]

MarketInit ==
  /\ history \in History
  /\ entry = NoFrame
  /\ fetched = [r \in Readers |-> [at |-> "idle", rows |-> NoFrame]]
  /\ answer = [r \in Readers |-> "none"]

-----------------------------------------------------------------------------
(***************************************************************************)
(* fetch_ohlcv.                                                            *)
(***************************************************************************)

\* An operator <definition>_<change> is a mutated form of the one after it.

\* The entry is read; "[]", the JSON of an empty frame, counts as one.
Lookup(r) ==
  /\ fetched[r].at = "idle"
  /\ \E found \in {entry} \cup {NoFrame : f \in MarketFaults \cap {"redis"}} :
       fetched' = [fetched EXCEPT ![r] = [at |-> IF found = NoFrame THEN "download" ELSE "have",
                                          rows |-> found]]
  /\ UNCHANGED <<history, entry, answer>>

\* _fetch_yfinance: the rows of the caller's period, none if Yahoo has a gap.
period_rows(r) == IF r \in QuantReader THEN history ELSE Fewer(5, history)

Download(r) ==
  /\ fetched[r].at = "download"
  /\ \E n \in {period_rows(r)} \cup {0 : f \in MarketFaults \cap {"empty"}} :
       fetched' = [fetched EXCEPT ![r] = [at |-> "store", rows |-> n]]
  /\ UNCHANGED <<history, entry, answer>>

\* Its three attempts fail, or it raises what it does not retry.
DownloadFails(r) ==
  /\ "download" \in MarketFaults
  /\ fetched[r].at = "download"
  /\ fetched' = [fetched EXCEPT ![r].at = "done"]
  /\ answer' = [answer EXCEPT ![r] = "raised"]
  /\ UNCHANGED <<history, entry>>

\* The frame replaces whatever is under the key by now, or Redis refuses.
StoreFrame(r) ==
  /\ fetched[r].at = "store"
  /\ entry' \in {fetched[r].rows} \cup {entry : f \in MarketFaults \cap {"redis"}}
  /\ fetched' = [fetched EXCEPT ![r].at = "have"]
  /\ UNCHANGED <<history, answer>>

\* _TTL_DAILY is over.
FrameExpires ==
  /\ entry # NoFrame
  /\ entry' = NoFrame
  /\ UNCHANGED <<history, fetched, answer>>

-----------------------------------------------------------------------------
(***************************************************************************)
(* The callers.                                                            *)
(***************************************************************************)

\* The close of the last row, which an empty frame does not have.
LatestPrice(r) ==
  /\ r \in PriceReader
  /\ fetched[r].at = "have"
  /\ fetched' = [fetched EXCEPT ![r].at = "done"]
  /\ answer' = [answer EXCEPT ![r] = IF fetched[r].rows = 0 THEN "raised" ELSE "price"]
  /\ UNCHANGED <<history, entry>>

\* calculate_indicators: an indicator needs the rows of its window, and an
\* average true range of fewer than 14 raises or is None, as the library does.
Has_OneRowFewer(window, rows) == rows >= window - 1
Has(window, rows) == rows >= window
rsi_14(rows) == IF Has(14, rows) THEN {"<70", "70", ">70"} ELSE {"None"}
sma_50(rows) == IF Has(50, rows) THEN {"above", "at", "below"} ELSE {"None"}
ShortFrameRaises(rows) == IF rows \in 2..13 THEN {TRUE, FALSE} ELSE {FALSE}

\* interpret_indicators: a crossover needs both lines on the last two rows.
macd_signal_label(rows) ==
  IF Has(35, rows) THEN {"bullish_crossover", "bearish_crossover", "neutral"} ELSE {"neutral"}

\* _determine_signal; the average is seen from the close.
determine_signal(rsi, label, close) ==
  IF rsi = "None" THEN "HOLD"
  ELSE IF rsi = "<70" /\ label = "bullish_crossover" /\ close = "above" THEN "BUY"
  ELSE IF rsi = ">70" \/ (label = "bearish_crossover" /\ close = "below") THEN "SELL"
  ELSE "HOLD"

\* _run_quant.
RunQuant(r) ==
  /\ r \in QuantReader
  /\ fetched[r].at = "have"
  /\ fetched' = [fetched EXCEPT ![r].at = "done"]
  /\ \E raises \in ShortFrameRaises(fetched[r].rows) :
     \E rsi \in rsi_14(fetched[r].rows), label \in macd_signal_label(fetched[r].rows),
        average \in sma_50(fetched[r].rows) :
       answer' = [answer EXCEPT ![r] =
         CASE raises -> "raised"
           [] fetched[r].rows = 0 -> "HOLD"
           [] OTHER -> determine_signal(rsi, label, average)]
  /\ UNCHANGED <<history, entry>>

MarketNext ==
  \/ FrameExpires
  \/ \E r \in Readers : \/ Lookup(r) \/ Download(r) \/ DownloadFails(r) \/ StoreFrame(r)
                        \/ LatestPrice(r) \/ RunQuant(r)

MarketSpec == MarketInit /\ [][MarketNext]_marketVars

-----------------------------------------------------------------------------
(***************************************************************************)
(* Properties.                                                             *)
(***************************************************************************)

\* The quant agent works on fewer rows than its six months have only after
\* somebody asked for the latest price, whose five rows stay under the common
\* key for a day, or after an empty download, which stays there as well.
ShortHistoryIsBorrowed ==
  \A r \in QuantReader :
    fetched[r].rows \notin {NoFrame, history} =>
      \/ \E p \in PriceReader : fetched[p].at \in {"store", "have", "done"}
      \/ "empty" \in MarketFaults /\ fetched[r].rows = 0

\* Whatever frame the key had, no order follows from too short a history: a
\* crossover signal has 50 rows behind it and any signal has 14.
SignalsNeedHistory ==
  \A r \in QuantReader :
    /\ answer[r] \in {"BUY", "SELL"} => fetched[r].rows >= 14
    /\ answer[r] = "BUY" => fetched[r].rows >= 50

\* What the quant agent says, and on what.
QuantAnswersAreFounded == ShortHistoryIsBorrowed /\ SignalsNeedHistory
===============================================================================
