------------------------------ MODULE RiskAgent ------------------------------
(***************************************************************************)
(* The risk agent of app/agents/risk_agent.py: guardrails and position     *)
(* sizing over the account, the positions and the high-water mark it reads *)
(* one after the other, next to the orders that earlier checks cleared and *)
(* to the end-of-day tracker of app/tools/portfolio_tracker.py, which      *)
(* updates the same high-water mark.                                       *)
(*                                                                         *)
(*   begin --> account --> positions --> hwm [--> write] --> judge         *)
(*                                                                         *)
(* Money is counted in whole units, so the floats of the code are exact    *)
(* here; percentages are cross-multiplied.  A check is one attempt of the  *)
(* risk task; what becomes of its order (app/agents/execution_agent.py) is *)
(* that it fills at the price of the check or never does.  The time to     *)
(* live of the mark, a year from its last rise, is taken as no limit.      *)
(***************************************************************************)
EXTENDS Integers, FiniteSets

CONSTANTS
  Check,        \* attempts of the risk task
  Ticker,       \* the tickers considered
  Values,       \* portfolio values a broker may report
  Prices,       \* current_price and ...
  Atrs,         \* ... atr_14 of a RiskInput
  Default,      \* portfolio value assumed without Alpaca (10,000 in the code)
  MaxOpen,      \* _MAX_OPEN_POSITIONS (10 in the code)
  Holding,      \* what may be held of a ticker at the start, 0 for nothing
  Seed,         \* what portfolio:hwm may hold at the start, 0 for no key
  Faults        \* the faults of the surroundings a run explores

ASSUME RiskAssumption ==
  /\ IsFiniteSet(Ticker)
  /\ Values \subseteq Nat \ {0}
  /\ Prices \subseteq Nat
  /\ Atrs \subseteq Nat
  /\ Default \in Nat \ {0}
  /\ MaxOpen \in Nat \ {0}
  /\ Holding \subseteq Nat
  /\ Seed \subseteq Nat
  /\ Faults \subseteq {"alpaca", "redis", "overlap"}

Input == [ticker : Ticker, signal : {"BUY", "other"}, confidence : {"low", "high"},
          atr : Atrs, price : Prices]

VARIABLES
  input,        \* input[c]: the RiskInput of the message check c takes
  check,        \* check[c]: the progress of check c
  position,     \* position[t]: market value held in ticker t, 0 for none
  value,        \* the portfolio value at the broker
  hwm,          \* the Redis key portfolio:hwm, 0 when there is none
  tracker,      \* the end-of-day task: the value and the mark it has read
  peak,         \* history: the largest portfolio value anyone has read
  disturbed     \* history: Alpaca did not answer, something overlapped

vars == <<input, check, position, value, hwm, tracker, peak, disturbed>>

Stage == {"queued", "begin", "positions", "hwm", "write", "judge",
          "pass", "block", "filled", "expired"}
NoPositions == [t \in Ticker |-> 0]
CheckState == [at : Stage, value : Nat, held : [Ticker -> Nat],
               hwm : Nat, peak : Nat, qty : Nat]
NewCheck == [at |-> "queued", value |-> 0, held |-> NoPositions,
             hwm |-> 0, peak |-> 0, qty |-> 0]

TypeOK ==
  /\ input \in [Check -> Input]
  /\ check \in [Check -> CheckState]
  /\ position \in [Ticker -> Nat]
  /\ value \in Values
  /\ hwm \in Nat
  /\ tracker \in [at : {"idle", "hwm", "write"}, value : Nat, hwm : Nat]
  /\ peak \in Nat
  /\ disturbed \subseteq {"alpaca", "overlap"}

Init ==
  /\ input \in [Check -> Input]
  /\ check = [c \in Check |-> NewCheck]
  /\ position \in [Ticker -> Holding]
  /\ value \in Values
  /\ hwm \in Seed
  /\ tracker = [at |-> "idle", value |-> 0, hwm |-> 0]
  /\ peak = 0
  /\ disturbed = {}

-----------------------------------------------------------------------------
(***************************************************************************)
(* The rules, on what a check has read.  Operators named                   *)
(* <definition>_<change> are mutated forms of the definition after them,   *)
(* which no specification uses.                                            *)
(***************************************************************************)
Larger(m, n) == IF m >= n THEN m ELSE n
Smaller(m, n) == IF m <= n THEN m ELSE n

\* A floored quotient, 0 for a divisor that is not above 0.
Shares(n, d) == IF d > 0 THEN n \div d ELSE 0

Size_RoundsUp(c) == 1 + Smaller(Shares(check[c].value, 200 * input[c].atr),
                              Shares(check[c].value, 20 * input[c].price))
\* Risk 1 % of the portfolio on a stop two ATRs away, at most 5 % in one entry;
\* no volatility or no price gives no share.
Size(c) == Smaller(Shares(check[c].value, 200 * input[c].atr),
                   Shares(check[c].value, 20 * input[c].price))

\* drawdown > _MAX_DRAWDOWN
Drawdown(c) == 5 * (check[c].hwm - check[c].value) > check[c].hwm

OpenPositions(held) == {t \in Ticker : held[t] > 0}
TooMany(c) == Cardinality(OpenPositions(check[c].held)) >= MaxOpen

\* The value of the entry on top of what is held of its ticker.
Exposure(c) == check[c].held[input[c].ticker] + Size(c) * input[c].price
Concentrated_IgnoresHeld(c) == 20 * Size(c) * input[c].price > check[c].value
Concentrated(c) == 20 * Exposure(c) > check[c].value

Blocks(c) == Drawdown(c) \/ TooMany(c) \/ Concentrated(c) \/ Size(c) = 0

\* The mark that a reader of the portfolio value v goes by when Redis answers
\* m, and whether it then stores it.
Mark(m, v) == IF m = 0 THEN v ELSE Larger(m, v)
Stores_Always(m, v) == TRUE
Stores_EvenTheFirst(m, v) == v > m
Stores(m, v) == m # 0 /\ v > m

-----------------------------------------------------------------------------
(***************************************************************************)
(* A check.                                                                *)
(***************************************************************************)
Goes(c, new) == check' = [check EXCEPT ![c] = new]

\* Between its begin and the end of its order.
Pending(c) ==
  check[c].at \in {"begin", "positions", "hwm", "write", "judge"}
    \/ (check[c].at = "pass" /\ check[c].qty > 0)

UnderWay == tracker.at # "idle" \/ (\E c \in Check : Pending(c))

\* Something starts: next to what is under way only where a run explores it.
Starts ==
  /\ UnderWay => "overlap" \in Faults
  /\ disturbed' = IF UnderWay THEN disturbed \cup {"overlap"} ELSE disturbed

\* A worker takes the message.
Begin(c) ==
  /\ check[c].at = "queued"
  /\ Starts
  /\ Goes(c, [check[c] EXCEPT !.at = "begin"])
  /\ UNCHANGED <<input, position, value, hwm, tracker, peak>>

\* A signal other than BUY passes with quantity 0; low confidence blocks.
NeedsPortfolio(c) == input[c].signal = "BUY" /\ input[c].confidence = "high"
Shortcut(c) ==
  /\ check[c].at = "begin"
  /\ ~NeedsPortfolio(c)
  /\ Goes(c, [check[c] EXCEPT !.at = IF input[c].signal = "BUY" THEN "block" ELSE "pass"])
  /\ UNCHANGED <<input, position, value, hwm, tracker, peak, disturbed>>

\* get_account
GetAccount(c) ==
  /\ check[c].at = "begin"
  /\ NeedsPortfolio(c)
  /\ peak' = Larger(peak, value)
  /\ Goes(c, [check[c] EXCEPT !.at = "positions", !.value = value,
                              !.peak = Larger(peak, value)])
  /\ UNCHANGED <<input, position, value, hwm, tracker, disturbed>>

\* get_positions
GetPositions(c) ==
  /\ check[c].at = "positions"
  /\ Goes(c, [check[c] EXCEPT !.at = "hwm", !.held = position])
  /\ UNCHANGED <<input, position, value, hwm, tracker, peak, disturbed>>

\* Either call raises: the check goes on with the defaults for both.
AlpacaUnavailable(c) ==
  /\ "alpaca" \in Faults
  /\ check[c].at \in {"begin", "positions"}
  /\ NeedsPortfolio(c)
  /\ Goes(c, [check[c] EXCEPT !.at = "hwm", !.value = Default, !.held = NoPositions])
  /\ disturbed' = disturbed \cup {"alpaca"}
  /\ UNCHANGED <<input, position, value, hwm, tracker, peak>>

\* get_cache(portfolio:hwm), None also when Redis fails.
HwmAnswers == IF "redis" \in Faults THEN {hwm, 0} ELSE {hwm}
ReadHwm(c) ==
  /\ check[c].at = "hwm"
  /\ \E m \in HwmAnswers :
       Goes(c, [check[c] EXCEPT !.hwm = Mark(m, check[c].value),
                  !.at = IF Stores(m, check[c].value) THEN "write" ELSE "judge"])
  /\ UNCHANGED <<input, position, value, hwm, tracker, peak, disturbed>>

\* set_cache(portfolio:hwm), which swallows a Redis error.
WriteHwm(c) ==
  /\ check[c].at = "write"
  /\ \/ hwm' = check[c].hwm
     \/ "redis" \in Faults /\ UNCHANGED hwm
  /\ Goes(c, [check[c] EXCEPT !.at = "judge"])
  /\ UNCHANGED <<input, position, value, tracker, peak, disturbed>>

\* The remaining guardrails and the decision.
Judge(c) ==
  /\ check[c].at = "judge"
  /\ Goes(c, IF Blocks(c)
               THEN [check[c] EXCEPT !.at = "block"]
               ELSE [check[c] EXCEPT !.at = "pass", !.qty = Size(c)])
  /\ UNCHANGED <<input, position, value, hwm, tracker, peak, disturbed>>

-----------------------------------------------------------------------------
(***************************************************************************)
(* The end-of-day task: get_portfolio_snapshot reads another broker than   *)
(* the risk agent, then update_high_water_mark reads and stores the mark.  *)
(***************************************************************************)
TrackerStarts ==
  /\ tracker.at = "idle"
  /\ Starts
  /\ \E v \in Values :
       /\ tracker' = [at |-> "hwm", value |-> v, hwm |-> 0]
       /\ peak' = Larger(peak, v)
  /\ UNCHANGED <<input, check, position, value, hwm>>

TrackerReads ==
  /\ tracker.at = "hwm"
  /\ \E m \in HwmAnswers :
       tracker' = [tracker EXCEPT !.hwm = Mark(m, tracker.value),
                     !.at = IF Stores(m, tracker.value) THEN "write" ELSE "idle"]
  /\ UNCHANGED <<input, check, position, value, hwm, peak, disturbed>>

TrackerWrites ==
  /\ tracker.at = "write"
  /\ \/ hwm' = tracker.hwm
     \/ "redis" \in Faults /\ UNCHANGED hwm
  /\ tracker' = [tracker EXCEPT !.at = "idle"]
  /\ UNCHANGED <<input, check, position, value, peak, disturbed>>

-----------------------------------------------------------------------------
(***************************************************************************)
(* The surroundings.                                                       *)
(***************************************************************************)

\* The order of a cleared check fills at the price the check was given ...
Fill(c) ==
  /\ check[c].at = "pass" /\ check[c].qty > 0
  /\ position' = [position EXCEPT ![input[c].ticker] = @ + check[c].qty * input[c].price]
  /\ Goes(c, [check[c] EXCEPT !.at = "filled"])
  /\ UNCHANGED <<input, value, hwm, tracker, peak, disturbed>>

\* ... or is refused, canceled or expires.
Expire(c) ==
  /\ check[c].at = "pass" /\ check[c].qty > 0
  /\ Goes(c, [check[c] EXCEPT !.at = "expired"])
  /\ UNCHANGED <<input, position, value, hwm, tracker, peak, disturbed>>

\* The account gains or loses.
Market ==
  /\ value' \in Values
  /\ UNCHANGED <<input, check, position, hwm, tracker, peak, disturbed>>

-----------------------------------------------------------------------------
CheckStep(c) ==
  \/ Shortcut(c) \/ GetAccount(c) \/ GetPositions(c) \/ AlpacaUnavailable(c)
  \/ ReadHwm(c) \/ WriteHwm(c) \/ Judge(c)

Next ==
  \/ \E c \in Check : Begin(c) \/ CheckStep(c) \/ Fill(c) \/ Expire(c)
  \/ TrackerStarts \/ TrackerReads \/ TrackerWrites
  \/ Market

Spec == Init /\ [][Next]_vars

-----------------------------------------------------------------------------
(***************************************************************************)
(* Properties.                                                             *)
(***************************************************************************)

\* A cleared entry respects every limit on the portfolio its check has read:
\* at least one share, 1 % of the portfolio at risk down to the stop, 5 % in
\* the ticker with what is held of it, a position to spare, and no drawdown
\* beyond 20 % of the mark.
ClearedEntry(c) == check[c].at \in {"pass", "filled", "expired"} /\ check[c].qty > 0
EntriesFitWhatWasRead ==
  \A c \in Check :
    ClearedEntry(c) =>
      /\ NeedsPortfolio(c)
      /\ 100 * (check[c].qty * 2 * input[c].atr) <= check[c].value
      /\ 20 * (check[c].held[input[c].ticker] + check[c].qty * input[c].price)
           <= check[c].value
      /\ Cardinality(OpenPositions(check[c].held)) < MaxOpen
      /\ 5 * (check[c].hwm - check[c].value) <= check[c].hwm

\* While checks came one after the other, each with its order filled or gone,
\* and Alpaca answered, an entry that fills leaves the real positions within
\* the limits too: what the check read is still true when its order fills.
FillsBeyondLimits(c) ==
  /\ check[c].at # "filled" /\ check'[c].at = "filled"
  /\ \/ 20 * position'[input[c].ticker] > check[c].value
     \/ Cardinality(OpenPositions(position')) > MaxOpen
LoneEntriesFitWhatIsHeld ==
  [][disturbed = {} => \A c \in Check : ~FillsBeyondLimits(c)]_vars

\* A mark that Redis does not have is never stored by anyone: without a key
\* every reader takes the present value for the mark, so no drawdown is seen.
UnsetMarkStaysUnset == [][hwm = 0 => hwm' = 0]_vars

\* Until something overlapped the mark never falls, whatever Redis calls fail: a
\* reader that was not answered does not store what it took for the mark.
MarkNeverFalls == []["overlap" \notin disturbed => hwm' >= hwm]_vars

(***************************************************************************)
(* Claims.                                                                 *)
(***************************************************************************)

\* SYSTEM_DESIGN.md:225 "Max 20% drawdown from portfolio peak triggers full
\* halt": a check that read less than 80 % of the highest portfolio value read
\* until then clears no entry.
DrawdownHalts ==
  \A c \in Check : ClearedEntry(c) => 5 * (check[c].peak - check[c].value) <= check[c].peak
=============================================================================
