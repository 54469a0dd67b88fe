------------------------------ MODULE RiskProofs ------------------------------
(***************************************************************************)
(* Proofs about RiskAgent for any number of checks and tickers, any prices *)
(* and portfolio values, and every set of faults.                          *)
(***************************************************************************)
EXTENDS RiskAgent, FiniteSetTheorems, TLAPS

(***************************************************************************)
(* The inductive invariant, on the state s of a check c.                   *)
(***************************************************************************)

\* The part of a check that looks at the portfolio is reached only by a BUY of
\* high confidence, and only a cleared entry has a quantity.
Gated(c, s) ==
  /\ s.at \in {"positions", "hwm", "write", "judge"} => NeedsPortfolio(c)
  /\ s.qty > 0 => s.at \in {"pass", "filled", "expired"}

\* A cleared entry fits the portfolio its check has read.
Fits(c, s) ==
  s.at \in {"pass", "filled", "expired"} /\ s.qty > 0 =>
    /\ NeedsPortfolio(c)
    /\ 100 * (s.qty * 2 * input[c].atr) <= s.value
    /\ 20 * (s.held[input[c].ticker] + s.qty * input[c].price) <= s.value
    /\ Cardinality(OpenPositions(s.held)) < MaxOpen
    /\ 5 * (s.hwm - s.value) <= s.hwm

\* Whoever is about to store a mark goes by a mark above 0, read one, and,
\* until something overlapped, raises the one that is stored.
Raising(at, mark) ==
  at = "write" =>
    /\ mark > 0
    /\ hwm # 0
    /\ "overlap" \notin disturbed => mark > hwm

\* Until something overlapped or Alpaca did not answer, the positions a check
\* has read are the positions until its order fills.
Fresh(s) ==
  disturbed = {} =>
    (s.at \in {"hwm", "write", "judge"} \/ (s.at = "pass" /\ s.qty > 0)
       => s.held = position)

\* Until something overlapped one check or the end-of-day task is under way.
Alone ==
  "overlap" \notin disturbed =>
    /\ \A c, d \in Check : Pending(c) /\ Pending(d) => c = d
    /\ \A c \in Check : Pending(c) => tracker.at = "idle"

Good(c, s) == Gated(c, s) /\ Fits(c, s) /\ Raising(s.at, s.hwm) /\ Fresh(s)

IInv ==
  /\ TypeOK
  /\ \A c \in Check : Good(c, check[c])
  /\ Raising(tracker.at, tracker.hwm)
  /\ Alone

-----------------------------------------------------------------------------
(***************************************************************************)
(* Arithmetic and sizing.                                                  *)
(***************************************************************************)

\* A floored quotient of naturals does not exceed the quotient.
LEMMA Floored ==
  ASSUME NEW n \in Nat, NEW d \in Nat \ {0}
  PROVE  n \div d \in Nat /\ d * (n \div d) <= n
OBVIOUS

\* Multiplication by a natural keeps an order.
LEMMA Multiplied ==
  ASSUME NEW m \in Nat, NEW n \in Nat, NEW d \in Nat, m <= n
  PROVE  d * m <= d * n
OBVIOUS

\* So does the number of shares that an amount is divided into.
LEMMA SharesBound ==
  ASSUME NEW n \in Nat, NEW d \in Nat
  PROVE  Shares(n, d) \in Nat /\ d * Shares(n, d) <= n
<1>1. CASE d > 0
  BY <1>1, Floored DEF Shares
<1>2. CASE d = 0
  BY <1>2 DEF Shares
<1>3. QED
  BY <1>1, <1>2

\* The size of an entry is a natural, and no more than 1 % of the portfolio
\* goes from the price to the stop.
LEMMA SizeBound ==
  ASSUME TypeOK, NEW c \in Check
  PROVE  Size(c) \in Nat /\ 100 * (Size(c) * 2 * input[c].atr) <= check[c].value
<1> DEFINE v == check[c].value
           a == input[c].atr
           p == input[c].price
<1>1. v \in Nat /\ a \in Nat /\ p \in Nat
  BY RiskAssumption DEF TypeOK, Input, CheckState
<1>2. Size(c) = Smaller(Shares(v, 200 * a), Shares(v, 20 * p))
  BY DEF Size
<1> HIDE DEF v, a, p
<1>3. 200 * a \in Nat /\ 20 * p \in Nat
  BY <1>1
<1> DEFINE q == Shares(v, 200 * a)
           r == Shares(v, 20 * p)
           z == Size(c)
<1>4. q \in Nat /\ r \in Nat /\ (200 * a) * q <= v
  BY <1>1, <1>3, SharesBound
<1>5. z = Smaller(q, r)
  BY <1>2
<1> HIDE DEF q, r, z
<1>6. z \in Nat /\ z <= q
  BY <1>4, <1>5 DEF Smaller
<1>7. (200 * a) * z <= (200 * a) * q
  BY <1>3, <1>4, <1>6, Multiplied
<1>8. (200 * a) * z \in Nat /\ (200 * a) * q \in Nat
  BY <1>3, <1>4, <1>6
<1>9. (200 * a) * z <= v
  BY <1>1, <1>4, <1>7, <1>8
<1>10. 100 * (z * 2 * a) <= v
  BY <1>1, <1>6, <1>9
<1>11. QED
  BY <1>6, <1>10 DEF z, v, a

\* One more position opens at most.
LEMMA OnePositionOpens ==
  ASSUME NEW held \in [Ticker -> Nat], NEW t \in Ticker, NEW n \in Nat
  PROVE  Cardinality(OpenPositions([held EXCEPT ![t] = n]))
           <= Cardinality(OpenPositions(held)) + 1
<1> DEFINE old == OpenPositions(held)
           new == OpenPositions([held EXCEPT ![t] = n])
<1>1. IsFiniteSet(Ticker)
  BY RiskAssumption
<1>2. old \subseteq Ticker
  BY DEF OpenPositions
<1>3. IsFiniteSet(old)
  BY <1>1, <1>2, FS_Subset
<1>4. new \subseteq old \cup {t}
  BY DEF OpenPositions
<1> HIDE DEF old, new
<1>5. /\ IsFiniteSet(old \cup {t})
      /\ Cardinality(old \cup {t}) \in {Cardinality(old), Cardinality(old) + 1}
  BY <1>3, FS_AddElement
<1>6. Cardinality(new) <= Cardinality(old \cup {t})
  BY <1>4, <1>5, FS_Subset
<1>7. Cardinality(old) \in Nat /\ Cardinality(new) \in Nat
  <2>1. IsFiniteSet(new)
    BY <1>4, <1>5, FS_Subset
  <2>2. QED
    BY <1>3, <2>1, FS_CardinalityType
<1>8. QED
  BY <1>5, <1>6, <1>7 DEF old, new

-----------------------------------------------------------------------------
(***************************************************************************)
(* The steps of a check.                                                   *)
(***************************************************************************)

\* The check after a move, and all the others.
LEMMA GoesSets ==
  ASSUME TypeOK, NEW c \in Check, NEW new \in CheckState, Goes(c, new)
  PROVE  /\ check' \in [Check -> CheckState]
         /\ check'[c] = new
         /\ \A d \in Check : d # c => check'[d] = check[d]
BY DEF TypeOK, Goes

\* A move of a check that was under way, starts alone or is said to overlap,
\* and that changes nothing another actor reads, preserves the invariant if
\* the new state is good.
LEMMA MovePreserves ==
  ASSUME IInv, NEW c \in Check, NEW new \in CheckState, Goes(c, new),
         UNCHANGED <<input, position, value, hwm, tracker>>, peak' \in Nat,
         disturbed \subseteq disturbed', disturbed' \subseteq {"alpaca", "overlap"},
         Pending(c) \/ ~UnderWay \/ "overlap" \in disturbed',
         Gated(c, new), Fits(c, new), Raising(new.at, new.hwm),
         Fresh(new) \/ disturbed' # {}
  PROVE  IInv'
<1>1. /\ check' \in [Check -> CheckState]
      /\ check'[c] = new
      /\ \A d \in Check : d # c => check'[d] = check[d]
  BY GoesSets DEF IInv
<1>2. TypeOK'
  BY <1>1 DEF IInv, TypeOK
<1>3. ASSUME NEW d \in Check PROVE Good(d, check[d])'
  <2>1. /\ Gated(d, check'[d]) /\ Fits(d, check'[d]) /\ Raising(check'[d].at, check'[d].hwm)
        /\ Fresh(check'[d]) \/ disturbed' # {}
    BY <1>1 DEF IInv, Good
  <2>2. (Gated(d, check[d]) /\ Fits(d, check[d]) /\ Raising(check[d].at, check[d].hwm))'
    BY <2>1 DEF Gated, Fits, Raising, NeedsPortfolio, OpenPositions
  <2>3. Fresh(check[d])'
    BY <2>1 DEF Fresh
  <2>4. QED
    BY <2>2, <2>3 DEF Good
<1>4. Raising(tracker.at, tracker.hwm)'
  BY DEF IInv, Raising
<1>5. Alone'
  <2>1. \A d \in Check : d # c => (Pending(d)' <=> Pending(d))
    BY <1>1 DEF Pending
  <2>2. ASSUME "overlap" \notin disturbed', NEW d \in Check, d # c PROVE ~Pending(d)'
    BY <2>1, <2>2 DEF IInv, Alone, UnderWay
  <2>3. "overlap" \notin disturbed' => tracker'.at = "idle"
    BY DEF IInv, Alone, UnderWay
  <2>4. QED
    BY <2>2, <2>3 DEF Alone
<1>6. QED
  BY <1>2, <1>3, <1>4, <1>5 DEF IInv

\* The steps of a check up to its decision, but for the storing of a mark.
LEMMA CheckPreserves ==
  ASSUME IInv, NEW c \in Check,
         \/ Begin(c) \/ Shortcut(c) \/ GetAccount(c) \/ GetPositions(c)
         \/ AlpacaUnavailable(c) \/ Expire(c)
  PROVE  IInv'
<1>1. /\ check[c] \in CheckState /\ Good(c, check[c]) /\ peak \in Nat /\ value \in Nat
      /\ position \in [Ticker -> Nat] /\ disturbed \subseteq {"alpaca", "overlap"}
  BY RiskAssumption DEF IInv, TypeOK
<1>2. CASE Begin(c)
  <2> DEFINE new == [check[c] EXCEPT !.at = "begin"]
  <2>1. new \in CheckState /\ Good(c, new)
    BY <1>1, <1>2 DEF Begin, CheckState, Stage, Good, Gated, Fits, Raising, Fresh
  <2>2. /\ Goes(c, new) /\ peak' \in Nat
        /\ disturbed \subseteq disturbed' /\ disturbed' \subseteq {"alpaca", "overlap"}
        /\ ~UnderWay \/ "overlap" \in disturbed'
        /\ UNCHANGED <<input, position, value, hwm, tracker>>
    BY <1>1, <1>2 DEF Begin, Starts
  <2> HIDE DEF new
  <2>3. QED
    BY <1>1, <2>1, <2>2, MovePreserves DEF Good
<1>3. CASE Shortcut(c)
  <2> DEFINE new == [check[c] EXCEPT !.at = IF input[c].signal = "BUY" THEN "block" ELSE "pass"]
  <2>1. new \in CheckState /\ Good(c, new)
    BY <1>1, <1>3 DEF Shortcut, CheckState, Stage, Good, Gated, Fits, Raising, Fresh
  <2>2. /\ Goes(c, new) /\ Pending(c) /\ peak' \in Nat
        /\ UNCHANGED <<input, position, value, hwm, tracker, disturbed>>
    BY <1>1, <1>3 DEF Shortcut, Pending
  <2> HIDE DEF new
  <2>3. QED
    BY <1>1, <2>1, <2>2, MovePreserves DEF Good
<1>4. CASE GetAccount(c)
  <2> DEFINE new == [check[c] EXCEPT !.at = "positions", !.value = value,
                                     !.peak = Larger(peak, value)]
  <2>1. Larger(peak, value) \in Nat
    BY <1>1 DEF Larger
  <2>2. new \in CheckState /\ Good(c, new)
    BY <1>1, <1>4, <2>1 DEF GetAccount, CheckState, Stage, Good, Gated, Fits, Raising, Fresh
  <2>3. /\ Goes(c, new) /\ Pending(c) /\ peak' \in Nat
        /\ UNCHANGED <<input, position, value, hwm, tracker, disturbed>>
    BY <1>1, <1>4, <2>1 DEF GetAccount, Pending
  <2> HIDE DEF new
  <2>4. QED
    BY <1>1, <2>2, <2>3, MovePreserves DEF Good
<1>5. CASE GetPositions(c)
  <2> DEFINE new == [check[c] EXCEPT !.at = "hwm", !.held = position]
  <2>1. new \in CheckState /\ Good(c, new)
    BY <1>1, <1>5 DEF GetPositions, CheckState, Stage, Good, Gated, Fits, Raising, Fresh
  <2>2. /\ Goes(c, new) /\ Pending(c) /\ peak' \in Nat
        /\ UNCHANGED <<input, position, value, hwm, tracker, disturbed>>
    BY <1>1, <1>5 DEF GetPositions, Pending
  <2> HIDE DEF new
  <2>3. QED
    BY <1>1, <2>1, <2>2, MovePreserves DEF Good
<1>6. CASE AlpacaUnavailable(c)
  <2> DEFINE new == [check[c] EXCEPT !.at = "hwm", !.value = Default, !.held = NoPositions]
  <2>1. NoPositions \in [Ticker -> Nat] /\ Default \in Nat
    BY RiskAssumption DEF NoPositions
  <2>2. new \in CheckState /\ Gated(c, new) /\ Fits(c, new) /\ Raising(new.at, new.hwm)
    BY <1>1, <1>6, <2>1 DEF AlpacaUnavailable, CheckState, Stage, Good, Gated, Fits, Raising
  <2>3. /\ Goes(c, new) /\ Pending(c) /\ peak' \in Nat
        /\ UNCHANGED <<input, position, value, hwm, tracker>>
        /\ disturbed \subseteq disturbed' /\ disturbed' \subseteq {"alpaca", "overlap"}
        /\ disturbed' # {}
    BY <1>1, <1>6 DEF AlpacaUnavailable, Pending
  <2> HIDE DEF new
  <2>4. QED
    BY <1>1, <2>2, <2>3, MovePreserves DEF Good
<1>7. CASE Expire(c)
  <2> DEFINE new == [check[c] EXCEPT !.at = "expired"]
  <2>1. new \in CheckState /\ Good(c, new)
    BY <1>1, <1>7 DEF Expire, CheckState, Stage, Good, Gated, Fits, Raising, Fresh
  <2>2. /\ Goes(c, new) /\ Pending(c) /\ peak' \in Nat
        /\ UNCHANGED <<input, position, value, hwm, tracker, disturbed>>
    BY <1>1, <1>7 DEF Expire, Pending
  <2> HIDE DEF new
  <2>3. QED
    BY <1>1, <2>1, <2>2, MovePreserves DEF Good
<1>8. QED
  BY <1>2, <1>3, <1>4, <1>5, <1>6, <1>7

\* What a reader of the mark goes by, and when it stores it.
LEMMA MarkRead ==
  ASSUME TypeOK, NEW v \in Nat, NEW m \in HwmAnswers
  PROVE  /\ Mark(m, v) \in Nat
         /\ Stores(m, v) => Mark(m, v) > 0 /\ hwm # 0 /\ Mark(m, v) > hwm
<1>1. hwm \in Nat /\ m \in {hwm, 0}
  BY DEF TypeOK, HwmAnswers
<1>2. QED
  BY <1>1 DEF Mark, Stores, Larger

\* ReadHwm preserves the invariant.
LEMMA ReadPreserves ==
  ASSUME IInv, NEW c \in Check, ReadHwm(c)
  PROVE  IInv'
<1>1. /\ check[c] \in CheckState /\ Good(c, check[c]) /\ TypeOK /\ disturbed \subseteq {"alpaca", "overlap"}
      /\ check[c].value \in Nat /\ peak \in Nat /\ check[c].at = "hwm"
  BY DEF IInv, TypeOK, CheckState, ReadHwm
<1>2. PICK m \in HwmAnswers :
        Goes(c, [check[c] EXCEPT !.hwm = Mark(m, check[c].value),
                   !.at = IF Stores(m, check[c].value) THEN "write" ELSE "judge"])
  BY DEF ReadHwm
<1> DEFINE mark == Mark(m, check[c].value)
           new == [check[c] EXCEPT !.hwm = mark,
                     !.at = IF Stores(m, check[c].value) THEN "write" ELSE "judge"]
<1>3. /\ mark \in Nat
      /\ Stores(m, check[c].value) => mark > 0 /\ hwm # 0 /\ mark > hwm
  BY <1>1, MarkRead
<1> HIDE DEF mark
<1>4. new \in CheckState
  BY <1>1, <1>3 DEF CheckState, Stage
<1>5. Good(c, new)
  BY <1>1, <1>3 DEF CheckState, Good, Gated, Fits, Raising, Fresh
<1>6. /\ Goes(c, new) /\ Pending(c) /\ peak' \in Nat
      /\ UNCHANGED <<input, position, value, hwm, tracker, disturbed>>
  BY <1>1, <1>2 DEF ReadHwm, Pending, mark
<1> HIDE DEF new
<1>7. QED
  BY <1>1, <1>4, <1>5, <1>6, MovePreserves DEF Good

\* Judge preserves the invariant: what it clears fits what the check has read.
LEMMA JudgePreserves ==
  ASSUME IInv, NEW c \in Check, Judge(c)
  PROVE  IInv'
<1>1. /\ check[c] \in CheckState /\ Good(c, check[c]) /\ TypeOK /\ disturbed \subseteq {"alpaca", "overlap"}
      /\ peak \in Nat /\ check[c].at = "judge"
  BY DEF IInv, TypeOK, Judge
<1>2. Pending(c) /\ peak' \in Nat /\ UNCHANGED <<input, position, value, hwm, tracker, disturbed>>
  BY <1>1 DEF Judge, Pending
<1>3. CASE Blocks(c)
  <2> DEFINE new == [check[c] EXCEPT !.at = "block"]
  <2>1. new \in CheckState /\ Good(c, new)
    BY <1>1 DEF CheckState, Stage, Good, Gated, Fits, Raising, Fresh
  <2>2. Goes(c, new)
    BY <1>3 DEF Judge
  <2> HIDE DEF new
  <2>3. QED
    BY <1>1, <1>2, <2>1, <2>2, MovePreserves DEF Good
<1>4. CASE ~Blocks(c)
  <2> DEFINE new == [check[c] EXCEPT !.at = "pass", !.qty = Size(c)]
  <2>1. Size(c) \in Nat /\ 100 * (Size(c) * 2 * input[c].atr) <= check[c].value
    BY <1>1, SizeBound
  <2>2. /\ check[c].value \in Nat /\ check[c].hwm \in Nat
        /\ check[c].held \in [Ticker -> Nat]
        /\ input[c].ticker \in Ticker /\ input[c].price \in Nat
    BY <1>1, RiskAssumption DEF CheckState, TypeOK, Input
  <2>3. 5 * (check[c].hwm - check[c].value) <= check[c].hwm
    BY <1>4, <2>2 DEF Blocks, Drawdown
  <2>4. Cardinality(OpenPositions(check[c].held)) < MaxOpen
    <3>1. OpenPositions(check[c].held) \subseteq Ticker
      BY DEF OpenPositions
    <3>2. Cardinality(OpenPositions(check[c].held)) \in Nat
      BY <3>1, RiskAssumption, FS_Subset, FS_CardinalityType
    <3>3. QED
      BY <1>4, <3>2, RiskAssumption DEF Blocks, TooMany
  <2>5. 20 * (check[c].held[input[c].ticker] + Size(c) * input[c].price) <= check[c].value
    <3> DEFINE worth == Size(c) * input[c].price
    <3>1. worth \in Nat
      BY <2>1, <2>2
    <3>2. ~(20 * (check[c].held[input[c].ticker] + worth) > check[c].value)
      BY <1>4 DEF Blocks, Concentrated, Exposure
    <3> HIDE DEF worth
    <3>3. 20 * (check[c].held[input[c].ticker] + worth) <= check[c].value
      BY <2>2, <3>1, <3>2
    <3>4. QED
      BY <3>3 DEF worth
  <2>6. /\ new.at = "pass" /\ new.qty = Size(c) /\ new.value = check[c].value
        /\ new.held = check[c].held /\ new.hwm = check[c].hwm /\ new \in CheckState
    BY <1>1, <2>1 DEF CheckState, Stage
  <2>7. Goes(c, new)
    BY <1>4 DEF Judge
  <2> HIDE DEF new
  <2>8. NeedsPortfolio(c)
    BY <1>1 DEF Good, Gated
  <2>9. Fits(c, new)
    BY <2>1, <2>3, <2>4, <2>5, <2>6, <2>8 DEF Fits
  <2>10. Gated(c, new) /\ Raising(new.at, new.hwm) /\ Fresh(new)
    BY <1>1, <2>6 DEF Good, Gated, Raising, Fresh
  <2>11. QED
    BY <1>1, <1>2, <2>6, <2>7, <2>9, <2>10, MovePreserves
<1>5. QED
  BY <1>3, <1>4

\* A mark that is stored: nobody else was about to unless things overlap.
LEMMA StoredMark ==
  ASSUME IInv, NEW mark \in Nat, hwm' \in {hwm, mark}, mark > 0, hwm # 0,
         "overlap" \notin disturbed => mark > hwm
  PROVE  /\ hwm' \in Nat
         /\ hwm' # 0
         /\ "overlap" \notin disturbed => hwm' >= hwm
BY DEF IInv, TypeOK

\* WriteHwm preserves the invariant.
LEMMA WritePreserves ==
  ASSUME IInv, NEW c \in Check, WriteHwm(c)
  PROVE  IInv'
<1> DEFINE new == [check[c] EXCEPT !.at = "judge"]
<1>1. /\ check[c] \in CheckState /\ Good(c, check[c]) /\ TypeOK
      /\ check[c].hwm \in Nat /\ check[c].at = "write" /\ Pending(c)
  BY DEF IInv, TypeOK, CheckState, WriteHwm, Pending
<1>2. /\ hwm' \in {hwm, check[c].hwm} /\ Goes(c, new)
      /\ UNCHANGED <<input, position, value, tracker, peak, disturbed>>
  BY DEF WriteHwm
<1>3. hwm' \in Nat /\ hwm' # 0
  <2>1. /\ check[c].hwm > 0 /\ hwm # 0
        /\ "overlap" \notin disturbed => check[c].hwm > hwm
    BY <1>1 DEF Good, Raising
  <2>2. QED
    BY <1>1, <1>2, <2>1, StoredMark
<1>4. new \in CheckState
  BY <1>1 DEF CheckState, Stage
<1>5. /\ check' \in [Check -> CheckState]
      /\ check'[c] = new
      /\ \A d \in Check : d # c => check'[d] = check[d]
  BY <1>1, <1>2, <1>4, GoesSets
<1>6. TypeOK'
  BY <1>1, <1>2, <1>3, <1>5 DEF TypeOK
<1>7. ASSUME NEW d \in Check, d # c, "overlap" \notin disturbed
      PROVE  ~Pending(d) /\ check[d].at # "write" /\ tracker.at = "idle"
  BY <1>1, <1>7 DEF IInv, Alone, Pending
<1>8. ASSUME NEW d \in Check PROVE Good(d, check[d])'
  <2>1. CASE d = c
    <3>1. /\ new.at = "judge" /\ new.qty = check[c].qty /\ new.value = check[c].value
          /\ new.held = check[c].held
      BY <1>1 DEF CheckState
    <3>2. Gated(c, new) /\ Fits(c, new) /\ Fresh(new)
      BY <1>1, <3>1 DEF Good, Gated, Fits, Fresh
    <3>3. QED
      BY <1>2, <1>5, <2>1, <3>1, <3>2
         DEF Good, Gated, Fits, Raising, Fresh, NeedsPortfolio, OpenPositions
  <2>2. CASE d # c
    <3>1. Good(d, check[d])
      BY DEF IInv
    <3>2. Raising(check[d].at, check[d].hwm)'
      BY <1>2, <1>3, <1>5, <1>7, <2>2, <3>1 DEF Good, Raising
    <3>3. QED
      BY <1>2, <1>5, <2>2, <3>1, <3>2
         DEF Good, Gated, Fits, Fresh, NeedsPortfolio, OpenPositions
  <2>3. QED
    BY <2>1, <2>2
<1>9. Raising(tracker.at, tracker.hwm)'
  <2>1. "overlap" \notin disturbed => tracker.at = "idle"
    BY <1>1 DEF IInv, Alone
  <2>2. QED
    BY <1>2, <1>3, <2>1 DEF IInv, Raising
<1>10. Alone'
  <2>1. \A d \in Check : d # c => (Pending(d)' <=> Pending(d))
    BY <1>5 DEF Pending
  <2>2. QED
    BY <1>1, <1>2, <2>1 DEF IInv, Alone
<1>11. QED
  BY <1>6, <1>8, <1>9, <1>10 DEF IInv

\* Fill preserves the invariant: without overlap no other check has positions
\* that its fill would make stale.
LEMMA FillPreserves ==
  ASSUME IInv, NEW c \in Check, Fill(c)
  PROVE  IInv'
<1> DEFINE new == [check[c] EXCEPT !.at = "filled"]
<1>1. /\ check[c] \in CheckState /\ Good(c, check[c]) /\ TypeOK
      /\ check[c].at = "pass" /\ check[c].qty > 0 /\ Pending(c)
  BY DEF IInv, TypeOK, Fill, Pending
<1>2. Goes(c, new) /\ UNCHANGED <<input, value, hwm, tracker, peak, disturbed>>
  BY DEF Fill
<1>3. position' \in [Ticker -> Nat]
  <2>1. /\ input[c].ticker \in Ticker /\ input[c].price \in Nat
        /\ check[c].qty \in Nat /\ position \in [Ticker -> Nat]
    BY <1>1, RiskAssumption DEF TypeOK, Input, CheckState
  <2>2. check[c].qty * input[c].price \in Nat
    BY <2>1
  <2>3. QED
    BY <2>1, <2>2 DEF Fill
<1>4. new \in CheckState
  BY <1>1 DEF CheckState, Stage
<1>5. /\ check' \in [Check -> CheckState]
      /\ check'[c] = new
      /\ \A d \in Check : d # c => check'[d] = check[d]
  BY <1>1, <1>2, <1>4, GoesSets
<1>6. TypeOK'
  BY <1>1, <1>2, <1>3, <1>5 DEF TypeOK
<1>7. ASSUME NEW d \in Check PROVE Good(d, check[d])'
  <2>1. CASE d = c
    <3>1. /\ new.at = "filled" /\ new.qty = check[c].qty /\ new.value = check[c].value
          /\ new.held = check[c].held /\ new.hwm = check[c].hwm
      BY <1>1 DEF CheckState
    <3>2. Gated(c, new) /\ Fits(c, new) /\ Raising(new.at, new.hwm)
      BY <1>1, <3>1 DEF Good, Gated, Fits, Raising
    <3>3. Fresh(check[d])'
      BY <1>5, <2>1, <3>1 DEF Fresh
    <3>4. QED
      BY <1>2, <1>5, <2>1, <3>2, <3>3
         DEF Good, Gated, Fits, Raising, NeedsPortfolio, OpenPositions
  <2>2. CASE d # c
    <3>1. Good(d, check[d])
      BY DEF IInv
    <3>2. "overlap" \notin disturbed => ~Pending(d)
      BY <1>1, <2>2 DEF IInv, Alone
    <3>3. Fresh(check[d])'
      BY <1>2, <1>5, <2>2, <3>2 DEF Fresh, Pending
    <3>4. QED
      BY <1>2, <1>5, <2>2, <3>1, <3>3
         DEF Good, Gated, Fits, Raising, NeedsPortfolio, OpenPositions
  <2>3. QED
    BY <2>1, <2>2
<1>8. Raising(tracker.at, tracker.hwm)'
  BY <1>2 DEF IInv, Raising
<1>9. Alone'
  <2>1. \A d \in Check : d # c => (Pending(d)' <=> Pending(d))
    BY <1>5 DEF Pending
  <2>2. QED
    BY <1>1, <1>2, <2>1 DEF IInv, Alone
<1>10. QED
  BY <1>6, <1>7, <1>8, <1>9 DEF IInv

-----------------------------------------------------------------------------
(***************************************************************************)
(* The steps of the others.                                                *)
(***************************************************************************)

\* The steps of the end-of-day task preserve the invariant.
LEMMA TrackerPreserves ==
  ASSUME IInv, TrackerStarts \/ TrackerReads \/ TrackerWrites
  PROVE  IInv'
<1>1. /\ TypeOK /\ tracker.value \in Nat /\ tracker.hwm \in Nat
      /\ \A c \in Check : Good(c, check[c])
      /\ Raising(tracker.at, tracker.hwm) /\ Alone
  BY DEF IInv, TypeOK
<1>2. UNCHANGED <<input, check, position, value>> /\ disturbed \subseteq disturbed'
  BY DEF TrackerStarts, TrackerReads, TrackerWrites, Starts
<1>3. \A c \in Check : Pending(c)' <=> Pending(c)
  BY <1>2 DEF Pending
<1>4. /\ TypeOK' /\ Raising(tracker.at, tracker.hwm)'
      /\ hwm = 0 => hwm' = 0
      /\ hwm # 0 => hwm' # 0
      /\ hwm' # hwm => tracker.at = "write"
      /\ tracker'.at # "idle" => tracker.at # "idle" \/ ~UnderWay \/ "overlap" \in disturbed'
  <2>1. CASE TrackerStarts
    <3>1. PICK v \in Values : /\ tracker' = [at |-> "hwm", value |-> v, hwm |-> 0]
                              /\ peak' = Larger(peak, v)
      BY <2>1 DEF TrackerStarts
    <3>2. v \in Nat /\ peak' \in Nat
      BY <1>1, <3>1, RiskAssumption DEF TypeOK, Larger
    <3>3. TypeOK'
      BY <1>1, <1>2, <2>1, <3>1, <3>2 DEF TypeOK, TrackerStarts, Starts
    <3>4. QED
      BY <1>1, <1>2, <2>1, <3>1, <3>3 DEF TrackerStarts, Starts, Raising
  <2>2. CASE TrackerReads
    <3>1. PICK m \in HwmAnswers :
            tracker' = [tracker EXCEPT !.hwm = Mark(m, tracker.value),
                         !.at = IF Stores(m, tracker.value) THEN "write" ELSE "idle"]
      BY <2>2 DEF TrackerReads
    <3> DEFINE mark == Mark(m, tracker.value)
    <3>2. /\ mark \in Nat
          /\ Stores(m, tracker.value) => mark > 0 /\ hwm # 0 /\ mark > hwm
      BY <1>1, MarkRead
    <3>3. /\ tracker'.hwm = mark /\ tracker'.value = tracker.value
          /\ tracker'.at = IF Stores(m, tracker.value) THEN "write" ELSE "idle"
      BY <1>1, <3>1 DEF TypeOK
    <3>4. tracker' \in [at : {"idle", "hwm", "write"}, value : Nat, hwm : Nat]
      BY <1>1, <3>1, <3>2 DEF TypeOK
    <3>5. TypeOK'
      BY <1>1, <1>2, <2>2, <3>4 DEF TypeOK, TrackerReads
    <3> HIDE DEF mark
    <3>6. QED
      BY <2>2, <3>2, <3>3, <3>5 DEF TrackerReads, Raising
  <2>3. CASE TrackerWrites
    <3>1. /\ hwm' \in {hwm, tracker.hwm} /\ tracker.at = "write" /\ disturbed' = disturbed
          /\ tracker' = [tracker EXCEPT !.at = "idle"] /\ peak' = peak
      BY <2>3 DEF TrackerWrites
    <3>2. /\ tracker.hwm > 0 /\ hwm # 0
          /\ "overlap" \notin disturbed => tracker.hwm > hwm
      BY <1>1, <3>1 DEF Raising
    <3>3. hwm' \in Nat /\ hwm' # 0
      BY <1>1, <3>1, <3>2, StoredMark
    <3>4. /\ tracker' \in [at : {"idle", "hwm", "write"}, value : Nat, hwm : Nat]
          /\ tracker'.at = "idle"
      BY <1>1, <3>1 DEF TypeOK
    <3>5. TypeOK'
      BY <1>1, <1>2, <3>1, <3>3, <3>4 DEF TypeOK
    <3>6. QED
      BY <3>1, <3>2, <3>3, <3>4, <3>5 DEF Raising
  <2>4. QED
    BY <2>1, <2>2, <2>3
<1>5. "overlap" \notin disturbed' /\ (hwm' # hwm \/ tracker'.at # "idle") =>
        \A c \in Check : ~Pending(c)
  BY <1>1, <1>2, <1>4 DEF Alone, UnderWay
<1>6. ASSUME NEW c \in Check PROVE Good(c, check[c])'
  <2>1. Good(c, check[c])
    BY <1>1
  <2>2. "overlap" \notin disturbed' /\ hwm' # hwm => check[c].at # "write"
    BY <1>5 DEF Pending
  <2>3. Raising(check[c].at, check[c].hwm)'
    BY <1>2, <1>4, <2>1, <2>2 DEF Good, Raising
  <2>4. QED
    BY <1>2, <2>1, <2>3 DEF Good, Gated, Fits, Fresh, NeedsPortfolio, OpenPositions
<1>7. Alone'
  BY <1>1, <1>2, <1>3, <1>5 DEF Alone
<1>8. QED
  BY <1>4, <1>6, <1>7 DEF IInv

\* The market changes only the value of the portfolio.
LEMMA MarketPreserves ==
  ASSUME IInv, Market
  PROVE  IInv'
<1>1. value' \in Values /\ UNCHANGED <<input, check, position, hwm, tracker, peak, disturbed>>
  BY DEF Market
<1>2. TypeOK'
  BY <1>1 DEF IInv, TypeOK
<1>3. QED
  BY <1>1, <1>2 DEF IInv, Good, Gated, Fits, Raising, Fresh, Alone, Pending,
                    NeedsPortfolio, OpenPositions

-----------------------------------------------------------------------------
(***************************************************************************)
(* The invariant and the properties.                                       *)
(***************************************************************************)

\* The invariant holds of the initial state.
LEMMA InitInv == Init => IInv
<1> SUFFICES ASSUME Init PROVE IInv
  OBVIOUS
<1>1. NoPositions \in [Ticker -> Nat] /\ [Ticker -> Holding] \subseteq [Ticker -> Nat]
  BY RiskAssumption DEF NoPositions
<1>2. NewCheck \in CheckState /\ NewCheck.at = "queued" /\ NewCheck.qty = 0
  BY <1>1 DEF NewCheck, CheckState, Stage
<1>3. TypeOK
  BY <1>1, <1>2, RiskAssumption DEF Init, TypeOK
<1>4. \A c \in Check : check[c].at = "queued" /\ check[c].qty = 0
  BY <1>2 DEF Init
<1>5. \A c \in Check : Good(c, check[c]) /\ ~Pending(c)
  BY <1>4 DEF Good, Gated, Fits, Raising, Fresh, Pending
<1>6. Raising(tracker.at, tracker.hwm) /\ Alone
  BY <1>5 DEF Init, Raising, Alone
<1>7. QED
  BY <1>3, <1>5, <1>6 DEF IInv

\* Every step preserves the invariant.
LEMMA NextInv ==
  ASSUME IInv, [Next]_vars
  PROVE  IInv'
<1>1. ASSUME NEW c \in Check, Begin(c) \/ CheckStep(c) \/ Fill(c) \/ Expire(c)
      PROVE  IInv'
  BY <1>1, CheckPreserves, ReadPreserves, WritePreserves, JudgePreserves, FillPreserves
     DEF CheckStep
<1>2. CASE UNCHANGED vars
  BY <1>2 DEF vars, IInv, TypeOK, Good, Gated, Fits, Raising, Fresh, Alone, Pending,
              NeedsPortfolio, OpenPositions
<1>3. QED
  BY <1>1, <1>2, TrackerPreserves, MarketPreserves DEF Next

\* The invariant holds in every reachable state.
THEOREM Invariance == Spec => []IInv
<1>1. IInv /\ [Next]_vars => IInv'
  BY NextInv
<1>2. QED
  BY InitInv, <1>1, PTL DEF Spec

\* Every variable keeps its type in every reachable state.
THEOREM TypeCorrect == Spec => []TypeOK
<1>1. IInv => TypeOK
  BY DEF IInv
<1>2. QED
  BY Invariance, <1>1, PTL

\* Whatever the portfolio, the price and the volatility, and whatever overlaps
\* or fails, a cleared entry fits the portfolio its check has read.
THEOREM LimitsOnWhatWasRead == Spec => []EntriesFitWhatWasRead
<1>1. IInv => EntriesFitWhatWasRead
  BY DEF IInv, Good, Fits, EntriesFitWhatWasRead, ClearedEntry
<1>2. QED
  BY Invariance, <1>1, PTL

\* Only Fill fills an order.
LEMMA OnlyFillFills ==
  ASSUME IInv, Next, NEW c \in Check, check[c].at # "filled", check'[c].at = "filled"
  PROVE  Fill(c)
<1>1. check \in [Check -> CheckState]
  BY DEF IInv, TypeOK
<1>2. PICK d \in Check : Begin(d) \/ CheckStep(d) \/ Fill(d) \/ Expire(d)
  BY DEF Next, TrackerStarts, TrackerReads, TrackerWrites, Market
<1>3. CASE d # c
  BY <1>1, <1>2, <1>3 DEF Begin, CheckStep, Fill, Expire, Shortcut, GetAccount, GetPositions,
                     AlpacaUnavailable, ReadHwm, WriteHwm, Judge, Goes
<1>4. CASE d = c
  <2>1. ASSUME NEW new, new.at # "filled", Goes(c, new) PROVE FALSE
    BY <1>1, <2>1 DEF Goes
  <2>2. check[c] \in CheckState
    BY <1>1
  <2>3. ~Begin(c) /\ ~Shortcut(c) /\ ~GetAccount(c)
    BY <2>1, <2>2 DEF Begin, Shortcut, GetAccount, CheckState
  <2>4. ~GetPositions(c) /\ ~AlpacaUnavailable(c) /\ ~Expire(c)
    BY <2>1, <2>2 DEF GetPositions, AlpacaUnavailable, Expire, CheckState
  <2>5. ~ReadHwm(c) /\ ~WriteHwm(c) /\ ~Judge(c)
    BY <2>1, <2>2 DEF ReadHwm, WriteHwm, Judge, CheckState
  <2>6. QED
    BY <1>2, <1>4, <2>3, <2>4, <2>5 DEF CheckStep
<1>5. QED
  BY <1>3, <1>4

\* Checks that do not overlap keep the real positions within the limits when
\* their orders fill.
THEOREM LimitsOnWhatIsHeld == Spec => LoneEntriesFitWhatIsHeld
<1>1. ASSUME IInv, [Next]_vars, disturbed = {}, NEW c \in Check
      PROVE  ~FillsBeyondLimits(c)
  <2> SUFFICES ASSUME check[c].at # "filled", check'[c].at = "filled"
               PROVE  /\ ~(20 * position'[input[c].ticker] > check[c].value)
                      /\ ~(Cardinality(OpenPositions(position')) > MaxOpen)
    BY DEF FillsBeyondLimits
  <2>1. Fill(c)
    BY <1>1, OnlyFillFills DEF vars
  <2> DEFINE t == input[c].ticker
             n == position[t] + check[c].qty * input[c].price
  <2>2. /\ position' = [position EXCEPT ![t] = n]
        /\ check[c].at = "pass" /\ check[c].qty > 0
    BY <2>1 DEF Fill
  <2>3. /\ t \in Ticker /\ position \in [Ticker -> Nat] /\ input[c].price \in Nat
        /\ check[c].qty \in Nat /\ check[c].value \in Nat /\ check[c].held = position
    BY <1>1, <2>2, RiskAssumption DEF IInv, TypeOK, Input, CheckState, Good, Fresh
  <2>4. n \in Nat
    <3>1. check[c].qty * input[c].price \in Nat
      BY <2>3
    <3>2. QED
      BY <2>3, <3>1
  <2>5. /\ 20 * n <= check[c].value
        /\ Cardinality(OpenPositions(position)) < MaxOpen
    BY <1>1, <2>2, <2>3 DEF IInv, Good, Fits
  <2> HIDE DEF n, t
  <2>6. position'[t] = n
    BY <2>2, <2>3
  <2>7. Cardinality(OpenPositions(position')) <= Cardinality(OpenPositions(position)) + 1
    BY <2>2, <2>3, <2>4, OnePositionOpens
  <2>8. Cardinality(OpenPositions(position)) \in Nat /\ Cardinality(OpenPositions(position')) \in Nat
    <3>1. OpenPositions(position) \subseteq Ticker /\ OpenPositions(position') \subseteq Ticker
      BY DEF OpenPositions
    <3>2. QED
      BY <3>1, RiskAssumption, FS_Subset, FS_CardinalityType
  <2>9. ~(20 * position'[t] > check[c].value)
    BY <2>3, <2>4, <2>5, <2>6
  <2>10. ~(Cardinality(OpenPositions(position')) > MaxOpen)
    BY <2>5, <2>7, <2>8, RiskAssumption
  <2>11. QED
    BY <2>9, <2>10 DEF t
<1>2. IInv /\ [Next]_vars =>
        [disturbed = {} => \A c \in Check : ~FillsBeyondLimits(c)]_vars
  BY <1>1
<1>3. QED
  BY Invariance, <1>2, PTL DEF Spec, LoneEntriesFitWhatIsHeld

\* How a step changes the mark.
LEMMA MarkSteps ==
  ASSUME IInv, [Next]_vars
  PROVE  /\ hwm = 0 => hwm' = 0
         /\ "overlap" \notin disturbed => hwm' >= hwm
<1>1. hwm \in Nat
  BY DEF IInv, TypeOK
<1>2. ASSUME NEW c \in Check, WriteHwm(c)
      PROVE  /\ hwm = 0 => hwm' = 0
             /\ "overlap" \notin disturbed => hwm' >= hwm
  <2>1. /\ check[c].hwm \in Nat /\ hwm' \in {hwm, check[c].hwm}
        /\ Raising("write", check[c].hwm)
    BY <1>2 DEF IInv, TypeOK, CheckState, Good, WriteHwm
  <2>2. QED
    BY <1>1, <2>1 DEF Raising
<1>3. ASSUME TrackerWrites
      PROVE  /\ hwm = 0 => hwm' = 0
             /\ "overlap" \notin disturbed => hwm' >= hwm
  <2>1. /\ tracker.hwm \in Nat /\ hwm' \in {hwm, tracker.hwm}
        /\ Raising("write", tracker.hwm)
    BY <1>3 DEF IInv, TypeOK, TrackerWrites
  <2>2. QED
    BY <1>1, <2>1 DEF Raising
<1>4. CASE UNCHANGED hwm
  BY <1>1, <1>4
<1>5. (\E c \in Check : WriteHwm(c)) \/ TrackerWrites \/ UNCHANGED hwm
  BY DEF Next, vars, Begin, CheckStep, Shortcut, GetAccount, GetPositions, AlpacaUnavailable,
         ReadHwm, Judge, Fill, Expire, TrackerStarts, TrackerReads, Market
<1>6. QED
  BY <1>2, <1>3, <1>4, <1>5

\* A mark that was never stored never is: the drawdown guardrail of a fresh
\* installation compares the portfolio with itself for ever.
THEOREM MarkIsNeverCreated == Spec => UnsetMarkStaysUnset
<1>1. IInv /\ [Next]_vars => [hwm = 0 => hwm' = 0]_vars
  BY MarkSteps
<1>2. QED
  BY Invariance, <1>1, PTL DEF Spec, UnsetMarkStaysUnset

\* Without overlap the mark is monotone, whatever Redis calls fail.
THEOREM MarkIsMonotone == Spec => MarkNeverFalls
<1>1. IInv /\ [Next]_vars => ["overlap" \notin disturbed => hwm' >= hwm]_vars
  BY MarkSteps
<1>2. QED
  BY Invariance, <1>1, PTL DEF Spec, MarkNeverFalls

-----------------------------------------------------------------------------
(***************************************************************************)
(* What the pipeline takes from a check (RiskOutcome of Orchestrator).     *)
(***************************************************************************)

\* A check of another signal than BUY passes without an entry, one of low
\* confidence blocks, and one of a confident BUY blocks or passes with an entry.
AnswerFits(c) ==
  /\ check[c].at = "block" => input[c].signal = "BUY" /\ check[c].qty = 0
  /\ check[c].at \in {"pass", "filled", "expired"} =>
       IF input[c].signal = "BUY"
         THEN input[c].confidence = "high" /\ check[c].qty > 0
         ELSE check[c].qty = 0
AnswersFitThePipeline == \A c \in Check : AnswerFits(c)

\* A check that takes a step answers, if it does, as the pipeline expects.
LEMMA AnswersPreserved ==
  ASSUME IInv, AnswersFitThePipeline, [Next]_vars
  PROVE  AnswersFitThePipeline'
<1>1. check \in [Check -> CheckState] /\ UNCHANGED input
  BY DEF IInv, TypeOK, Next, vars, Begin, CheckStep, Shortcut, GetAccount, GetPositions,
         AlpacaUnavailable, ReadHwm, WriteHwm, Judge, Fill, Expire,
         TrackerStarts, TrackerReads, TrackerWrites, Market
<1>2. ASSUME NEW c \in Check, check'[c] = check[c]
      PROVE  AnswerFits(c)'
  BY <1>1, <1>2 DEF AnswersFitThePipeline, AnswerFits
<1>3. CASE UNCHANGED check
  BY <1>2, <1>3 DEF AnswersFitThePipeline
<1>4. ASSUME NEW d \in Check, Begin(d) \/ CheckStep(d) \/ Fill(d) \/ Expire(d)
      PROVE  AnswersFitThePipeline'
  <2>1. /\ check[d] \in CheckState
        /\ check[d].qty > 0 => check[d].at \in {"pass", "filled", "expired"}
        /\ check[d].at = "judge" => NeedsPortfolio(d)
        /\ AnswerFits(d)
    BY <1>1 DEF IInv, Good, Gated, AnswersFitThePipeline
  <2>2. \A c \in Check : c # d => check'[c] = check[c]
    BY <1>1, <1>4 DEF Begin, CheckStep, Shortcut, GetAccount, GetPositions,
         AlpacaUnavailable, ReadHwm, WriteHwm, Judge, Fill, Expire, Goes
  <2>3. CASE Shortcut(d)
    <3>1. check'[d] = [check[d] EXCEPT !.at = IF input[d].signal = "BUY" THEN "block" ELSE "pass"]
      BY <1>1, <2>3 DEF Shortcut, Goes
    <3>2. check[d].qty = 0
      BY <2>1, <2>3 DEF Shortcut, CheckState
    <3>3. AnswerFits(d)'
      BY <1>1, <2>1, <3>1, <3>2 DEF AnswerFits, CheckState
    <3>4. QED
      BY <1>2, <2>2, <3>3 DEF AnswersFitThePipeline
  <2>4. CASE Judge(d)
    <3>1. NeedsPortfolio(d) /\ check[d].qty = 0
      BY <2>1, <2>4 DEF Judge, CheckState
    <3>2. ASSUME Blocks(d) PROVE AnswerFits(d)'
      <4>1. check'[d] = [check[d] EXCEPT !.at = "block"]
        BY <1>1, <2>4, <3>2 DEF Judge, Goes
      <4>2. QED
        BY <1>1, <2>1, <3>1, <4>1 DEF AnswerFits, CheckState, NeedsPortfolio
    <3>3. ASSUME ~Blocks(d) PROVE AnswerFits(d)'
      <4>1. check'[d] = [check[d] EXCEPT !.at = "pass", !.qty = Size(d)]
        BY <1>1, <2>4, <3>3 DEF Judge, Goes
      <4>2. Size(d) \in Nat /\ Size(d) > 0
        BY <3>3, SizeBound DEF IInv, Blocks
      <4>3. QED
        BY <1>1, <2>1, <3>1, <4>1, <4>2 DEF AnswerFits, CheckState, NeedsPortfolio
    <3>4. QED
      BY <1>2, <2>2, <3>2, <3>3 DEF AnswersFitThePipeline
  <2>5. CASE Fill(d) \/ Expire(d)
    <3>1. \E at \in {"filled", "expired"} : check'[d] = [check[d] EXCEPT !.at = at]
      BY <1>1, <2>5 DEF Fill, Expire, Goes
    <3>2. check[d].at = "pass"
      BY <2>5 DEF Fill, Expire
    <3>3. AnswerFits(d)'
      BY <1>1, <2>1, <3>1, <3>2 DEF AnswerFits, CheckState
    <3>4. QED
      BY <1>2, <2>2, <3>3 DEF AnswersFitThePipeline
  <2>6. CASE \/ Begin(d) \/ GetAccount(d) \/ GetPositions(d)
             \/ AlpacaUnavailable(d) \/ ReadHwm(d) \/ WriteHwm(d)
    <3>1. check'[d].at \notin {"block", "pass", "filled", "expired"}
      <4>1. CASE Begin(d) \/ GetAccount(d) \/ GetPositions(d)
        BY <1>1, <2>1, <4>1 DEF Begin, GetAccount, GetPositions, Goes, CheckState
      <4>2. CASE AlpacaUnavailable(d) \/ ReadHwm(d) \/ WriteHwm(d)
        BY <1>1, <2>1, <4>2 DEF AlpacaUnavailable, ReadHwm, WriteHwm, Goes, CheckState
      <4>3. QED
        BY <2>6, <4>1, <4>2
    <3>2. AnswerFits(d)'
      BY <3>1 DEF AnswerFits
    <3>3. QED
      BY <1>2, <2>2, <3>2 DEF AnswersFitThePipeline
  <2>7. QED
    BY <1>4, <2>3, <2>4, <2>5, <2>6 DEF CheckStep
<1>5. QED
  BY <1>3, <1>4 DEF Next, TrackerStarts, TrackerReads, TrackerWrites, Market, vars

\* The risk agent answers the pipeline only as Orchestrator takes it to, for
\* every portfolio, price and volatility, whatever overlaps or fails.
THEOREM AnswersFit == Spec => []AnswersFitThePipeline
<1>1. Init => AnswersFitThePipeline
  BY DEF Init, AnswersFitThePipeline, AnswerFits, NewCheck
<1>2. IInv /\ AnswersFitThePipeline /\ [Next]_vars => AnswersFitThePipeline'
  BY AnswersPreserved
<1>3. QED
  BY Invariance, <1>1, <1>2, PTL DEF Spec
=============================================================================
