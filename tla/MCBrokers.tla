------------------------------- MODULE MCBrokers -------------------------------
(***************************************************************************)
(* Checks of the risk agent, the broker layer of app/tools/broker.py and   *)
(* the trades that users place by hand, for TLC.  They share no state      *)
(* here, and a behaviour is one of one of them: of checks that follow one  *)
(* another, of two checks that overlap, of the paper broker or one of the  *)
(* two brokers reached over HTTP, or of the requests for a trade.          *)
(***************************************************************************)
EXTENDS MCRiskAgent, PaperBroker, LiveOrders, ManualTrade

VARIABLE subject

\* What a subject begins with is of interest only to itself.  One ticker is
\* held, and one of the checks at least may clear an entry.  The other may do
\* so too, or lack a volatility or a price, or not look at the portfolio.
Usual(i) == i.signal = "BUY" /\ i.confidence = "high" /\ i.atr > 0 /\ i.price > 0
Plain == [ticker |-> CHOOSE t \in Ticker : TRUE, signal |-> "other",
          confidence |-> "low", atr |-> 1, price |-> 5]
Inputs ==
  IF subject # "risk" THEN {Plain}
  ELSE {i \in Input : IF i.signal = "BUY" /\ i.confidence = "high" THEN i.atr + i.price > 0
                     ELSE (i.signal = "BUY" <=> i.confidence = "low") /\ i.atr = 1 /\ i.price = 5}
RiskMatters ==
  /\ Cardinality(OpenPositions(position)) = 1
  /\ \E c \in Check : Usual(input[c])
  /\ \A c, d \in Check : ~Usual(input[c]) => input[d].ticker = input[c].ticker
PlainRisk ==
  /\ (\A v \in Values : value <= v) /\ hwm = 0
  /\ \A t \in Ticker : position[t] = 0
PlainBroker == backend = "paper" /\ (\A m \in Name : price[m] = 1)

MCInit ==
  /\ subject \in {"risk", "broker", "trade"}
  /\ input \in [Check -> Inputs]
  /\ Init /\ PaperInit /\ LiveInit /\ TradeInit
  /\ IF subject = "risk" THEN RiskMatters ELSE PlainRisk
  /\ subject # "broker" => PlainBroker
  /\ subject # "trade" => paper_mode

MCNext ==
  /\ UNCHANGED subject
  /\ \/ subject = "risk" /\ Next /\ UNCHANGED <<paperVars, liveVars, tradeVars>>
     \/ /\ subject = "broker" /\ UNCHANGED <<vars, tradeVars>>
        /\ \/ backend = "paper" /\ PaperNext /\ UNCHANGED liveVars
           \/ backend # "paper" /\ LiveNext /\ UNCHANGED paperVars
     \/ subject = "trade" /\ TradeNext /\ UNCHANGED <<vars, paperVars, liveVars>>

\* The callers and the requests are alike as well; the run checks no liveness.
MCSymmetry == CheckSymmetry \cup Permutations(Caller) \cup Permutations(Post)

MCSpec == MCInit /\ [][MCNext]_<<subject, vars, paperVars, liveVars, tradeVars>>

\* The variables of the risk agent, of every broker and of the trades keep
\* their types.
BrokersTypeOK == TypeOK /\ PaperTypeOK /\ LiveTypeOK /\ TradeTypeOK
===============================================================================
