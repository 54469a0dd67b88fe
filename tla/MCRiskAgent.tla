----------------------------- MODULE MCRiskAgent -----------------------------
(***************************************************************************)
(* Small instances of RiskAgent for TLC.                                   *)
(***************************************************************************)
EXTENDS RiskAgent, TLC

\* Checks differ only by the message they take, tickers only by name.
CheckSymmetry == Permutations(Check) \cup Permutations(Ticker)
=============================================================================
