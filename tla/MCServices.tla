------------------------------ MODULE MCServices ------------------------------
(***************************************************************************)
(* The services beside the pipeline, for TLC, and the card of the dashboard *)
(* that waits for it; and the jobs of the execution agent that overlap, for *)
(* which alone the agent owes something in the end.  They share no state    *)
(* with one another here, and a behaviour is one of one of them while the   *)
(* others stay as they began.                                               *)
(***************************************************************************)
EXTENDS AnalysisPolling, Portfolio, AngelSession, Watchlist, TaxYear, DeadLetters

CONSTANT Job

VARIABLES subject, jobs, orderStatus, tradeRow, orphaned

Subjects == {"portfolio", "session", "watchlist", "tax", "letters", "polling", "execution"}

\* An instance of the execution agent: no crash and one submission an attempt,
\* for what those lose (MCExecutionAgent) is owed no row.
Execution ==
  INSTANCE ExecutionAgent WITH
    MaxRetries <- 1, MaxCrashes <- 0, MaxSends <- 1, MaxPolls <- 1, Terminal <- {"filled"},
    BrokerConfigured <- TRUE, OrderColumn <- TRUE, Faults <- {"lost", "poll", "db", "overlap"},
    job <- jobs, status <- orderStatus, row <- tradeRow, orphaned <- orphaned
executionVars == <<jobs, orderStatus, tradeRow, orphaned>>

\* All but the subject's own variables stay.
Stays(s, v) == IF subject = s THEN TRUE ELSE UNCHANGED v
OthersStay ==
  /\ Stays("portfolio", portfolioVars)
  /\ Stays("session", sessionVars)
  /\ Stays("watchlist", watchVars)
  /\ Stays("tax", taxVars)
  /\ Stays("letters", lettersVars)
  /\ Stays("polling", vars)
  /\ Stays("execution", executionVars)

\* The watchlist begins with one row, which may become active, and matters only
\* in its behaviours.
MCInit ==
  /\ subject \in Subjects
  /\ PortfolioInit /\ SessionInit /\ WatchInit /\ TaxInit /\ LettersInit
  /\ Init /\ Execution!Init
  /\ \A t \in Ticker :
       row[t] = IF subject = "watchlist" /\ t = CHOOSE u \in Ticker : TRUE THEN "inactive"
                ELSE "none"

MCNext ==
  /\ UNCHANGED subject
  /\ \/ subject = "portfolio" /\ PortfolioNext
     \/ subject = "session" /\ SessionNext
     \/ subject = "watchlist" /\ WatchNext
     \/ subject = "tax" /\ TaxNext
     \/ subject = "letters" /\ LettersNext
     \/ subject = "polling" /\ Next
     \/ subject = "execution" /\ Execution!Next
  /\ OthersStay

MCSpec ==
  MCInit /\ [][MCNext]_<<subject, vars, portfolioVars, sessionVars, watchVars, taxVars,
                     lettersVars, executionVars>>

\* ExecutionAgent!ExecutionFairness, of the behaviours in which a job is taken.
ExecutionFairness ==
  \A j \in Job :
    WF_executionVars(subject = "execution" /\ (Execution!Take(j) \/ Execution!Step(j)))

MCFairSpec == MCSpec /\ PollingFairness /\ SessionFairness /\ ExecutionFairness

\* The variables of every service keep their types.
ServicesTypeOK ==
  /\ TypeOK /\ PortfolioTypeOK /\ SessionTypeOK /\ WatchTypeOK
  /\ TaxTypeOK /\ LettersTypeOK

\* An order that overlapping jobs placed has its row in the end.
PlacedGetsRecorded == Execution!PlacedGetsRecorded
===============================================================================
