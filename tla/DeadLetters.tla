------------------------------ MODULE DeadLetters ------------------------------
(***************************************************************************)
(* app/workers/dlq_consumer.py: the task that counts the dead letters of a *)
(* ticker and raises an alert, and the watchdog of the beat, over the      *)
(* tables agent_run_logs and alerts.  Both read rows of other sessions     *)
(* only once those have committed, and the consumer reads its own: the     *)
(* session flushes the row it added before it counts.                      *)
(*                                                                         *)
(* The attempts of the agents write a row when they end (_write_log);      *)
(* AgentRun stands for any of them.  Who calls process_dlq_message is not  *)
(* in the repository, nor who declares the exchange stock.dead_letter of   *)
(* app/celery_app.py: letters come from outside.                           *)
(***************************************************************************)
EXTENDS Integers, FiniteSets

CONSTANTS
  Letter,       \* dead letters, each with its consumer
  AgentRun,     \* attempts of agents
  LetterTicker, \* tickers of the letters
  LetterFaults  \* the faults of the surroundings a run explores

ASSUME LettersAssumption ==
  /\ IsFiniteSet(Letter)
  /\ "none" \notin LetterTicker
  /\ LetterFaults \subseteq {"db", "kill"}

VARIABLES
  letter,       \* letter[l]: its ticker, how far its consumer is, and its count
  recent,       \* letters of which a committed row lies within the last hour
  alerts,       \* the committed alerts
  attempt,      \* attempt[a]: an agent's attempt
  logged        \* logged[a]: the status of its audit row, "none" without one

attemptVars == <<attempt, logged>>
lettersVars == <<letter, recent, alerts, attempt, logged>>

NoLetter == [at |-> "none", ticker |-> "none", count |-> 0]
Repeated == [type : {"repeated_dlq_failure"}, ticker : LetterTicker,
             count : 1..(Cardinality(Letter) + 1)]
Stuck == [type : {"stuck_task"}, of : AgentRun]

LettersTypeOK ==
  /\ letter \in [Letter -> [at : {"none", "added", "counted", "stored", "lost"},
                            ticker : LetterTicker \cup {"none"}, count : 0..Cardinality(Letter)]]
  /\ recent \subseteq Letter
  /\ alerts \subseteq Repeated \cup Stuck
  /\ attempt \in [AgentRun -> {"none", "running", "stuck", "ended"}]
  /\ logged \in [AgentRun -> {"none", "started", "success", "error"}]

LettersInit ==
  /\ letter = [l \in Letter |-> NoLetter]
  /\ recent = {}
  /\ alerts = {}
  /\ attempt = [a \in AgentRun |-> "none"]
  /\ logged = [a \in AgentRun |-> "none"]

-----------------------------------------------------------------------------
(***************************************************************************)
(* process_dlq_message.                                                    *)
(***************************************************************************)

\* An operator <definition>_<change> is a mutated form of the one after it.

\* A consumer takes a letter and adds its row to the session.
Consume(l) ==
  /\ letter[l].at = "none"
  /\ \E t \in LetterTicker :
       letter' = [letter EXCEPT ![l] = [NoLetter EXCEPT !.at = "added", !.ticker = t]]
  /\ UNCHANGED <<recent, alerts, attemptVars>>

\* recent_failures: the ticker's rows that the session sees.
recent_failures_OfOthers(l) == {m \in recent : letter[m].ticker = letter[l].ticker}
recent_failures(l) == {m \in recent : letter[m].ticker = letter[l].ticker} \cup {l}

Count(l) ==
  /\ letter[l].at = "added"
  /\ letter' = [letter EXCEPT ![l].at = "counted", ![l].count = Cardinality(recent_failures(l))]
  /\ UNCHANGED <<recent, alerts, attemptVars>>

\* One commit of the row and, if one was counted, of the alert.
CommitLetter(l) ==
  /\ letter[l].at = "counted"
  /\ letter' = [letter EXCEPT ![l].at = "stored"]
  /\ recent' = recent \cup {l}
  /\ alerts' = IF letter[l].count = 0 THEN alerts
               ELSE alerts \cup {[type |-> "repeated_dlq_failure", ticker |-> letter[l].ticker,
                                  count |-> letter[l].count + 1]}
  /\ UNCHANGED attemptVars

\* The database fails: the task fails, with the row and the alert.
LetterLost(l) ==
  /\ "db" \in LetterFaults
  /\ letter[l].at \in {"added", "counted"}
  /\ letter' = [letter EXCEPT ![l].at = "lost"]
  /\ UNCHANGED <<recent, alerts, attemptVars>>

\* A row is an hour old.
HourPasses(l) ==
  /\ l \in recent
  /\ recent' = recent \ {l}
  /\ UNCHANGED <<letter, alerts, attemptVars>>

-----------------------------------------------------------------------------
(***************************************************************************)
(* The attempts and the watchdog.                                          *)
(***************************************************************************)

\* _execute notes the time and begins; nothing is written yet.
StartAttempt(a) ==
  /\ attempt[a] = "none"
  /\ attempt' = [attempt EXCEPT ![a] = "running"]
  /\ UNCHANGED <<letter, recent, alerts, logged>>

\* _write_log at its end.
EndAttempt(a) ==
  /\ attempt[a] \in {"running", "stuck"}
  /\ attempt' = [attempt EXCEPT ![a] = "ended"]
  /\ \E s \in {"success", "error"} : logged' = [logged EXCEPT ![a] = s]
  /\ UNCHANGED <<letter, recent, alerts>>

\* The attempt hangs, or its worker is gone, for longer than the threshold.
GetsStuck(a) ==
  /\ "kill" \in LetterFaults
  /\ attempt[a] = "running"
  /\ attempt' = [attempt EXCEPT ![a] = "stuck"]
  /\ UNCHANGED <<letter, recent, alerts, logged>>

\* check_orchestrator_health, every five minutes, of the rows in "started"
\* that are older than the threshold.
Watchdog ==
  /\ alerts' = alerts \cup {[type |-> "stuck_task", of |-> a] :
                  a \in {b \in AgentRun : logged[b] = "started" /\ attempt[b] = "stuck"}}
  /\ UNCHANGED <<letter, recent, attemptVars>>

LettersNext ==
  \/ \E l \in Letter : Consume(l) \/ Count(l) \/ CommitLetter(l) \/ LetterLost(l) \/ HourPasses(l)
  \/ \E a \in AgentRun : StartAttempt(a) \/ EndAttempt(a) \/ GetsStuck(a)
  \/ Watchdog

LettersSpec == LettersInit /\ [][LettersNext]_lettersVars

\* The beat runs the watchdog again and again.
LettersFairSpec == LettersSpec /\ WF_lettersVars(Watchdog)

-----------------------------------------------------------------------------
(***************************************************************************)
(* Properties.                                                             *)
(***************************************************************************)

\* Two failures of a ticker raise an alert, also when two consumers count at
\* once and neither sees the other's row.
RepeatsAlert ==
  \A l, m \in Letter :
    /\ l # m /\ letter[l].ticker = letter[m].ticker
    /\ letter[l].at = "stored" /\ letter[m].at = "stored"
    => \E a \in alerts : a.type = "repeated_dlq_failure" /\ a.ticker = letter[l].ticker

\* No alert is left of a letter whose row is not: both are of one commit.
AlertsHaveLetters ==
  \A a \in alerts :
    a.type = "repeated_dlq_failure" =>
      \E l \in Letter : letter[l].at = "stored" /\ letter[l].ticker = a.ticker

\* What an alert tells of failures.
AlertsTellFailures == RepeatsAlert /\ AlertsHaveLetters

(***************************************************************************)
(* A claim.                                                                *)
(***************************************************************************)

\* dlq_consumer.py:97 "Beat watchdog: flag agent runs stuck in 'started' for > 10
\* minutes."; PHASES.md:736 "writes an alert if found": a run that stays stuck
\* has its alert in the end.
StuckRunsAlert ==
  \A a \in AgentRun :
    (attempt[a] = "stuck")
      ~> (attempt[a] = "ended" \/ \E x \in alerts : x.type = "stuck_task" /\ x.of = a)
===============================================================================
