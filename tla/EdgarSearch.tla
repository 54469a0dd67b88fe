----------------------------- MODULE EdgarSearch -----------------------------
(***************************************************************************)
(* fetch_filings of app/tools/edgar_fetcher.py: one search per form type,  *)
(* each a request of _get_with_backoff, which asks again after a wait that *)
(* doubles.  EDGAR is external.  Nothing in the repository calls it.  The  *)
(* waits are counted in tenths of a second; what a request itself takes is *)
(* left out.                                                               *)
(***************************************************************************)
EXTENDS Integers

CONSTANTS
  Forms,          \* number of form types asked for
  EdgarRetries,   \* max_retries of _get_with_backoff
  MaxFilings,     \* max_results
  EdgarFaults     \* the faults of the surroundings a run explores

ASSUME EdgarAssumption ==
  /\ Forms \in Nat /\ EdgarRetries \in Nat /\ MaxFilings \in Nat \ {0}
  /\ EdgarFaults \subseteq {"429", "status", "network", "shape"}

VARIABLES
  search,       \* the step, the form type asked for, and the request's attempt
  delay,        \* the wait before the next attempt, and what was waited in all
  results       \* number of filings in results

edgarVars == <<search, delay, results>>

EdgarTypeOK ==
  /\ search \in [at : {"ask", "wait", "next", "done", "raised"}, form : 0..Forms, attempt : 0..EdgarRetries]
  /\ delay \in [next : Nat, waited : Nat]
  /\ results \in Nat

\* Tenths of a second: delay = 1.0, and the pause after each form type.
Second == 10
Pause == 1

EdgarInit ==
  /\ search = [at |-> "next", form |-> 0, attempt |-> 0]
  /\ delay = [next |-> Second, waited |-> 0]
  /\ results = 0

\* An operator <definition>_<change> is a mutated form of the one after it.

\* The loop over the form types.
NextForm ==
  /\ search.at = "next"
  /\ search' = IF results >= MaxFilings \/ search.form = Forms THEN [search EXCEPT !.at = "done"]
               ELSE [at |-> "ask", form |-> search.form + 1, attempt |-> 0]
  /\ delay' = [delay EXCEPT !.next = Second]
  /\ UNCHANGED results

Pauses == delay' = [delay EXCEPT !.waited = @ + Pause]

\* The hits of an answer that have an accession number: of the first
\* max_results, as many as the results lack.
Answered_All ==
  /\ search.at = "ask"
  /\ \E hits \in 0..MaxFilings : results' = results + hits
  /\ search' = [search EXCEPT !.at = "next"]
  /\ Pauses
Answered ==
  /\ search.at = "ask"
  /\ \E hits \in 0..MaxFilings :
       results' = IF results + hits > MaxFilings THEN MaxFilings ELSE results + hits
  /\ search' = [search EXCEPT !.at = "next"]
  /\ Pauses

\* JSON of another shape raises, beyond the try, and ends the whole search.
Malformed ==
  /\ search.at = "ask" /\ "shape" \in EdgarFaults
  /\ search' = [search EXCEPT !.at = "raised"]
  /\ UNCHANGED <<delay, results>>

\* The search is logged as failed and, after a pause, the loop goes on.
SkipForm_Ends == search' = [search EXCEPT !.at = "done"] /\ Pauses
SkipForm == search' = [search EXCEPT !.at = "next"] /\ Pauses

\* 429 or a transport error: another attempt, or none is left.
TurnedAway ==
  /\ search.at = "ask" /\ EdgarFaults \cap {"429", "network"} # {}
  /\ IF search.attempt = EdgarRetries THEN SkipForm
     ELSE search' = [search EXCEPT !.at = "wait"] /\ UNCHANGED delay
  /\ UNCHANGED results

\* Any other status is raised at once, and so is an answer that is no JSON.
BadStatus ==
  /\ search.at = "ask" /\ "status" \in EdgarFaults
  /\ SkipForm
  /\ UNCHANGED results

Waited ==
  /\ search.at = "wait"
  /\ delay' = [next |-> 2 * delay.next, waited |-> delay.waited + delay.next]
  /\ search' = [search EXCEPT !.at = "ask", !.attempt = @ + 1]
  /\ UNCHANGED results

EdgarNext == NextForm \/ Answered \/ Malformed \/ TurnedAway \/ BadStatus \/ Waited

EdgarSpec == EdgarInit /\ [][EdgarNext]_edgarVars

-----------------------------------------------------------------------------
(***************************************************************************)
(* Properties.                                                             *)
(***************************************************************************)

\* The powers of two.
Doubled[n \in 0..EdgarRetries] == IF n = 0 THEN 1 ELSE 2 * Doubled[n - 1]

\* The waits of a form type are the doublings before its last attempt, and a
\* pause: 7.1 seconds over the four attempts of the code.
PerForm == Second * (Doubled[EdgarRetries] - 1) + Pause
WaitsAreBounded == delay.waited <= search.form * PerForm

\* A form type that fails takes nothing from the others: at the end the results
\* are full or each form type was answered or given up, and never more than
\* asked for.  (JSON of another shape takes them all.)
FormsAreIndependent ==
  /\ results <= MaxFilings
  /\ search.at = "done" => results = MaxFilings \/ search.form = Forms

\* What a failing EDGAR costs a search.
SearchIsBounded == WaitsAreBounded /\ FormsAreIndependent
===============================================================================
