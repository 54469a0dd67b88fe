--------------------------- MODULE AnalysisPolling ---------------------------
(***************************************************************************)
(* A ticker card of the dashboard (frontend/src/components/                *)
(* WatchlistPanel.tsx) waiting for the analyses it starts, against POST    *)
(* /analyze and GET /analysis/{query_id} of app/api/routes/analysis.py and *)
(* the two Redis keys they read.                                           *)
(*                                                                         *)
(* A timer sends a GET every 3 seconds without waiting for the last one,   *)
(* so a slow server has several in flight and their answers arrive in any  *)
(* order.  GET reads the result key and then the status key.               *)
(*                                                                         *)
(* How a query's run ends is Orchestrator.tla's subject; here it publishes *)
(* its result or it fails.  Time is not modelled: a key may expire any     *)
(* time after it was set.                                                  *)
(***************************************************************************)
EXTENDS Integers, FiniteSets

CONSTANTS
  Query,        \* the query_ids the card's clicks give
  Slot,         \* requests of the card that can be in flight at a time
  Faults        \* the faults of the surroundings a run explores

NoQuery == "none"

ASSUME PollingAssumption ==
  /\ NoQuery \notin Query
  /\ Faults \subseteq {"redis", "run", "broker", "ttl", "leave"}

VARIABLES
  run,          \* run[q]: what became of the orchestrator run of q
  status,       \* queries with an analysis:<query_id>:status key
  result,       \* queries with a result:<query_id> key
  post,         \* post[q]: how far the server is with the POST /analyze of q
  posting,      \* the query whose POST the card waits for, or none
  polling,      \* the React state of the card: the query it polls, or none
  request       \* request[s]: a GET in flight, and its answer

\* What the card keeps, and what the server keeps for it.
cardVars == <<posting, polling, request>>
vars == <<run, status, result, post, cardVars>>

Answer == {"none", "completed", "queued", "not_found"}
NoRequest == [at |-> "free", of |-> NoQuery, answer |-> "none"]

TypeOK ==
  /\ run \in [Query -> {"none", "running", "published", "failed"}]
  /\ status \subseteq Query
  /\ result \subseteq Query
  /\ post \in [Query -> {"none", "status", "publish", "answered", "failed"}]
  /\ posting \in Query \cup {NoQuery}
  /\ polling \in Query \cup {NoQuery}
  /\ request \in [Slot -> {NoRequest} \cup [at : {"sent", "missed", "answered"},
                                            of : Query, answer : Answer]]

Init ==
  /\ run = [q \in Query |-> "none"]
  /\ status = {}
  /\ result = {}
  /\ post = [q \in Query |-> "none"]
  /\ posting = NoQuery
  /\ polling = NoQuery
  /\ request = [s \in Slot |-> NoRequest]

-----------------------------------------------------------------------------
(***************************************************************************)
(* POST /analyze.                                                          *)
(***************************************************************************)

\* The button is enabled while nothing is posted or polled; the server draws
\* a fresh uuid4.
Click ==
  /\ posting = NoQuery
  /\ polling = NoQuery
  /\ \E q \in Query :
       /\ post[q] = "none"
       /\ post' = [post EXCEPT ![q] = "status"]
       /\ posting' = q
  /\ UNCHANGED <<run, status, result, polling, request>>

\* set_cache of the status key, which swallows a Redis error ...
SetStatus(q) ==
  /\ post[q] = "status"
  /\ post' = [post EXCEPT ![q] = "publish"]
  /\ \/ status' = status \cup {q}
     \/ "redis" \in Faults /\ UNCHANGED status
  /\ UNCHANGED <<run, result, cardVars>>

\* ... apply_async ...
PublishRun(q) ==
  /\ post[q] = "publish"
  /\ run' = [run EXCEPT ![q] = "running"]
  /\ post' = [post EXCEPT ![q] = "answered"]
  /\ UNCHANGED <<status, result, cardVars>>

\* ... or it raises, before or after the message got out, and the request ends
\* in an error.
PublishFails(q) ==
  /\ "broker" \in Faults
  /\ post[q] = "publish"
  /\ post' = [post EXCEPT ![q] = "failed"]
  /\ run' \in {run, [run EXCEPT ![q] = "running"]}
  /\ UNCHANGED <<status, result, cardVars>>

\* The answer reaches the card.  onSuccess: it polls the query_id.
Accepted ==
  /\ posting # NoQuery
  /\ \/ post[posting] = "answered" /\ polling' = posting
     \/ post[posting] = "failed" /\ UNCHANGED polling
  /\ posting' = NoQuery
  /\ UNCHANGED <<run, status, result, post, request>>

-----------------------------------------------------------------------------
(***************************************************************************)
(* GET /analysis/{query_id}.                                               *)
(***************************************************************************)

\* An operator <definition>_<change> is a mutated form of the one after it.

\* The timer of the polled query fires.
Tick_OneShot(s) ==
  /\ polling # NoQuery
  /\ run[polling] = "running"
  /\ request[s] = NoRequest
  /\ request' = [request EXCEPT ![s] = [at |-> "sent", of |-> polling, answer |-> "none"]]
  /\ UNCHANGED <<run, status, result, post, posting, polling>>
Tick(s) ==
  /\ polling # NoQuery
  /\ request[s] = NoRequest
  /\ request' = [request EXCEPT ![s] = [at |-> "sent", of |-> polling, answer |-> "none"]]
  /\ UNCHANGED <<run, status, result, post, posting, polling>>

\* get_cache answers None for a missing key and when Redis fails.
Answers(keys, q) == IF "redis" \in Faults THEN {(q \in keys), FALSE} ELSE {(q \in keys)}

\* The result key is read.
ReadResult(s) ==
  /\ request[s].at = "sent"
  /\ \E found \in Answers(result, request[s].of) :
       request' = [request EXCEPT ![s] =
                     IF found THEN [@ EXCEPT !.at = "answered", !.answer = "completed"]
                     ELSE [@ EXCEPT !.at = "missed"]]
  /\ UNCHANGED <<run, status, result, post, posting, polling>>

\* The status key is read: 202, or 404.
ReadStatus(s) ==
  /\ request[s].at = "missed"
  /\ \E found \in Answers(status, request[s].of) :
       request' = [request EXCEPT ![s] =
                     [@ EXCEPT !.at = "answered",
                               !.answer = IF found THEN "queued" ELSE "not_found"]]
  /\ UNCHANGED <<run, status, result, post, posting, polling>>

\* The answer reaches the callback: "completed" ends the polling, of whatever
\* query the card polls by then; any other answer changes nothing.
Deliver_ByAnyAnswer(s) ==
  /\ request[s].at = "answered"
  /\ request' = [request EXCEPT ![s] = NoRequest]
  /\ polling' = NoQuery
  /\ UNCHANGED <<run, status, result, post, posting>>
Deliver(s) ==
  /\ request[s].at = "answered"
  /\ request' = [request EXCEPT ![s] = NoRequest]
  /\ polling' = IF request[s].answer = "completed" THEN NoQuery ELSE polling
  /\ UNCHANGED <<run, status, result, post, posting>>

\* The page is left and opened again: a new card, which ignores old answers.
\* The server goes on with what was posted.
Leave ==
  /\ "leave" \in Faults
  /\ polling' = NoQuery
  /\ posting' = NoQuery
  /\ request' = [s \in Slot |-> NoRequest]
  /\ UNCHANGED <<run, status, result, post>>

-----------------------------------------------------------------------------
(***************************************************************************)
(* The run of a query, and the keys.                                       *)
(***************************************************************************)
RunPublishes(q) ==
  /\ run[q] = "running"
  /\ run' = [run EXCEPT ![q] = "published"]
  /\ result' = result \cup {q}
  /\ UNCHANGED <<status, post, cardVars>>

\* The run raises, or the result is not stored: no key tells.
RunFails(q) ==
  /\ "run" \in Faults
  /\ run[q] = "running"
  /\ run' = [run EXCEPT ![q] = "failed"]
  /\ UNCHANGED <<status, result, post, cardVars>>

\* Redis drops a key: the status after 2 hours, the result after 1.
KeyExpires(q) ==
  /\ "ttl" \in Faults
  /\ \/ q \in status /\ status' = status \ {q} /\ UNCHANGED result
     \/ q \in result /\ result' = result \ {q} /\ UNCHANGED status
  /\ UNCHANGED <<run, post, cardVars>>

-----------------------------------------------------------------------------
Serve(s) == ReadResult(s) \/ ReadStatus(s)
Found(s) == ReadResult(s) /\ request'[s].answer = "completed"

Next ==
  \/ Click \/ Accepted \/ Leave
  \/ \E s \in Slot : Tick(s) \/ Serve(s) \/ Deliver(s)
  \/ \E q \in Query : \/ SetStatus(q) \/ PublishRun(q) \/ PublishFails(q)
                      \/ RunPublishes(q) \/ RunFails(q) \/ KeyExpires(q)

Spec == Init /\ [][Next]_vars

\* The server answers, the browser runs the timer and its callbacks, a run ends
\* (Orchestrator!EveryQueryEnds), and Redis does not fail every read.
PollingFairness ==
  /\ \A s \in Slot : /\ WF_vars(Tick(s)) /\ WF_vars(Serve(s)) /\ WF_vars(Deliver(s))
                     /\ SF_vars(Found(s))
  /\ \A q \in Query : WF_vars(RunPublishes(q) \/ RunFails(q))

FairSpec == Spec /\ PollingFairness

-----------------------------------------------------------------------------
(***************************************************************************)
(* Properties.                                                             *)
(***************************************************************************)

\* A card stops polling a query whose run is still under way only because the
\* page is left, or because a late answer for an earlier query of the card is
\* taken for its own; no answer of its own query does it.
OnlyOldAnswersStopEarly ==
  [][polling # NoQuery /\ run[polling] = "running" /\ polling' = NoQuery
       => Leave \/ \E s \in Slot : Deliver(s) /\ request[s].of # polling]_vars

\* "Completed" is the answer of a published run alone.
AnswersAreTrue ==
  \A s \in Slot : request[s].answer = "completed" => run[request[s].of] = "published"

\* However slow the server is, in whatever order it answers and although reads
\* fail, a card stops polling a query, unless the run of the query failed or
\* its result has expired.
PollingEnds ==
  \A q \in Query :
    polling = q ~> \/ polling # q
                   \/ run[q] = "failed"
                   \/ run[q] = "published" /\ q \notin result

\* What the card is told, and what it makes of it.
PollingIsTrue == []AnswersAreTrue /\ OnlyOldAnswersStopEarly
=============================================================================
