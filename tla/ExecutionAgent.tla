---------------------------- MODULE ExecutionAgent ----------------------------
(***************************************************************************)
(* The execution agent of app/agents/execution_agent.py placing the order  *)
(* of one query through app/tools/alpaca_client.py.                        *)
(*                                                                         *)
(*   lookup --> place --> poll --> upsert --> return                       *)
(*                                                                         *)
(* A job is one delivery of the query's execution message: a redelivered   *)
(* orchestrator run dispatches a second message, and a worker that lost    *)
(* its broker connection works on while its message is delivered again.    *)
(* Every job runs up to 1 + MaxRetries attempts.  The lookup of the trades *)
(* table is what keeps jobs and attempts from placing a second order.      *)
(*                                                                         *)
(* The price, the limit and the bracket legs of an order are left out; an  *)
(* order is named by the job, the attempt and the submission that made it. *)
(***************************************************************************)
EXTENDS Integers

CONSTANTS
  Job,                \* deliveries of the execution message of one query
  MaxRetries,         \* max_retries of the task (3 in the code)
  MaxCrashes,         \* bound on the crashes of a job
  MaxSends,           \* stop_after_attempt of place_order (3 in the code)
  MaxPolls,           \* _POLL_ATTEMPTS (5 in the code)
  Terminal,           \* the statuses considered at which an order stays
  BrokerConfigured,   \* Settings has the keys _make_client reads
  OrderColumn,        \* Trade has the column alpaca_order_id
  Faults              \* the faults of the surroundings a run explores

ASSUME ExecutionAssumption ==
  /\ MaxRetries \in Nat
  /\ MaxCrashes \in Nat
  /\ MaxSends \in Nat \ {0}
  /\ MaxPolls \in Nat \ {0}
  /\ Terminal # {}
  /\ Terminal \subseteq {"filled", "canceled", "expired", "rejected"}
  /\ BrokerConfigured \in BOOLEAN
  /\ OrderColumn \in BOOLEAN
  /\ Faults \subseteq {"reject", "lost", "poll", "db", "crash", "overlap"}

Attempt == 0..(MaxRetries + MaxCrashes)
Order == Job \X Attempt \X (1..MaxSends)
NoOrder == <<>>

Seen == {"unknown", "open"} \cup Terminal

VARIABLES
  job,        \* job[j]: the progress of job j
  status,     \* status[o]: the order at the broker, "none" if never accepted
  row,        \* row[o]: its status in the trades table, "none" without a row
  orphaned    \* history: orders an attempt lost sight of, and by what mishap

vars == <<job, status, row, orphaned>>

Stage == {"queued", "lookup", "place", "poll", "upsert", "return", "success", "failure"}
JobState == [at : Stage, tries : 0..MaxRetries, attempt : Attempt,
             sends : 0..MaxSends, polls : 0..MaxPolls,
             order : Order \cup {NoOrder}, seen : Seen]
NewJob == [at |-> "queued", tries |-> 0, attempt |-> 0, sends |-> 0, polls |-> 0,
           order |-> NoOrder, seen |-> "unknown"]

TypeOK ==
  /\ job \in [Job -> JobState]
  /\ status \in [Order -> {"none", "open"} \cup Terminal]
  /\ row \in [Order -> {"none"} \cup Seen]
  /\ orphaned \subseteq Order

Init ==
  /\ job = [j \in Job |-> NewJob]
  /\ status = [o \in Order |-> "none"]
  /\ row = [o \in Order |-> "none"]
  /\ orphaned = {}

Placed == {o \in Order : status[o] # "none"}
Recorded == {o \in Order : row[o] # "none"}
Active(j) == job[j].at \in {"lookup", "place", "poll", "upsert", "return"}
InHand(j) == IF job[j].at \in {"poll", "upsert"} THEN {job[j].order} ELSE {}

\* The order that the next submission of job j would make.
NextOrder(j) == <<j, job[j].attempt, job[j].sends + 1>>

-----------------------------------------------------------------------------
\* A definition named <definition>_<change> is a mutated form of the one after
\* it, which no specification uses.

\* Job j goes on with the fields given.
Goes(j, new) == job' = [job EXCEPT ![j] = new]

\* The message waits for attempt a, after t retries; nothing else is kept.
Afresh(t, a) == [NewJob EXCEPT !.tries = t, !.attempt = a]

\* The attempt raises: self.retry(countdown=10) queues another one, with
\* nothing of this one kept, unless max_retries is reached.
Raises(j) ==
  Goes(j, IF job[j].tries < MaxRetries
          THEN Afresh(job[j].tries + 1, job[j].attempt + 1)
          ELSE [job[j] EXCEPT !.at = "failure"])

\* A worker takes the message; without overlap one at a time.
Take(j) ==
  /\ job[j].at = "queued"
  /\ "overlap" \in Faults \/ \A k \in Job : ~Active(k)
  /\ Goes(j, [job[j] EXCEPT !.at = "lookup"])
  /\ UNCHANGED <<status, row, orphaned>>

\* _get_existing_trade finds no row of the query, or ...
LookupMisses_Always(j) ==
  /\ job[j].at = "lookup"
  /\ Goes(j, [job[j] EXCEPT !.at = "place"])
  /\ UNCHANGED <<status, row, orphaned>>
LookupMisses(j) ==
  /\ job[j].at = "lookup"
  /\ Recorded = {}
  /\ Goes(j, [job[j] EXCEPT !.at = "place"])
  /\ UNCHANGED <<status, row, orphaned>>

\* ... exactly one, whose order is returned, or ...
LookupHits(j) ==
  /\ job[j].at = "lookup"
  /\ OrderColumn
  /\ \E o \in Recorded :
       /\ Recorded = {o}
       /\ Goes(j, [job[j] EXCEPT !.at = "return", !.order = o, !.seen = row[o]])
  /\ UNCHANGED <<status, row, orphaned>>

\* ... more than one (scalar_one_or_none raises), or a database error.
LookupRaises(j) ==
  /\ job[j].at = "lookup"
  /\ \/ "db" \in Faults
     \/ \E o, p \in Recorded : o # p
     \/ Recorded # {} /\ ~OrderColumn
  /\ Raises(j)
  /\ UNCHANGED <<status, row, orphaned>>

\* submit_order is accepted and answered.
Submit(j) ==
  /\ job[j].at = "place"
  /\ BrokerConfigured
  /\ LET o == NextOrder(j) IN
       /\ status' = [status EXCEPT ![o] = "open"]
       /\ Goes(j, [job[j] EXCEPT !.at = "poll", !.order = o, !.seen = "unknown",
                                 !.sends = @ + 1])
  /\ UNCHANGED <<row, orphaned>>

\* A 5xx answer is retried by tenacity until MaxSends, any other error raises.
SubmitErrs(j) ==
  \/ /\ job[j].sends + 1 < MaxSends
     /\ Goes(j, [job[j] EXCEPT !.sends = @ + 1])
  \/ Raises(j)

\* submit_order fails and no order exists.
SubmitRejected(j) ==
  /\ job[j].at = "place"
  /\ \/ BrokerConfigured /\ "reject" \in Faults /\ SubmitErrs(j)
     \/ ~BrokerConfigured /\ Raises(j)
  /\ UNCHANGED <<status, row, orphaned>>

\* The order is accepted but its answer is lost or is a 5xx.
SubmitLost(j) ==
  /\ "lost" \in Faults
  /\ job[j].at = "place"
  /\ BrokerConfigured
  /\ LET o == NextOrder(j) IN
       /\ status' = [status EXCEPT ![o] = "open"]
       /\ orphaned' = orphaned \cup {o}
  /\ SubmitErrs(j)
  /\ UNCHANGED row

\* One round of _poll_order: a status is read, or the read fails; the loop
\* ends at a terminal status or after MaxPolls rounds.
PollsOn(j, seen) ==
  LET n == job[j].polls + 1 IN
  Goes(j, [job[j] EXCEPT !.polls = n, !.seen = seen,
             !.at = IF seen \in Terminal \/ n = MaxPolls THEN "upsert" ELSE "poll"])
Poll(j) ==
  /\ job[j].at = "poll"
  /\ PollsOn(j, status[job[j].order])
  /\ UNCHANGED <<status, row, orphaned>>
PollFails_Raises(j) ==
  /\ "poll" \in Faults
  /\ job[j].at = "poll"
  /\ Raises(j)
  /\ UNCHANGED <<status, row, orphaned>>
PollFails(j) ==
  /\ "poll" \in Faults
  /\ job[j].at = "poll"
  /\ PollsOn(j, job[j].seen)
  /\ UNCHANGED <<status, row, orphaned>>

\* _upsert_trade commits the row of the order.
Upsert_SkipsUnknown(j) ==
  /\ job[j].at = "upsert"
  /\ OrderColumn
  /\ row' = IF job[j].seen = "unknown" THEN row
            ELSE [row EXCEPT ![job[j].order] = job[j].seen]
  /\ Goes(j, [job[j] EXCEPT !.at = "return"])
  /\ UNCHANGED <<status, orphaned>>
Upsert_AssumesFilled(j) ==
  /\ job[j].at = "upsert"
  /\ OrderColumn
  /\ row' = [row EXCEPT ![job[j].order] = "filled"]
  /\ Goes(j, [job[j] EXCEPT !.at = "return"])
  /\ UNCHANGED <<status, orphaned>>
Upsert(j) ==
  /\ job[j].at = "upsert"
  /\ OrderColumn
  /\ row' = [row EXCEPT ![job[j].order] = job[j].seen]
  /\ Goes(j, [job[j] EXCEPT !.at = "return"])
  /\ UNCHANGED <<status, orphaned>>

\* It raises: the commit failed, or it went through and its answer was lost.
UpsertRaises(j) ==
  /\ job[j].at = "upsert"
  /\ \/ ~OrderColumn /\ UNCHANGED row
     \/ /\ OrderColumn /\ "db" \in Faults
        /\ row' \in {row, [row EXCEPT ![job[j].order] = job[j].seen]}
  /\ orphaned' = orphaned \cup {job[j].order}
  /\ Raises(j)
  /\ UNCHANGED status

\* The audit log swallows its errors; the task's result is stored, then acked.
Return(j) ==
  /\ job[j].at = "return"
  /\ Goes(j, [job[j] EXCEPT !.at = "success"])
  /\ UNCHANGED <<status, row, orphaned>>

\* The worker is lost and the unacked message is delivered again.
Crash(j) ==
  /\ "crash" \in Faults
  /\ Active(j)
  /\ job[j].attempt - job[j].tries < MaxCrashes
  /\ orphaned' = orphaned \cup InHand(j)
  /\ Goes(j, Afresh(job[j].tries, job[j].attempt + 1))
  /\ UNCHANGED <<status, row>>

\* The broker fills, cancels, expires or rejects an open order.
Settle(o) ==
  /\ status[o] = "open"
  /\ \E s \in Terminal : status' = [status EXCEPT ![o] = s]
  /\ UNCHANGED <<job, row, orphaned>>

-----------------------------------------------------------------------------
Step(j) ==
  \/ LookupMisses(j) \/ LookupHits(j) \/ LookupRaises(j)
  \/ Submit(j) \/ SubmitRejected(j) \/ SubmitLost(j)
  \/ Poll(j) \/ PollFails(j)
  \/ Upsert(j) \/ UpsertRaises(j) \/ Return(j)

Next ==
  \/ \E j \in Job : Take(j) \/ Step(j) \/ Crash(j)
  \/ \E o \in Order : Settle(o)

Spec == Init /\ [][Next]_vars

\* The attempt's HTTP and database calls answer or raise, and a free worker
\* takes a queued message.  The broker need not settle an order.
ExecutionFairness == \A j \in Job : WF_vars(Take(j) \/ Step(j))
FairSpec == Spec /\ ExecutionFairness

-----------------------------------------------------------------------------
(***************************************************************************)
(* Properties.                                                             *)
(***************************************************************************)

\* An order the agent neither recorded nor holds was lost sight of by one of
\* three mishaps: a lost answer of submit_order, a failed commit, a crash.
\* Failed polls, retries and rejections never lose an order.
UnrecordedIsExplained ==
  \A o \in Placed :
    o \in Recorded \cup orphaned \cup UNION {InHand(j) : j \in Job}

\* When executions do not overlap, the lookup prevents every second order but
\* those that follow a mishap: at most one order was not lost sight of.
DuplicatesAreMishaps ==
  "overlap" \notin Faults =>
    \A o, p \in Placed \ orphaned : o = p

\* A row belongs to an order the broker accepted, and a terminal status in it
\* is the one the order has.
RecordsAreTrue ==
  \A o \in Recorded :
    /\ o \in Placed
    /\ row[o] \in Terminal => row[o] = status[o]

\* What a successful task returns is an order of the query with a row.
SuccessIsRecorded ==
  \A j \in Job : job[j].at = "success" => job[j].order \in Placed \cap Recorded

\* Every order gets its row in the end, although polls fail, executions overlap
\* and attempts are repeated, unless it was lost sight of by a mishap: again and
\* again no order is without either, and neither is ever taken back.
PlacedGetsRecorded == []<>(Placed \subseteq Recorded \cup orphaned)

(***************************************************************************)
(* Claims.                                                                 *)
(***************************************************************************)

\* execution_agent.py:149 "Idempotency: return existing order if one was
\* already placed for this query_id"; SYSTEM_DESIGN.md:682 "exactly 1 replica
\* per environment to avoid duplicate orders".
OneOrderPerQuery == \A o, p \in Placed : o = p

\* PHASES.md:413 "Upsert result into trades table": an undisturbed execution
\* places its order and records it.
UndisturbedSucceeds ==
  Faults = {} => \A j \in Job : job[j].at # "failure"
=============================================================================
