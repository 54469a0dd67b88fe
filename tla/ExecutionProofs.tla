--------------------------- MODULE ExecutionProofs ---------------------------
(***************************************************************************)
(* Proofs about ExecutionAgent for any number of jobs, retries, crashes,   *)
(* submissions and polls, and every set of faults.                         *)
(***************************************************************************)
EXTENDS ExecutionAgent, TLAPS

(***************************************************************************)
(* The inductive invariant.                                                *)
(***************************************************************************)

\* The counters of a job stay below the bounds at which an attempt ends.
Counters(j) ==
  /\ job[j].tries <= job[j].attempt
  /\ job[j].attempt <= job[j].tries + MaxCrashes
  /\ job[j].at \in {"queued", "lookup", "place"} => job[j].sends < MaxSends
  /\ job[j].at \in {"queued", "lookup", "place", "poll"} => job[j].polls < MaxPolls

\* No order is ahead of its job: what a live job submits next is a new order.
Behind ==
  \A o \in Placed :
    /\ o[2] <= job[o[1]].attempt
    /\ o[2] = job[o[1]].attempt =>
         o[3] <= job[o[1]].sends \/ job[o[1]].at = "failure"

\* What a job knows of the order in its hands.
Knowledge(j) ==
  /\ job[j].at \in {"poll", "upsert"} =>
       /\ job[j].order \in Placed
       /\ job[j].seen \in Terminal => job[j].seen = status[job[j].order]
  /\ job[j].at \in {"return", "success"} => job[j].order \in Placed \cap Recorded

\* Without overlap one job is active, and while it is between its lookup and
\* its upsert the query has no row.
Exclusive ==
  "overlap" \notin Faults =>
    /\ \A j, k \in Job : Active(j) /\ Active(k) => j = k
    /\ \A j \in Job :
         job[j].at \in {"place", "poll", "upsert"} => Recorded = {}

IInv ==
  /\ TypeOK
  /\ \A j \in Job : Counters(j) /\ Knowledge(j)
  /\ Behind
  /\ Exclusive
  /\ UnrecordedIsExplained
  /\ DuplicatesAreMishaps
  /\ RecordsAreTrue

-----------------------------------------------------------------------------
(***************************************************************************)
(* How a job moves.                                                        *)
(***************************************************************************)

\* The job after a move, and all the others.
LEMMA GoesSets ==
  ASSUME TypeOK, NEW j \in Job, NEW new \in JobState, Goes(j, new)
  PROVE  /\ job' \in [Job -> JobState]
         /\ job'[j] = new
         /\ \A k \in Job : k # j => job'[k] = job[k]
BY DEF TypeOK, Goes

\* A job that starts afresh is well typed.
LEMMA AfreshType ==
  ASSUME NEW t \in 0..MaxRetries, NEW a \in Attempt
  PROVE  /\ Afresh(t, a) \in JobState
         /\ Afresh(t, a).at = "queued"
         /\ Afresh(t, a).tries = t /\ Afresh(t, a).attempt = a
         /\ Afresh(t, a).sends = 0 /\ Afresh(t, a).polls = 0
<1>1. NewJob \in JobState
  <2>1. 0 \in 0..MaxRetries /\ 0 \in Attempt /\ 0 \in 0..MaxSends /\ 0 \in 0..MaxPolls
    BY ExecutionAssumption DEF Attempt
  <2>2. QED
    BY <2>1 DEF NewJob, JobState, Stage, Seen
<1>2. NewJob.at = "queued" /\ NewJob.sends = 0 /\ NewJob.polls = 0
  BY DEF NewJob
<1>3. QED
  BY <1>1, <1>2 DEF Afresh, JobState

\* A raising attempt ends the job or queues the next attempt.
LEMMA RaisesShape ==
  ASSUME TypeOK, NEW j \in Job, Counters(j), Raises(j)
  PROVE  /\ job' \in [Job -> JobState]
         /\ \A k \in Job : k # j => job'[k] = job[k]
         /\ Counters(j)'
         /\ \/ /\ job'[j].at = "failure"
               /\ job'[j].attempt = job[j].attempt
            \/ /\ job'[j].at = "queued"
               /\ job'[j].attempt = job[j].attempt + 1
<1>1. job[j] \in JobState /\ job[j].tries \in 0..MaxRetries /\ job[j].attempt \in Attempt
  BY DEF TypeOK, JobState
<1>2. CASE job[j].tries < MaxRetries
  <2> DEFINE new == Afresh(job[j].tries + 1, job[j].attempt + 1)
  <2>1. job[j].tries + 1 \in 0..MaxRetries /\ job[j].attempt + 1 \in Attempt
    BY <1>1, <1>2, ExecutionAssumption DEF Counters, Attempt
  <2>2. /\ new \in JobState
        /\ new.at = "queued" /\ new.tries = job[j].tries + 1
        /\ new.attempt = job[j].attempt + 1
        /\ new.sends = 0 /\ new.polls = 0
    BY <2>1, AfreshType
  <2>3. Goes(j, new)
    BY <1>2 DEF Raises
  <2> HIDE DEF new
  <2>4. /\ job' \in [Job -> JobState]
        /\ job'[j] = new
        /\ \A k \in Job : k # j => job'[k] = job[k]
    BY <2>2, <2>3, GoesSets
  <2>5. Counters(j)'
    BY <1>1, <2>2, <2>4, ExecutionAssumption DEF Counters, Attempt
  <2>6. QED
    BY <2>2, <2>4, <2>5
<1>3. CASE ~(job[j].tries < MaxRetries)
  <2> DEFINE new == [job[j] EXCEPT !.at = "failure"]
  <2>1. /\ new \in JobState
        /\ new.at = "failure" /\ new.tries = job[j].tries
        /\ new.attempt = job[j].attempt
    BY <1>1 DEF JobState, Stage
  <2>2. Goes(j, new)
    BY <1>3 DEF Raises
  <2> HIDE DEF new
  <2>3. /\ job' \in [Job -> JobState]
        /\ job'[j] = new
        /\ \A k \in Job : k # j => job'[k] = job[k]
    BY <2>1, <2>2, GoesSets
  <2>4. Counters(j)'
    BY <2>1, <2>3 DEF Counters
  <2>5. QED
    BY <2>1, <2>3, <2>4
<1>4. QED
  BY <1>2, <1>3

\* An erring submission is repeated by tenacity or raises.
LEMMA SubmitErrsShape ==
  ASSUME TypeOK, NEW j \in Job, Counters(j), job[j].at = "place", SubmitErrs(j)
  PROVE  /\ job' \in [Job -> JobState]
         /\ \A k \in Job : k # j => job'[k] = job[k]
         /\ Counters(j)'
         /\ \/ /\ job'[j].at = "failure"
               /\ job'[j].attempt = job[j].attempt
            \/ /\ job'[j].at = "queued"
               /\ job'[j].attempt = job[j].attempt + 1
            \/ /\ job'[j].at = "place"
               /\ job'[j].attempt = job[j].attempt
               /\ job'[j].sends = job[j].sends + 1
<1>1. CASE Raises(j)
  BY <1>1, RaisesShape
<1>2. CASE ~Raises(j)
  <2> DEFINE new == [job[j] EXCEPT !.sends = job[j].sends + 1]
  <2>1. /\ job[j].sends + 1 < MaxSends
        /\ Goes(j, new)
    BY <1>2 DEF SubmitErrs
  <2>2. job[j] \in JobState /\ job[j].sends \in 0..MaxSends
    BY DEF TypeOK, JobState
  <2>3. job[j].sends + 1 \in 0..MaxSends
    BY <2>1, <2>2, ExecutionAssumption
  <2>4. /\ new \in JobState
        /\ new.at = "place" /\ new.tries = job[j].tries
        /\ new.attempt = job[j].attempt /\ new.sends = job[j].sends + 1
        /\ new.polls = job[j].polls
    BY <2>2, <2>3 DEF JobState
  <2> HIDE DEF new
  <2>5. /\ job' \in [Job -> JobState]
        /\ job'[j] = new
        /\ \A k \in Job : k # j => job'[k] = job[k]
    BY <2>1, <2>4, GoesSets
  <2>6. Counters(j)'
    BY <2>1, <2>4, <2>5 DEF Counters
  <2>7. QED
    BY <2>4, <2>5, <2>6
<1>3. QED
  BY <1>1, <1>2

\* A poll reads on or hands over to the upsert.
LEMMA PollShape ==
  ASSUME TypeOK, NEW j \in Job, Counters(j), job[j].at = "poll",
         NEW seen \in Seen, PollsOn(j, seen)
  PROVE  /\ job' \in [Job -> JobState]
         /\ \A k \in Job : k # j => job'[k] = job[k]
         /\ Counters(j)'
         /\ job'[j].at \in {"poll", "upsert"}
         /\ job'[j].attempt = job[j].attempt
         /\ job'[j].sends = job[j].sends
         /\ job'[j].order = job[j].order
         /\ job'[j].seen = seen
<1> DEFINE n == job[j].polls + 1
           new == [job[j] EXCEPT !.polls = n, !.seen = seen,
                     !.at = IF seen \in Terminal \/ n = MaxPolls
                            THEN "upsert" ELSE "poll"]
<1>1. job[j] \in JobState /\ job[j].polls \in 0..MaxPolls /\ job[j].polls < MaxPolls
  BY DEF TypeOK, JobState, Counters
<1>2. n \in 0..MaxPolls
  BY <1>1, ExecutionAssumption
<1>3. /\ new \in JobState
      /\ new.at \in {"poll", "upsert"}
      /\ new.at = "poll" => n # MaxPolls
      /\ new.tries = job[j].tries /\ new.attempt = job[j].attempt
      /\ new.sends = job[j].sends /\ new.polls = n
      /\ new.order = job[j].order /\ new.seen = seen
  BY <1>1, <1>2 DEF JobState, Stage
<1>4. Goes(j, new)
  BY DEF PollsOn
<1> HIDE DEF new
<1>5. /\ job' \in [Job -> JobState]
      /\ job'[j] = new
      /\ \A k \in Job : k # j => job'[k] = job[k]
  BY <1>3, <1>4, GoesSets
<1>6. Counters(j)'
  BY <1>1, <1>2, <1>3, <1>5, ExecutionAssumption DEF Counters
<1>7. QED
  BY <1>3, <1>5, <1>6

-----------------------------------------------------------------------------
(***************************************************************************)
(* Moves that touch neither the broker nor the table.                      *)
(***************************************************************************)

\* What every move keeps that places nothing and starts no later attempt than
\* the one its job is in.
LEMMA BehindKept ==
  ASSUME IInv, NEW j \in Job, Placed' = Placed,
         job' \in [Job -> JobState],
         \A k \in Job : k # j => job'[k] = job[k],
         \/ job[j].attempt < job'[j].attempt
         \/ /\ job[j].attempt = job'[j].attempt
            /\ job[j].at # "failure"
            /\ job[j].sends <= job'[j].sends \/ job'[j].at = "failure"
  PROVE  Behind'
<1>1. /\ job[j].attempt \in Nat /\ job[j].sends \in Nat
      /\ job'[j].attempt \in Nat /\ job'[j].sends \in Nat
  BY ExecutionAssumption DEF IInv, TypeOK, JobState, Attempt
<1>2. ASSUME NEW o \in Placed
      PROVE  /\ o[2] <= job'[o[1]].attempt
             /\ o[2] = job'[o[1]].attempt =>
                  o[3] <= job'[o[1]].sends \/ job'[o[1]].at = "failure"
  <2>1. o[1] \in Job /\ o[2] \in Nat /\ o[3] \in Nat
    BY ExecutionAssumption DEF Placed, Order, Attempt
  <2>2. /\ o[2] <= job[o[1]].attempt
        /\ o[2] = job[o[1]].attempt =>
             o[3] <= job[o[1]].sends \/ job[o[1]].at = "failure"
    BY DEF IInv, Behind
  <2>3. CASE o[1] = j
    BY <1>1, <2>1, <2>2, <2>3
  <2>4. CASE o[1] # j
    BY <2>1, <2>2, <2>4
  <2>5. QED
    BY <2>3, <2>4
<1>3. QED
  BY <1>2 DEF Behind

\* What such a move must respect for the invariant to survive it.
LEMMA QuietPreserves ==
  ASSUME IInv, NEW j \in Job, UNCHANGED <<status, row, orphaned>>,
         job' \in [Job -> JobState],
         \A k \in Job : k # j => job'[k] = job[k],
         Counters(j)', Knowledge(j)',
         \/ job[j].attempt < job'[j].attempt
         \/ /\ job[j].attempt = job'[j].attempt
            /\ job[j].at # "failure"
            /\ job[j].sends <= job'[j].sends \/ job'[j].at = "failure",
         InHand(j) \subseteq InHand(j)',
         \/ Active(j)' => Active(j)
         \/ "overlap" \in Faults
         \/ \A k \in Job : ~Active(k),
         job'[j].at \in {"place", "poll", "upsert"} =>
           job[j].at \in {"place", "poll", "upsert"} \/ Recorded = {}
  PROVE  IInv'
<1>1. Placed' = Placed /\ Recorded' = Recorded
  BY DEF Placed, Recorded
<1>2. TypeOK'
  BY DEF IInv, TypeOK
<1>3. \A k \in Job : Counters(k)' /\ Knowledge(k)'
  BY <1>1 DEF IInv, Counters, Knowledge
<1>4. Behind'
  BY <1>1, BehindKept
<1>5. Exclusive'
  BY <1>1 DEF IInv, Exclusive, Active
<1>6. UnrecordedIsExplained'
  <2>1. \A k \in Job : InHand(k) \subseteq InHand(k)'
    BY DEF InHand
  <2>2. QED
    BY <1>1, <2>1 DEF IInv, UnrecordedIsExplained
<1>7. DuplicatesAreMishaps' /\ RecordsAreTrue'
  BY <1>1 DEF IInv, DuplicatesAreMishaps, RecordsAreTrue
<1>8. QED
  BY <1>2, <1>3, <1>4, <1>5, <1>6, <1>7 DEF IInv

\* A job that only moves on to another stage.
LEMMA StageShape ==
  ASSUME TypeOK, NEW j \in Job, NEW at \in Stage,
         Goes(j, [job[j] EXCEPT !.at = at])
  PROVE  /\ job' \in [Job -> JobState]
         /\ \A k \in Job : k # j => job'[k] = job[k]
         /\ job'[j] = [job[j] EXCEPT !.at = at]
         /\ job'[j].at = at
         /\ job'[j].tries = job[j].tries /\ job'[j].attempt = job[j].attempt
         /\ job'[j].sends = job[j].sends /\ job'[j].polls = job[j].polls
         /\ job'[j].order = job[j].order /\ job'[j].seen = job[j].seen
<1> DEFINE new == [job[j] EXCEPT !.at = at]
<1>1. /\ new \in JobState
      /\ new.at = at
      /\ new.tries = job[j].tries /\ new.attempt = job[j].attempt
      /\ new.sends = job[j].sends /\ new.polls = job[j].polls
      /\ new.order = job[j].order /\ new.seen = job[j].seen
  BY DEF TypeOK, JobState
<1>2. /\ job' \in [Job -> JobState]
      /\ job'[j] = new
      /\ \A k \in Job : k # j => job'[k] = job[k]
  BY <1>1, GoesSets
<1>3. QED
  BY <1>1, <1>2

\* Taking a message, missing a row, returning.
LEMMA WalkPreserves ==
  ASSUME IInv, NEW j \in Job, Take(j) \/ LookupMisses(j) \/ Return(j)
  PROVE  IInv'
<1>1. TypeOK /\ Counters(j) /\ Knowledge(j)
  BY DEF IInv
<1>2. PICK at \in {"lookup", "place", "success"} :
        /\ Goes(j, [job[j] EXCEPT !.at = at])
        /\ at = "lookup" =>
             /\ job[j].at = "queued"
             /\ "overlap" \in Faults \/ \A k \in Job : ~Active(k)
        /\ at = "place" => job[j].at = "lookup" /\ Recorded = {}
        /\ at = "success" => job[j].at = "return"
  BY DEF Take, LookupMisses, Return
<1>3. at \in Stage
  BY DEF Stage
<1>4. /\ job' \in [Job -> JobState]
      /\ \A k \in Job : k # j => job'[k] = job[k]
      /\ job'[j].at = at
      /\ job'[j].tries = job[j].tries /\ job'[j].attempt = job[j].attempt
      /\ job'[j].sends = job[j].sends /\ job'[j].polls = job[j].polls
      /\ job'[j].order = job[j].order /\ job'[j].seen = job[j].seen
  BY <1>1, <1>2, <1>3, StageShape
<1>5. UNCHANGED <<status, row, orphaned>>
  BY DEF Take, LookupMisses, Return
<1>6. Counters(j)'
  BY <1>1, <1>2, <1>4 DEF Counters
<1>7. Knowledge(j)'
  BY <1>1, <1>2, <1>4, <1>5 DEF Knowledge, Placed, Recorded
<1>8. job[j].sends <= job'[j].sends
  BY <1>1, <1>4 DEF TypeOK, JobState
<1>9. InHand(j) \subseteq InHand(j)'
  BY <1>2, <1>4 DEF InHand
<1>10. \/ Active(j)' => Active(j)
       \/ "overlap" \in Faults
       \/ \A k \in Job : ~Active(k)
  BY <1>2, <1>4 DEF Active
<1>11. job'[j].at \in {"place", "poll", "upsert"} => Recorded = {}
  BY <1>2, <1>4
<1>12. job[j].at # "failure"
  BY <1>2
<1>13. QED
  BY <1>4, <1>5, <1>6, <1>7, <1>8, <1>9, <1>10, <1>11, <1>12, QuietPreserves

\* A lookup that finds the row of an order returns that order.
LEMMA HitPreserves ==
  ASSUME IInv, NEW j \in Job, LookupHits(j)
  PROVE  IInv'
<1>1. TypeOK /\ Counters(j) /\ Recorded \subseteq Placed
  BY DEF IInv, RecordsAreTrue
<1>2. PICK o \in Recorded :
        Goes(j, [job[j] EXCEPT !.at = "return", !.order = o, !.seen = row[o]])
  BY DEF LookupHits
<1> DEFINE new == [job[j] EXCEPT !.at = "return", !.order = o, !.seen = row[o]]
<1>3. o \in Order /\ row[o] \in Seen
  BY <1>1 DEF Recorded, TypeOK
<1>4. /\ new \in JobState
      /\ new.at = "return" /\ new.order = o
      /\ new.tries = job[j].tries /\ new.attempt = job[j].attempt
      /\ new.sends = job[j].sends
  BY <1>1, <1>3 DEF TypeOK, JobState, Stage
<1>5. Goes(j, new) /\ job[j].at = "lookup" /\ UNCHANGED <<status, row, orphaned>>
  BY <1>2 DEF LookupHits
<1> HIDE DEF new
<1>6. /\ job' \in [Job -> JobState]
      /\ job'[j] = new
      /\ \A k \in Job : k # j => job'[k] = job[k]
  BY <1>1, <1>4, <1>5, GoesSets
<1>7. Counters(j)' /\ Knowledge(j)'
  BY <1>1, <1>2, <1>4, <1>5, <1>6 DEF Counters, Knowledge, Placed, Recorded
<1>8. job[j].sends <= job'[j].sends
  BY <1>1, <1>4, <1>6 DEF TypeOK, JobState
<1>9. InHand(j) \subseteq InHand(j)' /\ (Active(j)' => Active(j))
  BY <1>4, <1>5, <1>6 DEF InHand, Active
<1>10. QED
  BY <1>4, <1>5, <1>6, <1>7, <1>8, <1>9, QuietPreserves

\* An attempt that raises before it holds an order.
LEMMA RaisePreserves ==
  ASSUME IInv, NEW j \in Job, LookupRaises(j) \/ SubmitRejected(j)
  PROVE  IInv'
<1>1. TypeOK /\ Counters(j)
  BY DEF IInv
<1>2. job[j].at \in {"lookup", "place"} /\ UNCHANGED <<status, row, orphaned>>
  BY DEF LookupRaises, SubmitRejected
<1>3. /\ job' \in [Job -> JobState]
      /\ \A k \in Job : k # j => job'[k] = job[k]
      /\ Counters(j)'
      /\ \/ /\ job'[j].at = "failure"
            /\ job'[j].attempt = job[j].attempt
         \/ /\ job'[j].at = "queued"
            /\ job'[j].attempt = job[j].attempt + 1
         \/ /\ job[j].at = "place" /\ job'[j].at = "place"
            /\ job'[j].attempt = job[j].attempt
            /\ job'[j].sends = job[j].sends + 1
  <2>1. CASE Raises(j)
    BY <1>1, <2>1, RaisesShape
  <2>2. CASE job[j].at = "place" /\ SubmitErrs(j)
    BY <1>1, <2>2, SubmitErrsShape
  <2>3. QED
    BY <2>1, <2>2 DEF LookupRaises, SubmitRejected
<1>4. job[j].attempt \in Nat /\ job[j].sends \in Nat
  BY <1>1, ExecutionAssumption DEF TypeOK, JobState, Attempt
<1>5. Knowledge(j)'
  BY <1>3 DEF Knowledge
<1>6. InHand(j) \subseteq InHand(j)' /\ (Active(j)' => Active(j))
  BY <1>2, <1>3 DEF InHand, Active
<1>7. QED
  BY <1>2, <1>3, <1>4, <1>5, <1>6, QuietPreserves

\* Polling keeps the order in hand and learns its status.
LEMMA PollPreserves ==
  ASSUME IInv, NEW j \in Job, Poll(j) \/ PollFails(j)
  PROVE  IInv'
<1>1. TypeOK /\ Counters(j) /\ Knowledge(j)
  BY DEF IInv
<1>2. job[j].at = "poll" /\ UNCHANGED <<status, row, orphaned>>
  BY DEF Poll, PollFails
<1>3. job[j].order \in Placed /\ status[job[j].order] \in Seen
  BY <1>1, <1>2 DEF Knowledge, Placed, TypeOK, Seen
<1>4. PICK seen \in Seen :
        PollsOn(j, seen) /\ (seen \in Terminal => seen = status[job[j].order])
  BY <1>1, <1>2, <1>3 DEF Poll, PollFails, Knowledge, TypeOK, JobState
<1>5. /\ job' \in [Job -> JobState]
      /\ \A k \in Job : k # j => job'[k] = job[k]
      /\ Counters(j)'
      /\ job'[j].at \in {"poll", "upsert"}
      /\ job'[j].attempt = job[j].attempt
      /\ job'[j].sends = job[j].sends
      /\ job'[j].order = job[j].order
      /\ job'[j].seen = seen
  BY <1>1, <1>2, <1>4, PollShape
<1>6. Knowledge(j)'
  BY <1>2, <1>3, <1>4, <1>5 DEF Knowledge, Placed, Recorded
<1>7. job[j].sends <= job'[j].sends
  BY <1>1, <1>5 DEF TypeOK, JobState
<1>8. InHand(j) \subseteq InHand(j)' /\ (Active(j)' => Active(j))
  BY <1>2, <1>5 DEF InHand, Active
<1>9. QED
  BY <1>2, <1>5, <1>6, <1>7, <1>8, QuietPreserves

-----------------------------------------------------------------------------
(***************************************************************************)
(* Moves that place an order, record one, or lose sight of one.            *)
(***************************************************************************)

\* The next submission of a live job makes an order nobody placed before.
LEMMA NextOrderIsNew ==
  ASSUME IInv, NEW j \in Job, job[j].at = "place"
  PROVE  /\ NextOrder(j) \in Order
         /\ NextOrder(j) \notin Placed
         /\ NextOrder(j)[1] = j
         /\ NextOrder(j)[2] = job[j].attempt
         /\ NextOrder(j)[3] = job[j].sends + 1
<1>1. /\ job[j].attempt \in Attempt
      /\ job[j].sends \in 0..MaxSends /\ job[j].sends < MaxSends
  BY DEF IInv, TypeOK, JobState, Counters
<1>2. job[j].sends + 1 \in 1..MaxSends
  BY <1>1, ExecutionAssumption
<1>3. NextOrder(j) \in Order
  BY <1>1, <1>2 DEF NextOrder, Order
<1>4. /\ NextOrder(j)[1] = j
      /\ NextOrder(j)[2] = job[j].attempt
      /\ NextOrder(j)[3] = job[j].sends + 1
  BY DEF NextOrder
<1>5. NextOrder(j) \notin Placed
  BY <1>1, <1>4, ExecutionAssumption DEF IInv, Behind
<1>6. QED
  BY <1>3, <1>4, <1>5

\* The order a submission makes, whatever becomes of its answer.
LEMMA PlacingSets ==
  ASSUME TypeOK, NEW o \in Order, status' = [status EXCEPT ![o] = "open"]
  PROVE  /\ status' \in [Order -> {"none", "open"} \cup Terminal]
         /\ Placed' = Placed \cup {o}
         /\ status'[o] = "open"
         /\ \A p \in Order : p # o => status'[p] = status[p]
BY DEF TypeOK, Placed

\* After the placement of a new order by a job, Behind is kept if the job
\* counts the submission or starts a new attempt.
LEMMA BehindPlaced ==
  ASSUME IInv, NEW j \in Job, job[j].at = "place",
         Placed' = Placed \cup {NextOrder(j)},
         job' \in [Job -> JobState],
         \A k \in Job : k # j => job'[k] = job[k],
         \/ job'[j].attempt = job[j].attempt + 1
         \/ /\ job'[j].attempt = job[j].attempt
            /\ job'[j].sends = job[j].sends + 1 \/ job'[j].at = "failure"
  PROVE  Behind'
<1>1. /\ job[j].attempt \in Nat /\ job[j].sends \in Nat
      /\ job'[j].attempt \in Nat /\ job'[j].sends \in Nat
  BY ExecutionAssumption DEF IInv, TypeOK, JobState, Attempt
<1>2. ASSUME NEW o \in Placed
      PROVE  /\ o[2] <= job'[o[1]].attempt
             /\ o[2] = job'[o[1]].attempt =>
                  o[3] <= job'[o[1]].sends \/ job'[o[1]].at = "failure"
  <2>1. o[1] \in Job /\ o[2] \in Nat /\ o[3] \in Nat
    BY ExecutionAssumption DEF Placed, Order, Attempt
  <2>2. /\ o[2] <= job[o[1]].attempt
        /\ o[2] = job[o[1]].attempt =>
             o[3] <= job[o[1]].sends \/ job[o[1]].at = "failure"
    BY DEF IInv, Behind
  <2>3. CASE o[1] = j
    BY <1>1, <2>1, <2>2, <2>3
  <2>4. CASE o[1] # j
    BY <2>1, <2>2, <2>4
  <2>5. QED
    BY <2>3, <2>4
<1>3. /\ NextOrder(j)[1] = j
      /\ NextOrder(j)[2] = job[j].attempt
      /\ NextOrder(j)[3] = job[j].sends + 1
  BY NextOrderIsNew
<1>4. QED
  BY <1>1, <1>2, <1>3 DEF Behind

\* The knowledge of the other jobs survives the placement of a new order.
LEMMA KnowledgePlaced ==
  ASSUME IInv, NEW j \in Job, NEW o \in Order, o \notin Placed,
         status' = [status EXCEPT ![o] = "open"], UNCHANGED row,
         \A k \in Job : k # j => job'[k] = job[k]
  PROVE  /\ \A k \in Job : k # j => Counters(k)' /\ Knowledge(k)'
         /\ Recorded' = Recorded
         /\ RecordsAreTrue'
<1>1. /\ Placed' = Placed \cup {o}
      /\ \A p \in Order : p # o => status'[p] = status[p]
  BY PlacingSets DEF IInv
<1>2. Recorded' = Recorded
  BY DEF Recorded
<1>3. \A p \in Placed : p \in Order /\ p # o
  BY DEF Placed
<1>4. \A k \in Job : k # j => Counters(k)' /\ Knowledge(k)'
  BY <1>1, <1>2, <1>3 DEF IInv, Counters, Knowledge
<1>5. RecordsAreTrue'
  BY <1>1, <1>2, <1>3 DEF IInv, RecordsAreTrue
<1>6. QED
  BY <1>2, <1>4, <1>5

\* An accepted and answered submission puts the order into the job's hands.
LEMMA SubmitPreserves ==
  ASSUME IInv, NEW j \in Job, Submit(j)
  PROVE  IInv'
<1> DEFINE o == NextOrder(j)
           new == [job[j] EXCEPT !.at = "poll", !.order = o, !.seen = "unknown",
                             !.sends = job[j].sends + 1]
<1>1. /\ job[j].at = "place" /\ UNCHANGED <<row, orphaned>>
      /\ status' = [status EXCEPT ![o] = "open"]
      /\ Goes(j, new)
  BY DEF Submit
<1>2. TypeOK /\ Counters(j) /\ job[j] \in JobState
  BY DEF IInv, TypeOK
<1>3. o \in Order /\ o \notin Placed
  BY <1>1, NextOrderIsNew
<1>4. job[j].sends + 1 \in 0..MaxSends
  BY <1>1, <1>2, ExecutionAssumption DEF Counters, JobState
<1> HIDE DEF o
<1>5. /\ new \in JobState
      /\ new.at = "poll" /\ new.order = o /\ new.seen = "unknown"
      /\ new.tries = job[j].tries /\ new.attempt = job[j].attempt
      /\ new.sends = job[j].sends + 1 /\ new.polls = job[j].polls
  BY <1>2, <1>3, <1>4 DEF JobState, Stage, Seen
<1> HIDE DEF new
<1>6. /\ job' \in [Job -> JobState]
      /\ job'[j] = new
      /\ \A k \in Job : k # j => job'[k] = job[k]
  BY <1>1, <1>2, <1>5, GoesSets
<1>7. /\ status' \in [Order -> {"none", "open"} \cup Terminal]
      /\ Placed' = Placed \cup {o}
      /\ status'[o] = "open"
  BY <1>1, <1>2, <1>3, PlacingSets
<1>8. /\ \A k \in Job : k # j => Counters(k)' /\ Knowledge(k)'
      /\ Recorded' = Recorded
      /\ RecordsAreTrue'
  BY <1>1, <1>3, <1>6, KnowledgePlaced
<1>9. TypeOK'
  BY <1>1, <1>2, <1>6, <1>7 DEF TypeOK
<1>10. Counters(j)' /\ Knowledge(j)'
  <2>1. "unknown" \notin Terminal
    BY ExecutionAssumption
  <2>2. Counters(j)'
    BY <1>1, <1>2, <1>5, <1>6 DEF Counters
  <2>3. Knowledge(j)'
    BY <1>5, <1>6, <1>7, <2>1 DEF Knowledge
  <2>4. QED
    BY <2>2, <2>3
<1>11. Behind'
  BY <1>1, <1>5, <1>6, <1>7, BehindPlaced DEF o
<1>12. Exclusive'
  <2>1. \A k \in Job : Active(k)' <=> Active(k)
    BY <1>1, <1>5, <1>6 DEF Active
  <2>2. \A k \in Job :
          job'[k].at \in {"place", "poll", "upsert"} <=>
          job[k].at \in {"place", "poll", "upsert"}
    BY <1>1, <1>5, <1>6
  <2>3. QED
    BY <1>8, <2>1, <2>2 DEF IInv, Exclusive
<1>13. \A k \in Job : InHand(k) \subseteq InHand(k)' /\ o \in InHand(j)'
  BY <1>1, <1>5, <1>6 DEF InHand
<1>14. UnrecordedIsExplained'
  BY <1>1, <1>7, <1>8, <1>13 DEF IInv, UnrecordedIsExplained
<1>15. DuplicatesAreMishaps'
  <2>1. ASSUME "overlap" \notin Faults PROVE Placed \ orphaned = {}
    <3>1. Recorded = {} /\ \A k \in Job : Active(k) => k = j
      BY <1>1, <2>1 DEF IInv, Exclusive, Active
    <3>2. \A k \in Job : InHand(k) = {}
      BY <1>1, <3>1 DEF InHand, Active
    <3>3. QED
      BY <3>1, <3>2 DEF IInv, UnrecordedIsExplained
  <2>2. QED
    BY <1>1, <1>7, <2>1 DEF DuplicatesAreMishaps
<1>16. QED
  BY <1>8, <1>9, <1>10, <1>11, <1>12, <1>14, <1>15 DEF IInv

\* A submission whose answer is lost leaves an order nobody tracks.
LEMMA LostPreserves ==
  ASSUME IInv, NEW j \in Job, SubmitLost(j)
  PROVE  IInv'
<1> DEFINE o == NextOrder(j)
<1>1. /\ job[j].at = "place" /\ UNCHANGED row
      /\ status' = [status EXCEPT ![o] = "open"]
      /\ orphaned' = orphaned \cup {o}
      /\ SubmitErrs(j)
  BY DEF SubmitLost
<1>2. TypeOK /\ Counters(j)
  BY DEF IInv
<1>3. o \in Order /\ o \notin Placed
  BY <1>1, NextOrderIsNew
<1> HIDE DEF o
<1>4. /\ job' \in [Job -> JobState]
      /\ \A k \in Job : k # j => job'[k] = job[k]
      /\ Counters(j)'
      /\ \/ /\ job'[j].at = "failure"
            /\ job'[j].attempt = job[j].attempt
         \/ /\ job'[j].at = "queued"
            /\ job'[j].attempt = job[j].attempt + 1
         \/ /\ job'[j].at = "place"
            /\ job'[j].attempt = job[j].attempt
            /\ job'[j].sends = job[j].sends + 1
  BY <1>1, <1>2, SubmitErrsShape
<1>5. /\ status' \in [Order -> {"none", "open"} \cup Terminal]
      /\ Placed' = Placed \cup {o}
  BY <1>1, <1>2, <1>3, PlacingSets
<1>6. /\ \A k \in Job : k # j => Counters(k)' /\ Knowledge(k)'
      /\ Recorded' = Recorded
      /\ RecordsAreTrue'
  BY <1>1, <1>3, <1>4, KnowledgePlaced
<1>7. TypeOK'
  BY <1>1, <1>2, <1>3, <1>4, <1>5 DEF TypeOK
<1>8. Knowledge(j)'
  BY <1>4 DEF Knowledge
<1>9. Behind'
  BY <1>1, <1>4, <1>5, BehindPlaced DEF o
<1>10. Exclusive'
  <2>1. \A k \in Job : Active(k)' => Active(k)
    BY <1>1, <1>4 DEF Active
  <2>2. \A k \in Job :
          job'[k].at \in {"place", "poll", "upsert"} =>
          job[k].at \in {"place", "poll", "upsert"}
    BY <1>1, <1>4
  <2>3. QED
    BY <1>6, <2>1, <2>2 DEF IInv, Exclusive
<1>11. \A k \in Job : InHand(k) \subseteq InHand(k)'
  BY <1>1, <1>4 DEF InHand
<1>12. UnrecordedIsExplained'
  BY <1>1, <1>5, <1>6, <1>11 DEF IInv, UnrecordedIsExplained
<1>13. DuplicatesAreMishaps'
  BY <1>1, <1>5 DEF IInv, DuplicatesAreMishaps
<1>14. QED
  BY <1>4, <1>6, <1>7, <1>8, <1>9, <1>10, <1>12, <1>13 DEF IInv

\* The table after a row is written.
LEMMA RowSets ==
  ASSUME TypeOK, NEW o \in Order, NEW v \in Seen, row' = [row EXCEPT ![o] = v]
  PROVE  /\ row' \in [Order -> {"none"} \cup Seen]
         /\ Recorded' = Recorded \cup {o}
         /\ row'[o] = v
         /\ \A p \in Order : p # o => row'[p] = row[p]
<1>1. "none" \notin Seen
  BY ExecutionAssumption DEF Seen
<1>2. /\ row' \in [Order -> {"none"} \cup Seen]
      /\ row'[o] = v
      /\ \A p \in Order : p # o => row'[p] = row[p]
  BY DEF TypeOK
<1>3. QED
  BY <1>1, <1>2 DEF Recorded

\* A committed upsert records the order in hand with the status polled.
LEMMA UpsertPreserves ==
  ASSUME IInv, NEW j \in Job, Upsert(j)
  PROVE  IInv'
<1> DEFINE o == job[j].order
<1>1. /\ job[j].at = "upsert" /\ UNCHANGED <<status, orphaned>>
      /\ row' = [row EXCEPT ![o] = job[j].seen]
      /\ Goes(j, [job[j] EXCEPT !.at = "return"])
  BY DEF Upsert
<1>2. TypeOK /\ Counters(j) /\ Knowledge(j) /\ job[j] \in JobState
  BY DEF IInv, TypeOK
<1>3. /\ o \in Placed /\ o \in Order
      /\ job[j].seen \in Terminal => job[j].seen = status[o]
  BY <1>1, <1>2 DEF Knowledge, Placed
<1>4. job[j].seen \in Seen /\ "return" \in Stage
  BY <1>2 DEF JobState, Stage
<1>5. /\ job' \in [Job -> JobState]
      /\ \A k \in Job : k # j => job'[k] = job[k]
      /\ job'[j].at = "return"
      /\ job'[j].tries = job[j].tries /\ job'[j].attempt = job[j].attempt
      /\ job'[j].sends = job[j].sends /\ job'[j].order = o
  BY <1>1, <1>2, <1>4, StageShape
<1> HIDE DEF o
<1>6. /\ row' \in [Order -> {"none"} \cup Seen]
      /\ Recorded' = Recorded \cup {o}
      /\ row'[o] = job[j].seen
      /\ \A p \in Order : p # o => row'[p] = row[p]
  BY <1>1, <1>2, <1>3, <1>4, RowSets
<1>7. Placed' = Placed
  BY <1>1 DEF Placed
<1>8. TypeOK'
  BY <1>1, <1>2, <1>5, <1>6 DEF TypeOK
<1>9. \A k \in Job : Counters(k)' /\ Knowledge(k)'
  <2>1. ASSUME NEW k \in Job, k # j PROVE Counters(k)' /\ Knowledge(k)'
    BY <1>1, <1>5, <1>6, <1>7, <2>1 DEF IInv, Counters, Knowledge
  <2>2. Counters(j)' /\ Knowledge(j)'
    BY <1>2, <1>3, <1>5, <1>6, <1>7 DEF Counters, Knowledge
  <2>3. QED
    BY <2>1, <2>2
<1>10. Behind'
  <2>1. job[j].sends <= job'[j].sends
    BY <1>2, <1>5 DEF JobState
  <2>2. QED
    BY <1>1, <1>5, <1>7, <2>1, BehindKept
<1>11. Exclusive'
  <2>1. \A k \in Job : Active(k)' <=> Active(k)
    BY <1>1, <1>5 DEF Active
  <2>2. "overlap" \notin Faults =>
          \A k \in Job : job'[k].at \notin {"place", "poll", "upsert"}
    BY <1>1, <1>5 DEF IInv, Exclusive, Active
  <2>3. QED
    BY <2>1, <2>2 DEF IInv, Exclusive
<1>12. UnrecordedIsExplained'
  <2>1. \A k \in Job : InHand(k) \subseteq InHand(k)' \cup {o}
    BY <1>5 DEF InHand, o
  <2>2. QED
    BY <1>1, <1>6, <1>7, <2>1 DEF IInv, UnrecordedIsExplained
<1>13. DuplicatesAreMishaps'
  BY <1>1, <1>7 DEF IInv, DuplicatesAreMishaps
<1>14. RecordsAreTrue'
  <2>1. \A p \in Recorded : p \in Order
    BY DEF Recorded
  <2>2. QED
    BY <1>1, <1>3, <1>6, <1>7, <2>1 DEF IInv, RecordsAreTrue
<1>15. QED
  BY <1>8, <1>9, <1>10, <1>11, <1>12, <1>13, <1>14 DEF IInv

\* An upsert that raises loses sight of the order, committed or not.
LEMMA UpsertRaisesPreserves ==
  ASSUME IInv, NEW j \in Job, UpsertRaises(j)
  PROVE  IInv'
<1> DEFINE o == job[j].order
<1>1. /\ job[j].at = "upsert" /\ UNCHANGED status
      /\ orphaned' = orphaned \cup {o}
      /\ row' \in {row, [row EXCEPT ![o] = job[j].seen]}
      /\ Raises(j)
  BY DEF UpsertRaises
<1>2. TypeOK /\ Counters(j) /\ Knowledge(j) /\ job[j] \in JobState
  BY DEF IInv, TypeOK
<1>3. /\ o \in Placed /\ o \in Order
      /\ job[j].seen \in Terminal => job[j].seen = status[o]
  BY <1>1, <1>2 DEF Knowledge, Placed
<1>4. job[j].seen \in Seen
  BY <1>2 DEF JobState
<1>5. /\ job' \in [Job -> JobState]
      /\ \A k \in Job : k # j => job'[k] = job[k]
      /\ Counters(j)'
      /\ \/ /\ job'[j].at = "failure"
            /\ job'[j].attempt = job[j].attempt
         \/ /\ job'[j].at = "queued"
            /\ job'[j].attempt = job[j].attempt + 1
  BY <1>1, <1>2, RaisesShape
<1> HIDE DEF o
<1>6. /\ row' \in [Order -> {"none"} \cup Seen]
      /\ Recorded' \in {Recorded, Recorded \cup {o}}
      /\ \A p \in Order : row'[p] = row[p] \/ (p = o /\ row'[p] = job[j].seen)
  <2>1. CASE row' = row
    <3>1. Recorded' = Recorded
      BY <2>1 DEF Recorded
    <3>2. row' \in [Order -> {"none"} \cup Seen]
      BY <1>2, <2>1 DEF TypeOK
    <3>3. \A p \in Order : row'[p] = row[p]
      BY <2>1
    <3>4. QED
      BY <3>1, <3>2, <3>3
  <2>2. CASE row' = [row EXCEPT ![o] = job[j].seen]
    <3>1. /\ row' \in [Order -> {"none"} \cup Seen]
          /\ Recorded' = Recorded \cup {o}
          /\ row'[o] = job[j].seen
          /\ \A p \in Order : p # o => row'[p] = row[p]
      BY <1>2, <1>3, <1>4, <2>2, RowSets
    <3>2. \A p \in Order : row'[p] = row[p] \/ (p = o /\ row'[p] = job[j].seen)
      BY <3>1
    <3>3. QED
      BY <3>1, <3>2
  <2>3. QED
    BY <1>1, <2>1, <2>2
<1>7. Placed' = Placed
  BY <1>1 DEF Placed
<1>8. TypeOK'
  BY <1>1, <1>2, <1>3, <1>5, <1>6 DEF TypeOK
<1>9. \A k \in Job : Counters(k)' /\ Knowledge(k)'
  <2>1. ASSUME NEW k \in Job, k # j PROVE Counters(k)' /\ Knowledge(k)'
    BY <1>1, <1>5, <1>6, <1>7, <2>1 DEF IInv, Counters, Knowledge
  <2>2. Knowledge(j)'
    BY <1>5 DEF Knowledge
  <2>3. QED
    BY <1>5, <2>1, <2>2
<1>10. Behind'
  <2>1. job[j].attempt \in Nat
    BY <1>2, ExecutionAssumption DEF JobState, Attempt
  <2>2. QED
    BY <1>1, <1>5, <1>7, <2>1, BehindKept
<1>11. Exclusive'
  <2>1. \A k \in Job : Active(k)' => Active(k)
    BY <1>5 DEF Active
  <2>2. "overlap" \notin Faults =>
          \A k \in Job : job'[k].at \notin {"place", "poll", "upsert"}
    BY <1>1, <1>5 DEF IInv, Exclusive, Active
  <2>3. QED
    BY <2>1, <2>2 DEF IInv, Exclusive
<1>12. UnrecordedIsExplained'
  <2>1. \A k \in Job : InHand(k) \subseteq InHand(k)' \cup {o}
    BY <1>5 DEF InHand, o
  <2>2. QED
    BY <1>1, <1>6, <1>7, <2>1 DEF IInv, UnrecordedIsExplained
<1>13. DuplicatesAreMishaps'
  BY <1>1, <1>7 DEF IInv, DuplicatesAreMishaps
<1>14. RecordsAreTrue'
  <2>1. \A p \in Recorded : p \in Order
    BY DEF Recorded
  <2>2. QED
    BY <1>1, <1>3, <1>6, <1>7, <2>1 DEF IInv, RecordsAreTrue, Recorded
<1>15. QED
  BY <1>8, <1>9, <1>10, <1>11, <1>12, <1>13, <1>14 DEF IInv

\* A crash starts the job afresh and loses sight of the order in hand.
LEMMA CrashPreserves ==
  ASSUME IInv, NEW j \in Job, Crash(j)
  PROVE  IInv'
<1> DEFINE new == Afresh(job[j].tries, job[j].attempt + 1)
<1>1. /\ Active(j) /\ UNCHANGED <<status, row>>
      /\ orphaned' = orphaned \cup InHand(j)
      /\ job[j].attempt - job[j].tries < MaxCrashes
      /\ Goes(j, new)
  BY DEF Crash
<1>2. /\ TypeOK /\ Counters(j) /\ Knowledge(j)
      /\ job[j].tries \in 0..MaxRetries /\ job[j].attempt \in Attempt
  BY DEF IInv, TypeOK, JobState
<1>3. job[j].attempt + 1 \in Attempt /\ job[j].attempt + 1 <= job[j].tries + MaxCrashes
  BY <1>1, <1>2, ExecutionAssumption DEF Attempt
<1>4. /\ new \in JobState
      /\ new.at = "queued"
      /\ new.tries = job[j].tries /\ new.attempt = job[j].attempt + 1
      /\ new.sends = 0 /\ new.polls = 0
  BY <1>2, <1>3, AfreshType
<1> HIDE DEF new
<1>5. /\ job' \in [Job -> JobState]
      /\ job'[j] = new
      /\ \A k \in Job : k # j => job'[k] = job[k]
  BY <1>1, <1>2, <1>4, GoesSets
<1>6. Placed' = Placed /\ Recorded' = Recorded
  BY <1>1 DEF Placed, Recorded
<1>7. InHand(j) \subseteq Order
  BY <1>2 DEF InHand, Knowledge, Placed
<1>8. TypeOK'
  BY <1>1, <1>2, <1>5, <1>7 DEF TypeOK
<1>9. \A k \in Job : Counters(k)' /\ Knowledge(k)'
  <2>1. ASSUME NEW k \in Job, k # j PROVE Counters(k)' /\ Knowledge(k)'
    BY <1>1, <1>5, <1>6, <2>1 DEF IInv, Counters, Knowledge
  <2>2. Counters(j)'
    BY <1>2, <1>3, <1>4, <1>5, ExecutionAssumption DEF Counters, Attempt
  <2>3. Knowledge(j)'
    BY <1>4, <1>5 DEF Knowledge
  <2>4. QED
    BY <2>1, <2>2, <2>3
<1>10. Behind'
  <2>1. job[j].attempt < job'[j].attempt
    BY <1>2, <1>4, <1>5, ExecutionAssumption DEF Attempt
  <2>2. QED
    BY <1>5, <1>6, <2>1, BehindKept
<1>11. Exclusive'
  <2>1. \A k \in Job : Active(k)' => Active(k)
    BY <1>4, <1>5 DEF Active
  <2>2. \A k \in Job :
          job'[k].at \in {"place", "poll", "upsert"} =>
          job[k].at \in {"place", "poll", "upsert"}
    BY <1>4, <1>5
  <2>3. QED
    BY <1>6, <2>1, <2>2 DEF IInv, Exclusive
<1>12. UnrecordedIsExplained'
  <2>1. \A k \in Job : InHand(k) \subseteq InHand(k)' \cup InHand(j)
    BY <1>5 DEF InHand
  <2>2. QED
    BY <1>1, <1>6, <2>1 DEF IInv, UnrecordedIsExplained
<1>13. DuplicatesAreMishaps' /\ RecordsAreTrue'
  BY <1>1, <1>6 DEF IInv, DuplicatesAreMishaps, RecordsAreTrue
<1>14. QED
  BY <1>8, <1>9, <1>10, <1>11, <1>12, <1>13 DEF IInv

\* The broker moves an open order to a terminal status: nobody has yet seen,
\* and no row yet shows, a terminal status of it.
LEMMA SettlePreserves ==
  ASSUME IInv, NEW o \in Order, Settle(o)
  PROVE  IInv'
<1>1. /\ status[o] = "open" /\ UNCHANGED <<job, row, orphaned>>
      /\ \E v \in Terminal : status' = [status EXCEPT ![o] = v]
  BY DEF Settle
<1>2. "open" \notin Terminal /\ "none" \notin Terminal
  BY ExecutionAssumption
<1>3. /\ status' \in [Order -> {"none", "open"} \cup Terminal]
      /\ status'[o] \in Terminal
      /\ \A p \in Order : p # o => status'[p] = status[p]
  BY <1>1 DEF IInv, TypeOK
<1>4. Placed' = Placed /\ Recorded' = Recorded
  BY <1>1, <1>2, <1>3 DEF Placed, Recorded
<1>5. TypeOK'
  BY <1>1, <1>3 DEF IInv, TypeOK
<1>6. \A k \in Job : Counters(k)' /\ Knowledge(k)'
  <2>1. \A p \in Placed : p \in Order
    BY DEF Placed
  <2>2. QED
    BY <1>1, <1>2, <1>3, <1>4, <2>1 DEF IInv, Counters, Knowledge
<1>7. Behind'
  BY <1>1, <1>4 DEF IInv, Behind
<1>8. Exclusive' /\ UnrecordedIsExplained' /\ DuplicatesAreMishaps'
  BY <1>1, <1>4 DEF IInv, Exclusive, Active, UnrecordedIsExplained, InHand,
                    DuplicatesAreMishaps
<1>9. RecordsAreTrue'
  <2>1. \A p \in Recorded : p \in Order
    BY DEF Recorded
  <2>2. QED
    BY <1>1, <1>2, <1>3, <1>4, <2>1 DEF IInv, RecordsAreTrue
<1>10. QED
  BY <1>5, <1>6, <1>7, <1>8, <1>9 DEF IInv

-----------------------------------------------------------------------------
(***************************************************************************)
(* The invariant and the properties.                                       *)
(***************************************************************************)

\* The invariant holds of the initial state.
LEMMA InitInv == Init => IInv
<1> SUFFICES ASSUME Init PROVE IInv
  OBVIOUS
<1>1. NewJob \in JobState /\ NewJob.at = "queued"
  <2>1. 0 \in 0..MaxRetries /\ 0 \in Attempt /\ 0 \in 0..MaxSends /\ 0 \in 0..MaxPolls
    BY ExecutionAssumption DEF Attempt
  <2>2. QED
    BY <2>1 DEF NewJob, JobState, Stage, Seen
<1>2. TypeOK
  BY <1>1 DEF Init, TypeOK
<1>3. Placed = {} /\ Recorded = {}
  BY DEF Init, Placed, Recorded
<1>4. \A j \in Job : Counters(j) /\ Knowledge(j) /\ ~Active(j)
  <2>1. \A j \in Job : job[j] = NewJob
    BY DEF Init
  <2>2. /\ NewJob.tries = 0 /\ NewJob.attempt = 0
        /\ NewJob.sends = 0 /\ NewJob.polls = 0
    BY DEF NewJob
  <2>3. 0 <= MaxCrashes /\ 0 < MaxSends /\ 0 < MaxPolls
    BY ExecutionAssumption
  <2>4. ASSUME NEW j \in Job PROVE Counters(j) /\ Knowledge(j) /\ ~Active(j)
    <3>1. /\ job[j].at = "queued" /\ job[j].tries = 0 /\ job[j].attempt = 0
          /\ job[j].sends = 0 /\ job[j].polls = 0
      BY <1>1, <2>1, <2>2
    <3>2. Counters(j)
      BY <2>3, <3>1, ExecutionAssumption DEF Counters
    <3>3. Knowledge(j) /\ ~Active(j)
      BY <3>1 DEF Knowledge, Active
    <3>4. QED
      BY <3>2, <3>3
  <2>5. QED
    BY <2>4
<1>5. Behind /\ Exclusive /\ UnrecordedIsExplained /\ DuplicatesAreMishaps /\ RecordsAreTrue
  BY <1>3, <1>4 DEF Behind, Exclusive, UnrecordedIsExplained,
                    DuplicatesAreMishaps, RecordsAreTrue
<1>6. QED
  BY <1>2, <1>4, <1>5 DEF IInv

\* Every step preserves the invariant.
LEMMA NextInv ==
  ASSUME IInv, [Next]_vars
  PROVE  IInv'
<1>1. ASSUME NEW j \in Job, Take(j) \/ Step(j) \/ Crash(j) PROVE IInv'
  BY <1>1, WalkPreserves, HitPreserves, RaisePreserves, PollPreserves,
     SubmitPreserves, LostPreserves, UpsertPreserves, UpsertRaisesPreserves,
     CrashPreserves
     DEF Step
<1>2. ASSUME NEW o \in Order, Settle(o) PROVE IInv'
  BY <1>2, SettlePreserves
<1>3. CASE UNCHANGED vars
  BY <1>3 DEF vars, IInv, TypeOK, Counters, Knowledge, Behind, Exclusive, Active,
              UnrecordedIsExplained, InHand, DuplicatesAreMishaps,
              RecordsAreTrue, Placed, Recorded
<1>4. QED
  BY <1>1, <1>2, <1>3 DEF Next

\* The invariant holds in every reachable state.
THEOREM Invariance == Spec => []IInv
<1>1. IInv /\ [Next]_vars => IInv'
  BY NextInv
<1>2. QED
  BY InitInv, <1>1, PTL DEF Spec

\* Every variable keeps its type in every reachable state.
THEOREM TypeCorrect == Spec => []TypeOK
<1>1. IInv => TypeOK
  BY DEF IInv
<1>2. QED
  BY Invariance, <1>1, PTL

\* Without overlapping executions there is at most one order that no mishap
\* explains, for any number of deliveries, retries, crashes and resubmissions.
THEOREM LookupPreventsDuplicates == Spec => []DuplicatesAreMishaps
<1>1. IInv => DuplicatesAreMishaps
  BY DEF IInv
<1>2. QED
  BY Invariance, <1>1, PTL

\* No order drops out of sight but by a lost answer, a failed commit or a crash.
THEOREM OrdersAreTracked == Spec => []UnrecordedIsExplained
<1>1. IInv => UnrecordedIsExplained
  BY DEF IInv
<1>2. QED
  BY Invariance, <1>1, PTL

\* The trades table holds only orders that exist, and no false terminal status.
THEOREM TableIsTrue == Spec => []RecordsAreTrue
<1>1. IInv => RecordsAreTrue
  BY DEF IInv
<1>2. QED
  BY Invariance, <1>1, PTL

\* A task that reports success returns an order with a row.
THEOREM SuccessHasRow == Spec => []SuccessIsRecorded
<1>1. IInv => SuccessIsRecorded
  BY DEF IInv, Knowledge, SuccessIsRecorded
<1>2. QED
  BY Invariance, <1>1, PTL
=============================================================================
