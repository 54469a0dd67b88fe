----------------------------- MODULE ServicesProofs -----------------------------
(***************************************************************************)
(* Proofs about the services beside the pipeline: the polling of a result, *)
(* the login that threads share and the cached portfolio, for any number   *)
(* of queries, threads and readers, any time to live, and every set of     *)
(* faults; and the types of all services of MCServices, with the           *)
(* invariants of RecordsProofs.                                            *)
(***************************************************************************)
EXTENDS MCServices, RecordsProofs

-----------------------------------------------------------------------------
(***************************************************************************)
(* The polling.  A result key stands for a published run, and a query has  *)
(* no run before its POST has published one.                               *)
(***************************************************************************)

RequestRecord == {NoRequest} \cup [at : {"sent", "missed", "answered"}, of : Query, answer : Answer]

\* What a GET that is in flight has found.
SoundRequest(x) == x.answer = "completed" => run[x.of] = "published"

PollingInv ==
  /\ TypeOK
  /\ \A q \in result : run[q] = "published"
  /\ \A q \in Query : post[q] \in {"none", "status", "publish"} => run[q] = "none"
  /\ \A s \in Slot : SoundRequest(request[s])

LEMMA PollingStarts == Init => PollingInv
BY DEF Init, PollingInv, TypeOK, NoRequest, NoQuery, SoundRequest

\* A GET moves on, to something that is sound.
LEMMA RequestMoves ==
  ASSUME PollingInv, NEW s \in Slot, NEW x \in RequestRecord, SoundRequest(x),
         request' = [request EXCEPT ![s] = x],
         polling' \in {polling, NoQuery},
         UNCHANGED <<run, status, result, post, posting>>
  PROVE  PollingInv'
BY DEF PollingInv, TypeOK, RequestRecord, SoundRequest

LEMMA PollingGoesOn ==
  ASSUME PollingInv, [Next]_vars
  PROVE  PollingInv'
<1> USE PollingAssumption
<1>0. /\ TypeOK
      /\ \A s \in Slot : request[s] \in RequestRecord /\ SoundRequest(request[s])
  BY DEF PollingInv, TypeOK, RequestRecord
\* The POST of a query goes on, and its run is as it was or begins.
<1>1. ASSUME NEW q \in Query, NEW x \in {"status", "publish", "answered", "failed"},
             post' = [post EXCEPT ![q] = x], status' \subseteq Query,
             post[q] \in {"none", "status", "publish"},
             \/ run' = run
             \/ x \in {"answered", "failed"} /\ run' = [run EXCEPT ![q] = "running"],
             posting' \in {q, posting}, UNCHANGED <<result, polling, request>>
      PROVE  PollingInv'
  <2>1. /\ post' \in [Query -> {"none", "status", "publish", "answered", "failed"}]
        /\ run' \in [Query -> {"none", "running", "published", "failed"}]
        /\ \A p \in Query \ {q} : post'[p] = post[p] /\ run'[p] = run[p]
        /\ post'[q] = x /\ (x \in {"status", "publish"} => run'[q] = run[q])
    BY <1>0, <1>1 DEF TypeOK
  <2>2. run[q] = "none"
    BY <1>1 DEF PollingInv
  <2>3. \A p \in Query : run[p] = "published" => run'[p] = "published"
    BY <2>1, <2>2
  <2>4. TypeOK'
    BY <1>0, <1>1, <2>1 DEF TypeOK
  <2>5. \A p \in result' : run'[p] = "published"
    BY <1>0, <1>1, <2>3 DEF PollingInv, TypeOK
  <2>6. \A p \in Query : post'[p] \in {"none", "status", "publish"} => run'[p] = "none"
    BY <1>1, <2>1, <2>2 DEF PollingInv
  <2>7. ASSUME NEW s \in Slot PROVE SoundRequest(request[s])'
    BY <1>0, <1>1, <2>3 DEF SoundRequest, RequestRecord, NoRequest
  <2> QED BY <2>4, <2>5, <2>6, <2>7 DEF PollingInv
<1>2. CASE Click
  BY <1>0, <1>1, <1>2 DEF Click, TypeOK
<1>3. ASSUME NEW q \in Query, SetStatus(q) \/ PublishRun(q) \/ PublishFails(q) PROVE PollingInv'
  <2>1. CASE SetStatus(q)
    BY <1>0, <1>1, <2>1 DEF SetStatus, TypeOK, cardVars
  <2>2. CASE PublishRun(q)
    BY <1>0, <1>1, <2>2 DEF PublishRun, TypeOK, cardVars
  <2>3. CASE PublishFails(q)
    BY <1>0, <1>1, <2>3 DEF PublishFails, TypeOK, cardVars
  <2> QED BY <1>3, <2>1, <2>2, <2>3
<1>5. CASE Accepted
  BY <1>5 DEF Accepted, PollingInv, TypeOK, SoundRequest
<1>6. CASE Leave
  <2>1. NoRequest.answer = "none"
    BY DEF NoRequest
  <2> QED BY <1>6, <2>1 DEF Leave, PollingInv, TypeOK, SoundRequest
<1>7. ASSUME NEW s \in Slot, Tick(s) PROVE PollingInv'
  <2> DEFINE x == [at |-> "sent", of |-> polling, answer |-> "none"]
  <2>1. polling \in Query
    BY <1>0, <1>7 DEF Tick, TypeOK
  <2>2. x \in RequestRecord /\ SoundRequest(x)
    BY <2>1 DEF RequestRecord, SoundRequest, Answer
  <2> HIDE DEF x
  <2> QED BY <1>7, <2>2, RequestMoves DEF Tick, x
<1>8. ASSUME NEW s \in Slot, ReadResult(s) PROVE PollingInv'
  <2>1. PICK found \in Answers(result, request[s].of) :
          request' = [request EXCEPT ![s] =
                        IF found THEN [@ EXCEPT !.at = "answered", !.answer = "completed"]
                        ELSE [@ EXCEPT !.at = "missed"]]
    BY <1>8 DEF ReadResult
  <2>2. /\ request[s].at = "sent" /\ UNCHANGED <<run, status, result, post, posting, polling>>
        /\ request[s] \in [at : {"sent", "missed", "answered"}, of : Query, answer : Answer]
        /\ request[s].answer = "completed" => run[request[s].of] = "published"
    BY <1>0, <1>8 DEF ReadResult, RequestRecord, NoRequest, SoundRequest
  <2>3. CASE found
    <3> DEFINE x == [request[s] EXCEPT !.at = "answered", !.answer = "completed"]
    <3>1. x \in RequestRecord /\ x.answer = "completed" /\ x.of = request[s].of
      BY <2>2 DEF RequestRecord, Answer
    <3>2. request[s].of \in result
      BY <2>1, <2>3 DEF Answers
    <3>3. request' = [request EXCEPT ![s] = x]
      BY <2>1, <2>3
    <3> HIDE DEF x
    <3>4. SoundRequest(x)
      BY <2>2, <3>1, <3>2 DEF SoundRequest, PollingInv
    <3> QED BY <2>2, <3>1, <3>3, <3>4, RequestMoves
  <2>4. CASE ~found
    <3> DEFINE x == [request[s] EXCEPT !.at = "missed"]
    <3>1. x \in RequestRecord /\ x.answer = request[s].answer /\ x.of = request[s].of
      BY <2>2 DEF RequestRecord
    <3>2. request' = [request EXCEPT ![s] = x]
      BY <2>1, <2>4
    <3> HIDE DEF x
    <3>3. SoundRequest(x)
      BY <2>2, <3>1 DEF SoundRequest
    <3> QED BY <2>2, <3>1, <3>2, <3>3, RequestMoves
  <2> QED BY <2>3, <2>4
<1>9. ASSUME NEW s \in Slot, ReadStatus(s) PROVE PollingInv'
  <2>1. PICK found \in Answers(status, request[s].of) :
          request' = [request EXCEPT ![s] =
                        [@ EXCEPT !.at = "answered",
                                  !.answer = IF found THEN "queued" ELSE "not_found"]]
    BY <1>9 DEF ReadStatus
  <2>2. /\ request[s].at = "missed" /\ UNCHANGED <<run, status, result, post, posting, polling>>
        /\ request[s] \in [at : {"sent", "missed", "answered"}, of : Query, answer : Answer]
    BY <1>0, <1>9 DEF ReadStatus, RequestRecord, NoRequest
  <2>4. PICK a \in {"queued", "not_found"} :
          request' = [request EXCEPT ![s] = [request[s] EXCEPT !.at = "answered", !.answer = a]]
    BY <2>1
  <2> DEFINE x == [request[s] EXCEPT !.at = "answered", !.answer = a]
  <2>5. x \in RequestRecord /\ x.answer = a /\ x.of = request[s].of
    BY <2>2 DEF RequestRecord, Answer
  <2>6. request' = [request EXCEPT ![s] = x]
    BY <2>4
  <2> HIDE DEF x
  <2>7. SoundRequest(x)
    BY <2>4, <2>5 DEF SoundRequest
  <2> QED BY <2>2, <2>5, <2>6, <2>7, RequestMoves
<1>10. ASSUME NEW s \in Slot, Deliver(s) PROVE PollingInv'
  <2>1. NoRequest \in RequestRecord /\ SoundRequest(NoRequest)
    BY DEF RequestRecord, SoundRequest, NoRequest
  <2> QED BY <1>10, <2>1, RequestMoves DEF Deliver
\* What the server keeps of a query that is answered changes.
<1>11. ASSUME NEW q \in Query, RunPublishes(q) PROVE PollingInv'
  <2>1. post[q] \notin {"none", "status", "publish"}
    BY <1>11 DEF RunPublishes, PollingInv
  <2> QED BY <1>11, <2>1 DEF RunPublishes, PollingInv, TypeOK, SoundRequest, cardVars
<1>12. ASSUME NEW q \in Query, RunFails(q) PROVE PollingInv'
  <2>1. post[q] \notin {"none", "status", "publish"}
    BY <1>12 DEF RunFails, PollingInv
  <2> QED BY <1>12, <2>1 DEF RunFails, PollingInv, TypeOK, SoundRequest, cardVars
<1>13. ASSUME NEW q \in Query, KeyExpires(q) PROVE PollingInv'
  <2>1. UNCHANGED <<run, post, cardVars>> /\ result' \subseteq result /\ status' \subseteq status
    BY <1>13 DEF KeyExpires
  <2> QED BY <2>1 DEF PollingInv, TypeOK, SoundRequest, cardVars
<1>14. CASE UNCHANGED vars
  BY <1>14 DEF vars, PollingInv, TypeOK, SoundRequest, cardVars
<1> QED
  BY <1>2, <1>3, <1>5, <1>6, <1>7, <1>8, <1>9, <1>10, <1>11, <1>12, <1>13, <1>14
     DEF Next, Serve

\* Only the answer of a published run or a new page ends the polling.
LEMMA OnlyPublishedStops ==
  ASSUME PollingInv, [Next]_vars,
         polling # NoQuery, run[polling] = "running", polling' = NoQuery
  PROVE  Leave \/ \E s \in Slot : Deliver(s) /\ request[s].of # polling
<1>1. CASE \E s \in Slot : Deliver(s)
  <2>1. PICK s \in Slot : Deliver(s)
    BY <1>1
  <2>2. request[s].answer = "completed"
    BY <2>1 DEF Deliver
  <2>3. run[request[s].of] = "published"
    BY <2>2 DEF PollingInv, SoundRequest
  <2> QED BY <2>1, <2>3
<1>2. CASE Accepted
  BY <1>2 DEF Accepted
<1>3. ASSUME ~Leave, ~Accepted, ~\E s \in Slot : Deliver(s) PROVE UNCHANGED polling
  BY <1>3 DEF Next, vars, cardVars, Click, SetStatus, PublishRun, PublishFails, Tick, Serve, ReadResult,
              ReadStatus, RunPublishes, RunFails, KeyExpires
<1> QED BY <1>1, <1>2, <1>3

\* The answers of the polled route are true, and a card stops polling a query
\* that is under way only when the page is left or an answer to an older query
\* comes late.
THEOREM CardsAreTold == Spec => PollingIsTrue
<1>1. PollingInv => AnswersAreTrue
  BY DEF PollingInv, SoundRequest, AnswersAreTrue
<1>2. PollingInv /\ [Next]_vars =>
        [polling # NoQuery /\ run[polling] = "running" /\ polling' = NoQuery
           => Leave \/ \E s \in Slot : Deliver(s) /\ request[s].of # polling]_vars
  BY OnlyPublishedStops
<1> QED
  BY PollingStarts, PollingGoesOn, <1>1, <1>2, PTL
     DEF Spec, PollingIsTrue, OnlyOldAnswersStopEarly

-----------------------------------------------------------------------------
(***************************************************************************)
(* The login.  Only the holder of the lock logs in, so what it read of the *)
(* session before still holds; the session in use never becomes older.     *)
(***************************************************************************)

SessionInv ==
  /\ SessionTypeOK
  /\ \A t \in Thread : thread[t].at = "login" <=> lock = t
  /\ logins = <<>> => expires = 0
  /\ logins # <<>> => expires = logins[Len(logins)] + SessionTTL
  /\ LoginsAreApart
  /\ \A t \in Thread :
       /\ thread[t].at = "login" => logins = <<>> \/ expires <= thread[t].stamp
       /\ thread[t].at = "take" => logins # <<>> /\ thread[t].stamp < expires
       /\ thread[t].at = "work" => thread[t].stamp < thread[t].got + SessionTTL

ThreadRecord == [at : {"idle", "lock", "login", "take", "work"}, stamp : Time, got : Time]

\* A login stays ahead of the threads that were let pass by an older one.
LEMMA LoginKeeps ==
  ASSUME SessionInv, NEW t \in Thread, Login(t)
  PROVE  SessionInv'
<1> USE SessionAssumption
<1>1. PICK n \in Nat : n = Len(logins)
  BY DEF SessionInv, SessionTypeOK
<1>2. /\ thread \in [Thread -> ThreadRecord] /\ logins \in Seq(Time) /\ lock = t
      /\ expires \in Nat /\ now \in Time
      /\ logins # <<>> => n > 0 /\ logins[n] \in Time /\ expires = logins[n] + SessionTTL
      /\ logins = <<>> \/ expires <= thread[t].stamp
      /\ logins = <<>> => n = 0 /\ expires = 0
  BY <1>1 DEF Login, SessionInv, SessionTypeOK, ThreadRecord, Time
<1>3. PICK m \in Time : m = thread[t].stamp
  BY <1>2 DEF ThreadRecord
<1>4. /\ logins' = Append(logins, m) /\ expires' = m + SessionTTL /\ lock' = NoThread
      /\ thread' = [thread EXCEPT ![t].at = "take"] /\ now' = now
      /\ thread[t].at = "login"
  BY <1>3 DEF Login
<1>5. /\ logins' \in Seq(Time) /\ Len(logins') = n + 1 /\ logins'[n + 1] = m
      /\ \A i \in 1..n : logins'[i] = logins[i]
      /\ logins' # <<>>
  BY <1>1, <1>2, <1>4
<1>6. expires' \in 0..(MaxClock + SessionTTL) /\ expires <= expires'
  <2>1. m \in Nat /\ m <= MaxClock
    BY DEF Time
  <2>2. expires = 0 \/ expires <= m
    BY <1>2, <1>3
  <2> QED BY <1>2, <1>4, <2>1, <2>2
<1>7. LoginsAreApart'
  <2> SUFFICES ASSUME NEW i \in 2..(n + 1) PROVE logins'[i] - logins'[i - 1] >= SessionTTL
    BY <1>5 DEF LoginsAreApart
  <2>1. CASE i = n + 1
    <3>1. n > 0 /\ logins[n] \in Nat /\ logins[n] + SessionTTL <= m /\ m \in Nat
      BY <1>2, <1>3, <2>1 DEF Time
    <3>2. logins'[i] = m /\ logins'[i - 1] = logins[n]
      BY <1>5, <2>1, <3>1
    <3> QED BY <3>1, <3>2
  <2>2. CASE i # n + 1
    <3>1. i \in 2..n /\ i - 1 \in 1..n /\ i \in 1..n
      BY <2>2
    <3>2. logins[i] - logins[i - 1] >= SessionTTL
      BY <1>1, <3>1 DEF SessionInv, LoginsAreApart
    <3>3. logins'[i] = logins[i] /\ logins'[i - 1] = logins[i - 1]
      BY <1>5, <3>1
    <3> QED BY <3>2, <3>3
  <2> QED BY <2>1, <2>2
<1>8. /\ thread' \in [Thread -> ThreadRecord]
      /\ thread'[t].at = "take" /\ thread'[t].stamp = m
      /\ \A u \in Thread : u # t => thread'[u] = thread[u]
  BY <1>2, <1>3, <1>4 DEF ThreadRecord
<1>9. \A u \in Thread : u # t => thread[u].at # "login"
  BY <1>2 DEF SessionInv
<1>10. \A u \in Thread : thread[u].stamp \in Nat
  BY <1>2 DEF ThreadRecord, Time
<1>11. m < expires'
  BY <1>4 DEF Time
<1>12. SessionTypeOK'
  BY <1>2, <1>4, <1>5, <1>6, <1>8 DEF SessionTypeOK, ThreadRecord
<1>13. expires' = logins'[Len(logins')] + SessionTTL
  BY <1>4, <1>5
<1>14. \A u \in Thread : thread'[u].at = "login" <=> lock' = u
  BY <1>4, <1>8, <1>9
<1>15. ASSUME NEW u \in Thread
       PROVE  /\ thread'[u].at = "login" => logins' = <<>> \/ expires' <= thread'[u].stamp
              /\ thread'[u].at = "take" => logins' # <<>> /\ thread'[u].stamp < expires'
              /\ thread'[u].at = "work" => thread'[u].stamp < thread'[u].got + SessionTTL
  <2>1. CASE u = t
    BY <1>5, <1>8, <1>11, <2>1
  <2>2. CASE u # t
    <3>1. thread'[u] = thread[u] /\ thread[u].at # "login"
      BY <1>8, <1>9, <2>2
    <3>2. thread[u].at = "take" => thread[u].stamp < expires'
      BY <1>2, <1>6, <1>10 DEF SessionInv
    <3> QED BY <1>5, <3>1, <3>2 DEF SessionInv
  <2> QED BY <2>1, <2>2
<1> QED BY <1>5, <1>7, <1>12, <1>13, <1>14, <1>15 DEF SessionInv

\* A thread moves without a login: the sessions stay.
LEMMA ThreadMoves ==
  ASSUME SessionInv, NEW t \in Thread, NEW x \in ThreadRecord,
         thread' = [thread EXCEPT ![t] = x], UNCHANGED <<now, logins, expires>>,
         lock' \in Thread \cup {NoThread},
         x.at = "login" <=> lock' = t,
         \A u \in Thread \ {t} : lock' = u <=> lock = u,
         x.at = "login" => logins = <<>> \/ expires <= x.stamp,
         x.at = "take" => logins # <<>> /\ x.stamp < expires,
         x.at = "work" => x.stamp < x.got + SessionTTL
  PROVE  SessionInv'
<1>1. /\ thread \in [Thread -> ThreadRecord]
      /\ \A u \in Thread : thread[u].at = "login" <=> lock = u
  BY DEF SessionInv, SessionTypeOK, ThreadRecord
<1>2. /\ thread' \in [Thread -> ThreadRecord] /\ thread'[t] = x
      /\ \A u \in Thread \ {t} : thread'[u] = thread[u]
  BY <1>1
<1>3. SessionTypeOK'
  BY <1>2 DEF SessionInv, SessionTypeOK, ThreadRecord, Time
<1>4. \A u \in Thread : thread'[u].at = "login" <=> lock' = u
  <2> SUFFICES ASSUME NEW u \in Thread PROVE thread'[u].at = "login" <=> lock' = u
    OBVIOUS
  <2> CASE u = t
    BY <1>2
  <2> CASE u # t
    BY <1>1, <1>2
  <2> QED OBVIOUS
<1>5. /\ logins' = <<>> => expires' = 0
      /\ logins' # <<>> => expires' = logins'[Len(logins')] + SessionTTL
      /\ LoginsAreApart'
  BY DEF SessionInv, LoginsAreApart
<1>6. ASSUME NEW u \in Thread
      PROVE  /\ thread'[u].at = "login" => logins' = <<>> \/ expires' <= thread'[u].stamp
             /\ thread'[u].at = "take" => logins' # <<>> /\ thread'[u].stamp < expires'
             /\ thread'[u].at = "work" => thread'[u].stamp < thread'[u].got + SessionTTL
  <2> CASE u = t
    BY <1>2
  <2> CASE u # t
    BY <1>2 DEF SessionInv
  <2> QED OBVIOUS
<1> QED BY <1>3, <1>4, <1>5, <1>6 DEF SessionInv

LEMMA SessionGoesOn ==
  ASSUME SessionInv, [SessionNext]_sessionVars
  PROVE  SessionInv'
<1> USE SessionAssumption
<1>1. /\ thread \in [Thread -> ThreadRecord] /\ \A t \in Thread : thread[t] \in ThreadRecord
      /\ now \in Time /\ expires \in Nat /\ lock \in Thread \cup {NoThread}
      /\ \A t \in Thread : thread[t].at = "login" <=> lock = t
      /\ \A t \in Thread : thread[t].stamp \in Nat
  BY DEF SessionInv, SessionTypeOK, ThreadRecord, Time
<1>2. ASSUME NEW t \in Thread, ReadClock(t) PROVE SessionInv'
  <2> DEFINE x == [Idle EXCEPT !.at = "lock", !.stamp = now]
  <2>1. x \in ThreadRecord /\ x.at = "lock"
    <3>1. 0 \in Time
      BY DEF Time
    <3>2. Idle \in ThreadRecord
      BY <3>1 DEF Idle, ThreadRecord
    <3> QED BY <1>1, <3>2 DEF ThreadRecord
  <2>2. /\ thread' = [thread EXCEPT ![t] = x] /\ UNCHANGED <<now, logins, expires, lock>>
        /\ thread[t].at = "idle"
    BY <1>2 DEF ReadClock
  <2> HIDE DEF x
  <2> QED BY <1>1, <2>1, <2>2, ThreadMoves
<1>3. ASSUME NEW t \in Thread, Reuse(t) PROVE SessionInv'
  <2> DEFINE x == [thread[t] EXCEPT !.at = "take"]
  <2>1. x \in ThreadRecord /\ x.at = "take" /\ x.stamp = thread[t].stamp
    BY <1>1 DEF ThreadRecord
  <2>2. /\ thread' = [thread EXCEPT ![t] = x] /\ UNCHANGED <<now, logins, expires, lock>>
        /\ thread[t].at = "lock" /\ logins # <<>> /\ thread[t].stamp < expires
    BY <1>3 DEF Reuse, Current
  <2> HIDE DEF x
  <2> QED BY <1>1, <2>1, <2>2, ThreadMoves
<1>4. ASSUME NEW t \in Thread, Enter(t) PROVE SessionInv'
  <2> DEFINE x == [thread[t] EXCEPT !.at = "login"]
  <2>1. x \in ThreadRecord /\ x.at = "login" /\ x.stamp = thread[t].stamp
    BY <1>1 DEF ThreadRecord
  <2>2. /\ thread' = [thread EXCEPT ![t] = x] /\ UNCHANGED <<now, logins, expires>>
        /\ thread[t].at = "lock" /\ ~(logins # <<>> /\ thread[t].stamp < expires)
        /\ lock = NoThread /\ lock' = t
    BY <1>4 DEF Enter, Current
  <2>3. logins = <<>> \/ expires <= x.stamp
    BY <1>1, <2>1, <2>2
  <2> HIDE DEF x
  <2> QED BY <1>1, <2>1, <2>2, <2>3, ThreadMoves
<1>5. ASSUME NEW t \in Thread, LoginFails(t) PROVE SessionInv'
  <2>1. Idle \in ThreadRecord /\ Idle.at = "idle"
    BY DEF Idle, ThreadRecord, Time
  <2>2. /\ thread' = [thread EXCEPT ![t] = Idle] /\ UNCHANGED <<now, logins, expires>>
        /\ thread[t].at = "login" /\ lock' = NoThread
    BY <1>5 DEF LoginFails
  <2> QED BY <1>1, <2>1, <2>2, ThreadMoves
<1>6. ASSUME NEW t \in Thread, TakeSession(t) PROVE SessionInv'
  <2>1. /\ thread[t].at = "take" /\ UNCHANGED <<now, logins, expires, lock>>
        /\ thread' = [thread EXCEPT ![t] = [thread[t] EXCEPT !.at = "work",
                                                              !.got = logins[Len(logins)]]]
    BY <1>1, <1>6 DEF TakeSession
  <2>2. logins # <<>> /\ thread[t].stamp < expires /\ expires = logins[Len(logins)] + SessionTTL
        /\ logins \in Seq(Time)
    BY <2>1 DEF SessionInv, SessionTypeOK
  <2>3. PICK g \in Time : g = logins[Len(logins)]
    BY <2>2
  <2> DEFINE x == [thread[t] EXCEPT !.at = "work", !.got = g]
  <2>4. x \in ThreadRecord /\ x.at = "work" /\ x.stamp = thread[t].stamp /\ x.got = g
    BY <1>1 DEF ThreadRecord
  <2>5. thread' = [thread EXCEPT ![t] = x]
    BY <2>1, <2>3
  <2> HIDE DEF x
  <2>6. x.at = "login" <=> lock' = t
    <3>1. lock # t
      BY <1>1, <2>1
    <3> QED BY <2>1, <2>4, <3>1
  <2>7. x.stamp < x.got + SessionTTL
    BY <2>2, <2>3, <2>4
  <2>8. lock' \in Thread \cup {NoThread} /\ \A u \in Thread \ {t} : lock' = u <=> lock = u
    BY <1>1, <2>1
  <2> QED BY <2>1, <2>4, <2>5, <2>6, <2>7, <2>8, ThreadMoves
<1>7. ASSUME NEW t \in Thread, Done(t) PROVE SessionInv'
  <2>1. Idle \in ThreadRecord /\ Idle.at = "idle"
    BY DEF Idle, ThreadRecord, Time
  <2>2. /\ thread' = [thread EXCEPT ![t] = Idle] /\ UNCHANGED <<now, logins, expires, lock>>
        /\ thread[t].at = "work"
    BY <1>7 DEF Done
  <2> QED BY <1>1, <2>1, <2>2, ThreadMoves
<1>8. CASE ClockTicks
  <2>1. now' \in Time /\ UNCHANGED <<logins, expires, lock, thread>>
    BY <1>1, <1>8 DEF ClockTicks, Time
  <2> QED BY <2>1 DEF SessionInv, SessionTypeOK, LoginsAreApart
<1>9. CASE UNCHANGED sessionVars
  BY <1>9 DEF sessionVars, SessionInv, SessionTypeOK, LoginsAreApart
<1> QED
  BY <1>2, <1>3, <1>4, <1>5, <1>6, <1>7, <1>8, <1>9, LoginKeeps DEF SessionNext, SessionStep

\* The login and its lock go together at all times.
LEMMA SessionIsInvariant == SessionSpec => []SessionInv
<1>1. SessionInit => SessionInv
  BY SessionAssumption
     DEF SessionInit, SessionInv, SessionTypeOK, LoginsAreApart, Idle, Time
<1> QED BY <1>1, SessionGoesOn, PTL DEF SessionSpec

\* No second login while the first is current, and no thread works with a
\* session that had outlived its time when the thread came.
THEOREM SessionsLast == SessionSpec => []SessionsAreCurrent
<1>2. SessionInv => SessionsAreCurrent
  BY DEF SessionInv, SessionsAreCurrent, HandedSessionIsCurrent
<1> QED BY <1>2, SessionIsInvariant, PTL

-----------------------------------------------------------------------------
(***************************************************************************)
(* The portfolio answer.  A request that nobody overtook reads rows at     *)
(* least as new as those of the answer it will replace: the answer was     *)
(* stored before the request came.                                         *)
(***************************************************************************)

ReaderRecord == [at : {"idle", "read"}, read : Seq(Nat), missed : SUBSET Reader]

\* The counts of one request, in the order they were read.
Rising(s) ==
  /\ Len(s) <= 3
  /\ \A i \in 1..Len(s) : s[i] <= rows
  /\ \A i, j \in 1..Len(s) : i <= j => s[i] <= s[j]

PortfolioInv ==
  /\ rows \in Nat
  /\ reader \in [Reader -> ReaderRecord]
  /\ snapshot \in Seq(Nat)
  /\ snapshot = NoSnapshot \/ Len(snapshot) = 3
  /\ Rising(snapshot)
  /\ \A r \in Reader : Rising(reader[r].read)
  /\ \A r \in Reader :
       snapshot # NoSnapshot /\ reader[r].at = "read" /\ reader[r].missed = {}
       => \A i \in 1..Len(reader[r].read) : snapshot[3] <= reader[r].read[i]

\* One request moves, and reads rows at least as new as the answer's.
LEMMA ReaderMoves ==
  ASSUME PortfolioInv, NEW r \in Reader, NEW x \in ReaderRecord,
         reader' = [reader EXCEPT ![r] = x], UNCHANGED <<rows, snapshot>>,
         Rising(x.read),
         snapshot # NoSnapshot /\ x.at = "read" /\ x.missed = {}
         => \A i \in 1..Len(x.read) : snapshot[3] <= x.read[i]
  PROVE  PortfolioInv'
<1>1. /\ reader' \in [Reader -> ReaderRecord] /\ reader'[r] = x
      /\ \A q \in Reader \ {r} : reader'[q] = reader[q]
  BY DEF PortfolioInv
<1>2. ASSUME NEW q \in Reader PROVE Rising(reader[q].read)'
  <2> CASE q = r
    BY <1>1 DEF Rising
  <2> CASE q # r
    BY <1>1 DEF PortfolioInv, Rising
  <2> QED OBVIOUS
<1>3. ASSUME NEW q \in Reader,
             snapshot' # NoSnapshot, reader'[q].at = "read", reader'[q].missed = {},
             NEW i \in 1..Len(reader'[q].read)
      PROVE  snapshot'[3] <= reader'[q].read[i]
  <2> CASE q = r
    BY <1>1, <1>3
  <2> CASE q # r
    BY <1>1, <1>3 DEF PortfolioInv
  <2> QED OBVIOUS
<1>4. Rising(snapshot)'
  BY DEF PortfolioInv, Rising
<1> QED BY <1>1, <1>2, <1>3, <1>4 DEF PortfolioInv, NoSnapshot

LEMMA PortfolioGoesOn ==
  ASSUME PortfolioInv, [PortfolioNext]_portfolioVars
  PROVE  PortfolioInv'
<1>1. /\ \A r \in Reader : reader[r] \in ReaderRecord /\ Rising(reader[r].read)
      /\ rows \in Nat /\ reader \in [Reader -> ReaderRecord]
      /\ snapshot \in Seq(Nat)
      /\ snapshot # NoSnapshot => Len(snapshot) = 3 /\ snapshot[3] \in Nat /\ snapshot[3] <= rows
  BY DEF PortfolioInv, Rising
<1>2. CASE Counted
  <2>1. rows' = rows + 1 /\ UNCHANGED <<snapshot, reader>>
    BY <1>2 DEF Counted
  <2>2. ASSUME NEW s \in Seq(Nat), Rising(s) PROVE Rising(s)'
    BY <1>1, <2>1, <2>2 DEF Rising
  <2>3. Rising(snapshot)'
    BY <1>1, <2>1, <2>2 DEF PortfolioInv, Rising
  <2>4. ASSUME NEW r \in Reader PROVE Rising(reader[r].read)'
    <3>1. reader[r].read \in Seq(Nat) /\ Rising(reader[r].read)
      BY <1>1 DEF ReaderRecord
    <3> QED BY <1>1, <2>1, <3>1 DEF Rising
  <2> QED BY <1>1, <2>1, <2>3, <2>4 DEF PortfolioInv, NoSnapshot
<1>3. ASSUME NEW r \in Reader, Miss(r) PROVE PortfolioInv'
  <2> DEFINE x == [NotReading EXCEPT !.at = "read"]
  <2>1. x \in ReaderRecord /\ x.read = <<>>
    <3>1. NotReading \in ReaderRecord
      BY DEF NotReading, ReaderRecord
    <3> QED BY <3>1 DEF ReaderRecord, NotReading
  <2>2. reader' = [reader EXCEPT ![r] = x] /\ UNCHANGED <<rows, snapshot>>
    BY <1>3 DEF Miss
  <2> HIDE DEF x
  <2>3. Rising(x.read) /\ 1..Len(x.read) = {}
    BY <2>1 DEF Rising
  <2> QED BY <2>1, <2>2, <2>3, ReaderMoves
<1>4. ASSUME NEW r \in Reader, ReadRows(r) PROVE PortfolioInv'
  <2>1. PICK s \in Seq(Nat) : s = reader[r].read
    BY <1>1 DEF ReaderRecord
  <2> DEFINE x == [reader[r] EXCEPT !.read = Append(s, rows)]
  <2>2. /\ reader' = [reader EXCEPT ![r] = x] /\ UNCHANGED <<rows, snapshot>>
        /\ reader[r].at = "read" /\ Len(s) < 3
    BY <1>1, <1>4, <2>1 DEF ReadRows
  <2>3. Append(s, rows) \in Seq(Nat)
    BY <1>1
  <2>4. x \in ReaderRecord /\ x.read = Append(s, rows) /\ x.missed = reader[r].missed
    BY <1>1, <2>3 DEF ReaderRecord
  <2> HIDE DEF x
  <2>5. PICK n \in Nat : n = Len(s)
    OBVIOUS
  <2>6. /\ Len(x.read) = n + 1 /\ x.read[n + 1] = rows
        /\ \A i \in 1..n : x.read[i] = s[i] /\ s[i] \in Nat /\ s[i] <= rows
        /\ \A i, j \in 1..n : i <= j => s[i] <= s[j]
    <3>1. Rising(s) /\ rows \in Nat
      BY <1>1, <2>1
    <3>2. Len(x.read) = n + 1 /\ x.read[n + 1] = rows /\ \A i \in 1..n : x.read[i] = s[i]
      BY <2>4, <2>5, <3>1
    <3> QED BY <2>5, <3>1, <3>2 DEF Rising
  <2>7. \A i \in 1..(n + 1) : i \in 1..n \/ i = n + 1
    BY <2>5
  <2>8. \A i \in 1..(n + 1) : x.read[i] <= rows
    <3>1. rows \in Nat
      BY <1>1
    <3> QED BY <2>6, <2>7, <3>1
  <2>9. ASSUME NEW i \in 1..(n + 1), NEW j \in 1..(n + 1), i <= j
        PROVE  x.read[i] <= x.read[j]
    <3>1. CASE j = n + 1
      BY <2>6, <2>8, <3>1
    <3>2. CASE j # n + 1
      <4>1. i \in 1..n /\ j \in 1..n
        BY <2>5, <2>9, <3>2
      <4> QED BY <2>6, <2>9, <4>1
    <3> QED BY <3>1, <3>2
  <2>10. Rising(x.read)
    BY <2>2, <2>5, <2>6, <2>8, <2>9 DEF Rising
  <2>11. ASSUME snapshot # NoSnapshot, x.missed = {}, NEW i \in 1..Len(x.read)
         PROVE  snapshot[3] <= x.read[i]
    <3>1. CASE i \in 1..n
      <4>1. snapshot[3] <= s[i]
        BY <2>1, <2>2, <2>4, <2>5, <2>11, <3>1 DEF PortfolioInv
      <4> QED BY <2>6, <3>1, <4>1
    <3>2. CASE i = n + 1
      BY <1>1, <2>6, <2>11, <3>2
    <3> QED BY <2>6, <2>7, <3>1, <3>2
  <2> QED BY <2>2, <2>4, <2>10, <2>11, ReaderMoves
<1>5. ASSUME NEW r \in Reader, BrokerFails(r) PROVE PortfolioInv'
  <2>1. reader' = [reader EXCEPT ![r] = NotReading] /\ UNCHANGED <<rows, snapshot>>
    BY <1>5 DEF BrokerFails
  <2>2. NotReading \in ReaderRecord /\ NotReading.read = <<>> /\ NotReading.at = "idle"
    BY DEF NotReading, ReaderRecord
  <2>3. Rising(NotReading.read)
    BY <2>2 DEF Rising
  <2> QED BY <2>1, <2>2, <2>3, ReaderMoves
<1>6. ASSUME NEW r \in Reader, SetSnapshot(r) PROVE PortfolioInv'
  <2>1. PICK s \in Seq(Nat) : s = reader[r].read
    BY <1>1 DEF ReaderRecord
  <2>2. /\ rows' = rows /\ snapshot' \in {s, snapshot} /\ Len(s) = 3 /\ Rising(s)
        /\ reader' = [q \in Reader |->
                        IF q = r THEN NotReading
                        ELSE IF reader[q].at = "read" THEN [reader[q] EXCEPT !.missed = @ \cup {r}]
                        ELSE reader[q]]
    BY <1>1, <1>6, <2>1 DEF SetSnapshot
  <2>3. snapshot' \in Seq(Nat) /\ (snapshot' = NoSnapshot \/ Len(snapshot') = 3)
    BY <1>1, <2>2
  <2>4. Rising(snapshot)'
    BY <2>2 DEF PortfolioInv, Rising
  <2>5. NotReading \in ReaderRecord /\ NotReading.read = <<>> /\ NotReading.at = "idle"
    BY DEF NotReading, ReaderRecord
  <2>6. ASSUME NEW q \in Reader
        PROVE  /\ reader'[q] \in ReaderRecord
               /\ reader'[q].read = <<>> \/ reader'[q].read = reader[q].read
               /\ reader'[q].at = "read" => reader'[q].missed # {}
    <3>1. CASE q = r
      BY <2>2, <2>5, <3>1
    <3>2. CASE q # r /\ reader[q].at = "read"
      <4>1. /\ reader'[q] = [reader[q] EXCEPT !.missed = @ \cup {r}]
            /\ reader[q] \in ReaderRecord
        BY <1>1, <2>2, <3>2
      <4>2. PICK m \in SUBSET Reader : m = reader[q].missed
        BY <4>1 DEF ReaderRecord
      <4>3. m \cup {r} \in SUBSET Reader /\ m \cup {r} # {}
        OBVIOUS
      <4> QED BY <4>1, <4>2, <4>3 DEF ReaderRecord
    <3>3. CASE q # r /\ reader[q].at # "read"
      BY <1>1, <2>2, <3>3
    <3> QED BY <3>1, <3>2, <3>3
  <2>7. reader' \in [Reader -> ReaderRecord]
    <3>1. \A q \in Reader : reader'[q] \in ReaderRecord
      BY <2>6
    <3> QED BY <2>2, <3>1
  <2>8. ASSUME NEW q \in Reader PROVE Rising(reader[q].read)'
    <3>1. CASE reader'[q].read = <<>>
      BY <1>1, <2>2, <3>1 DEF Rising
    <3>2. CASE reader'[q].read = reader[q].read
      BY <1>1, <2>2, <3>2 DEF Rising
    <3> QED BY <2>6, <3>1, <3>2
  <2> QED BY <1>1, <2>2, <2>3, <2>4, <2>6, <2>7, <2>8 DEF PortfolioInv
<1>7. CASE SnapshotExpires
  <2>1. snapshot' = NoSnapshot /\ UNCHANGED <<rows, reader>>
    BY <1>7 DEF SnapshotExpires
  <2> QED BY <1>1, <2>1 DEF PortfolioInv, Rising, NoSnapshot
<1>8. CASE UNCHANGED portfolioVars
  BY <1>8 DEF portfolioVars, PortfolioInv, Rising, NoSnapshot
<1> QED
  BY <1>2, <1>3, <1>4, <1>5, <1>6, <1>7, <1>8 DEF PortfolioNext

\* A step in which a request ends and older rows replace newer ones is one of
\* a request that was overtaken.
LEMMA OverlapGoesBack ==
  ASSUME PortfolioInv, [PortfolioNext]_portfolioVars, NEW r \in Reader,
         snapshot # NoSnapshot, snapshot' # NoSnapshot, snapshot'[3] < snapshot[3],
         reader[r].at = "read", reader'[r].at = "idle"
  PROVE  reader[r].missed # {}
<1>1. snapshot[3] \in Nat
  BY DEF PortfolioInv
<1>2. snapshot' # snapshot
  BY <1>1
<1>3. PICK q \in Reader : SetSnapshot(q)
  BY <1>2 DEF PortfolioNext, portfolioVars, Counted, Miss, ReadRows, BrokerFails, SnapshotExpires
<1>4. q = r
  <2>1. CASE q # r
    <3>1. reader'[r] = [reader[r] EXCEPT !.missed = @ \cup {q}]
      BY <1>3, <2>1 DEF SetSnapshot
    <3>2. reader[r] \in ReaderRecord
      BY DEF PortfolioInv
    <3>3. reader'[r].at = reader[r].at
      BY <3>1, <3>2 DEF ReaderRecord
    <3> QED BY <3>3
  <2> QED BY <2>1
<1>5. snapshot' = reader[r].read /\ Len(reader[r].read) = 3
  BY <1>2, <1>3, <1>4 DEF SetSnapshot
<1>6. PICK n \in Nat : n = reader[r].read[3]
  BY <1>5 DEF PortfolioInv, ReaderRecord
<1>7. reader[r].missed = {} => snapshot[3] <= n
  BY <1>5, <1>6 DEF PortfolioInv
<1> QED BY <1>1, <1>5, <1>6, <1>7

\* What was read and what is cached go with the rows at all times.
LEMMA PortfolioIsInvariant == PortfolioSpec => []PortfolioInv
<1>1. PortfolioInit => PortfolioInv
  BY DEF PortfolioInit, PortfolioInv, NoSnapshot, NotReading, ReaderRecord, Rising
<1> QED BY <1>1, PortfolioGoesOn, PTL DEF PortfolioSpec

\* An answer's cash is never newer than its positions, and it is replaced by
\* an older one only by a request that read while another one stored its own.
THEOREM SnapshotsAreRead == PortfolioSpec => SnapshotsFollowRows
<1>2. PortfolioInv => SnapshotReadsInOrder
  BY DEF PortfolioInv, Rising, SnapshotReadsInOrder
<1>3. PortfolioInv /\ [PortfolioNext]_portfolioVars =>
        [\A r \in Reader :
           /\ snapshot # NoSnapshot /\ snapshot' # NoSnapshot /\ snapshot'[3] < snapshot[3]
           /\ reader[r].at = "read" /\ reader'[r].at = "idle"
           => reader[r].missed # {}]_portfolioVars
  BY OverlapGoesBack
<1> QED
  BY <1>2, <1>3, PortfolioIsInvariant, PTL
     DEF PortfolioSpec, SnapshotsFollowRows, OnlyOverlapGoesBack

-----------------------------------------------------------------------------
(***************************************************************************)
(* The types of MCServices, with the bounds that they state.               *)
(***************************************************************************)

\* The bound on the rows.
RowsAreBounded == rows \in 0..MaxRows

\* Rows are counted up to their bound.
LEMMA RowsStayBounded ==
  ASSUME RowsAreBounded, [PortfolioNext]_portfolioVars
  PROVE  RowsAreBounded'
BY PortfolioAssumption
   DEF PortfolioNext, Counted, Miss, ReadRows, BrokerFails, SetSnapshot, SnapshotExpires,
       portfolioVars, RowsAreBounded

\* A snapshot has its three parts, and a request at the broker three at most.
THEOREM PortfolioIsTyped == PortfolioSpec => []PortfolioTypeOK
<1>1. PortfolioInit => RowsAreBounded
  BY PortfolioAssumption DEF PortfolioInit, RowsAreBounded
<1>2. PortfolioInv /\ RowsAreBounded => PortfolioTypeOK
  <2> SUFFICES ASSUME PortfolioInv, RowsAreBounded PROVE PortfolioTypeOK
    OBVIOUS
  <2>1. ASSUME snapshot # NoSnapshot PROVE snapshot \in [1..3 -> 0..MaxRows]
    <3>1. snapshot \in Seq(Nat) /\ Len(snapshot) = 3 /\ \A i \in 1..3 : snapshot[i] <= rows
      BY <2>1 DEF PortfolioInv, Rising
    <3>2. snapshot \in [1..Len(snapshot) -> Nat]
      <4>1. snapshot \in Seq(Nat)
        BY <3>1
      <4> QED BY <4>1
    <3>3. \A i \in 1..3 : snapshot[i] \in 0..MaxRows
      BY <3>1, <3>2, PortfolioAssumption DEF RowsAreBounded
    <3> QED BY <3>1, <3>2, <3>3
  <2>2. \A r \in Reader : /\ reader[r].at \in {"idle", "read"} /\ Len(reader[r].read) <= 3
                          /\ reader[r].missed \subseteq Reader
    BY DEF PortfolioInv, ReaderRecord, Rising
  <2> QED BY <2>1, <2>2 DEF PortfolioTypeOK, RowsAreBounded
<1> QED BY <1>1, <1>2, RowsStayBounded, PortfolioIsInvariant, PTL DEF PortfolioSpec

\* A ticker is published at most once for each delivery of the day's message.
THEOREM WatchIsTyped == WatchSpec => []WatchTypeOK
<1>1. WatchInit => RowsInv
  BY WatchAssumption DEF WatchInit, RowsInv, SoundEdit, NoEdit, EditRecord
<1>2. RowsInv /\ DailyInv => WatchTypeOK
  <2> SUFFICES ASSUME RowsInv, DailyInv PROVE WatchTypeOK
    OBVIOUS
  <2>1. ASSUME NEW t \in Ticker PROVE published[t] \in 0..MaxDailies
    <3>1. Cardinality(Daily) = MaxDailies
      <4>1. MaxDailies \in Nat /\ MaxDailies > 0
        BY WatchAssumption
      <4>2. 1 \in Int /\ MaxDailies \in Int /\ 1 <= MaxDailies
        BY <4>1
      <4>3. Cardinality(1..MaxDailies) = MaxDailies - 1 + 1
        BY <4>1, <4>2, FS_Interval
      <4> QED BY <4>1, <4>3 DEF Daily
    <3>2. PublishersOf(t) \subseteq Daily
      BY DEF PublishersOf
    <3>3. Cardinality(PublishersOf(t)) <= Cardinality(Daily)
      BY <3>2, DailiesAreFinite, FS_Subset
    <3>4. Cardinality(PublishersOf(t)) = published[t] /\ published[t] \in Nat
      BY DEF DailyInv
    <3> QED BY <3>1, <3>3, <3>4, WatchAssumption
  <2>2. published \in [Ticker -> 0..MaxDailies]
    BY <2>1 DEF DailyInv
  <2> QED BY <2>2 DEF WatchTypeOK, RowsInv, EditRecord, DailyInv, DailyRecord
<1> QED BY <1>1, <1>2, RowsGoOn, DailyIsInvariant, PTL DEF WatchSpec

\* No count is above the number of letters, and no alert counts none.
LettersBound ==
  /\ \A l \in Letter : letter[l].count <= Cardinality(Letter)
  /\ \A a \in alerts : a.count > 0

\* A count is of letters there are, and an alert is of one at least.
LEMMA LettersStayBounded ==
  ASSUME LettersInv, LettersBound, [LettersNext]_lettersVars
  PROVE  LettersBound'
<1>1. /\ letter \in [Letter -> LetterRecord] /\ recent \subseteq Letter
      /\ \A l \in Letter : letter[l].count <= Cardinality(Letter)
      /\ \A a \in alerts : a.count > 0
      /\ Cardinality(Letter) \in Nat
  BY LettersAssumption, FS_CardinalityType DEF LettersInv, LettersBound
<1>2. ASSUME NEW l \in Letter, NEW r \in LetterRecord, letter' = [letter EXCEPT ![l] = r],
             r.count <= Cardinality(Letter), \A a \in alerts' : a.count > 0
      PROVE  LettersBound'
  BY <1>1, <1>2 DEF LettersBound
<1>3. ASSUME NEW l \in Letter, Consume(l) PROVE LettersBound'
  <2>1. PICK t \in LetterTicker :
          letter' = [letter EXCEPT ![l] = [NoLetter EXCEPT !.at = "added", !.ticker = t]]
    BY <1>3 DEF Consume
  <2>2. PICK r : r = [NoLetter EXCEPT !.at = "added", !.ticker = t]
    OBVIOUS
  <2>3. r = [at |-> "added", ticker |-> t, count |-> 0]
    BY <2>2 DEF NoLetter
  <2>4. r \in LetterRecord /\ r.count <= Cardinality(Letter)
    BY <1>1, <2>3 DEF LetterRecord
  <2>5. letter' = [letter EXCEPT ![l] = r] /\ \A a \in alerts' : a.count > 0
    BY <1>1, <1>3, <2>1, <2>2 DEF Consume
  <2> QED BY <1>2, <2>4, <2>5
<1>4. ASSUME NEW l \in Letter, Count(l) PROVE LettersBound'
  <2>1. recent_failures(l) \subseteq Letter
    BY <1>1 DEF recent_failures
  <2>2. PICK n \in Nat : n = Cardinality(recent_failures(l)) /\ n <= Cardinality(Letter)
    BY <2>1, LettersAssumption, FS_Subset, FS_CardinalityType
  <2>3. letter' = [letter EXCEPT ![l] = [letter[l] EXCEPT !.at = "counted", !.count = n]]
    BY <1>1, <1>4, <2>2 DEF Count, LetterRecord
  <2>4. PICK r : r = [letter[l] EXCEPT !.at = "counted", !.count = n]
    OBVIOUS
  <2>5. r \in LetterRecord /\ r.count <= Cardinality(Letter)
    <3>1. letter[l] \in LetterRecord
      BY <1>1
    <3> QED BY <2>2, <2>4, <3>1 DEF LetterRecord
  <2>6. letter' = [letter EXCEPT ![l] = r] /\ \A a \in alerts' : a.count > 0
    BY <1>1, <1>4, <2>3, <2>4 DEF Count
  <2> QED BY <1>2, <2>5, <2>6
<1>5. ASSUME NEW l \in Letter, CommitLetter(l) \/ LetterLost(l) PROVE LettersBound'
  <2>1. PICK at \in {"stored", "lost"} : letter' = [letter EXCEPT ![l] = [letter[l] EXCEPT !.at = at]]
    BY <1>1, <1>5 DEF CommitLetter, LetterLost
  <2>2. /\ [letter[l] EXCEPT !.at = at] \in LetterRecord
        /\ [letter[l] EXCEPT !.at = at].count = letter[l].count
    BY <1>1 DEF LetterRecord
  <2>3. \A a \in alerts' : a.count > 0
    <3>1. letter[l].count + 1 > 0
      BY <1>1 DEF LetterRecord
    <3> QED BY <1>1, <1>5, <3>1 DEF CommitLetter, LetterLost
  <2> QED BY <1>1, <1>2, <2>1, <2>2, <2>3
<1>6. CASE UNCHANGED <<letter, alerts>>
  BY <1>6 DEF LettersBound
<1>7. CASE Watchdog
  <2>1. {b \in AgentRun : logged[b] = "started" /\ attempt[b] = "stuck"} = {}
    BY DEF LettersInv
  <2>2. alerts' = alerts /\ letter' = letter
    BY <1>7, <2>1 DEF Watchdog
  <2> QED BY <1>6, <2>2
<1> QED
  BY <1>3, <1>4, <1>5, <1>6, <1>7
     DEF LettersNext, lettersVars, HourPasses, StartAttempt, EndAttempt, GetsStuck

\* A letter counts no more letters than there are, and the alert of one at
\* most one more.
THEOREM LettersAreTyped == LettersSpec => []LettersTypeOK
<1>1. LettersInit => LettersBound
  BY LettersAssumption, FS_CardinalityType DEF LettersInit, LettersBound, NoLetter
<1>2. LettersInv /\ LettersBound => LettersTypeOK
  <2> SUFFICES ASSUME LettersInv, LettersBound PROVE LettersTypeOK
    OBVIOUS
  <2>1. Cardinality(Letter) \in Nat
    BY LettersAssumption, FS_CardinalityType
  <2>2. letter \in [Letter -> [at : {"none", "added", "counted", "stored", "lost"},
                               ticker : LetterTicker \cup {"none"},
                               count : 0..Cardinality(Letter)]]
    BY <2>1 DEF LettersInv, LettersBound, LetterRecord
  <2>3. alerts \subseteq Repeated
    <3> SUFFICES ASSUME NEW a \in alerts PROVE a \in Repeated
      OBVIOUS
    <3>1. a \in RepeatedAlert /\ a.count > 0 /\ a.count <= Cardinality(LettersOf(a.ticker)) + 1
      BY DEF LettersInv, LettersBound
    <3>2. /\ Cardinality(LettersOf(a.ticker)) \in Nat
          /\ Cardinality(LettersOf(a.ticker)) <= Cardinality(Letter)
      BY LettersAssumption, LettersAreCounted, FS_Subset DEF LettersOf
    <3>3. a.count \in 1..(Cardinality(Letter) + 1)
      BY <2>1, <3>1, <3>2 DEF RepeatedAlert
    <3> QED BY <3>1, <3>3 DEF RepeatedAlert, Repeated
  <2>4. logged \in [AgentRun -> {"none", "started", "success", "error"}]
    BY DEF LettersInv
  <2> QED BY <2>2, <2>3, <2>4 DEF LettersTypeOK, LettersInv
<1> QED BY <1>1, <1>2, LettersStayBounded, LettersAreInvariant, PTL DEF LettersSpec

\* Each behaviour of MCServices is one of every service: of its subject, and of
\* the others, which stutter.
LEMMA MCIsEachService ==
  MCSpec => /\ Spec /\ PortfolioSpec /\ SessionSpec
            /\ WatchSpec /\ TaxSpec /\ LettersSpec
<1>1. MCInit => /\ Init /\ PortfolioInit /\ SessionInit
                /\ WatchInit /\ TaxInit /\ LettersInit
  BY DEF MCInit
<1>2. [MCNext]_<<subject, vars, portfolioVars, sessionVars, watchVars, taxVars, lettersVars,
                 executionVars>>
      => /\ [Next]_vars /\ [PortfolioNext]_portfolioVars /\ [SessionNext]_sessionVars
         /\ [WatchNext]_watchVars /\ [TaxNext]_taxVars /\ [LettersNext]_lettersVars
  BY DEF MCNext, OthersStay, Stays
<1> QED
  BY <1>1, <1>2, PTL
     DEF MCSpec, Spec, PortfolioSpec, SessionSpec, WatchSpec, TaxSpec, LettersSpec

\* The variables of every service keep their types and the bounds they state.
THEOREM ServicesAreTyped == MCSpec => []ServicesTypeOK
<1>1. PollingInv => TypeOK
  BY DEF PollingInv
<1>2. SessionInv => SessionTypeOK
  BY DEF SessionInv
<1>4. TaxInv => TaxTypeOK
  BY DEF TaxInv, TaxTypeOK, TradeRecord, SoundTrade
<1>5. Spec => []PollingInv
  BY PollingStarts, PollingGoesOn, PTL DEF Spec
<1> QED
  BY <1>1, <1>2, <1>4, <1>5, MCIsEachService, PortfolioIsTyped, SessionIsInvariant,
     WatchIsTyped, TaxIsInvariant, LettersAreTyped, PTL
     DEF ServicesTypeOK

\* The composition, which is what the runs check, keeps every service's
\* safety: cards, snapshot, session, watchlist, daily task, tax year and dead
\* letters.
THEOREM ServicesKeepPromises ==
  MCSpec => /\ PollingIsTrue
            /\ SnapshotsFollowRows
            /\ []SessionsAreCurrent
            /\ ImplementsWatchlistPromise
            /\ []DailyRunsAreExplained
            /\ []SummariesKeepTheirYear
            /\ []AlertsTellFailures
BY MCIsEachService, CardsAreTold, SnapshotsAreRead, SessionsLast,
   WatchlistKeepsPromise, DailyRunsHaveReasons, SummariesAreOfSales, AlertsAreOfFailures
================================================================================
