----------------------------- MODULE RecordsProofs -----------------------------
(***************************************************************************)
(* Proofs about what the program keeps and tells: the watchlist and its    *)
(* daily runs, the tax summaries, the alerts, the rows of the research     *)
(* agent and the answers of the quant agent.                               *)
(***************************************************************************)
EXTENDS Watchlist, TaxYear, DeadLetters, ResearchTask, MarketData, FiniteSetTheorems, TLAPS

(***************************************************************************)
(* The watchlist.  A row that a request has read as present is still there *)
(* when it writes, since rows are never deleted: only an INSERT can meet   *)
(* the unique ticker.                                                      *)
(***************************************************************************)

EditRecord == [at : {"idle", "read", "write", "done", "rejected"},
               op : {"none", "add", "remove"}, ticker : Ticker \cup {NoTicker},
               read : {"none", "active", "inactive"}]

SoundEdit(e) ==
  /\ e.at = "idle" => e = NoEdit
  /\ e.at # "idle" => e.op \in {"add", "remove"} /\ e.ticker \in Ticker
  /\ e.at = "write" /\ e.read = "none" => e.op = "add"

RowsInv ==
  /\ row \in [Ticker -> {"none", "active", "inactive"}]
  /\ edit \in [Request -> EditRecord]
  /\ \A r \in Request : SoundEdit(edit[r])

LEMMA RowsGoOn ==
  ASSUME RowsInv, [WatchNext]_watchVars
  PROVE  RowsInv'
<1> USE WatchAssumption
<1>1. /\ \A r \in Request : edit[r] \in EditRecord /\ SoundEdit(edit[r])
      /\ row \in [Ticker -> {"none", "active", "inactive"}] /\ edit \in [Request -> EditRecord]
  BY DEF RowsInv
\* A request moves; the rows are as they were or one was written.
<1>2. ASSUME NEW r \in Request, NEW e \in EditRecord,
             edit' = [edit EXCEPT ![r] = e], SoundEdit(e),
             row' \in [Ticker -> {"none", "active", "inactive"}]
      PROVE  RowsInv'
  <2>1. edit' \in [Request -> EditRecord] /\ \A q \in Request : SoundEdit(edit'[q])
    BY <1>1, <1>2
  <2>2. \A q \in Request : SoundEdit(edit[q])'
    BY <2>1 DEF SoundEdit
  <2> QED BY <1>2, <2>1, <2>2 DEF RowsInv
<1>3. ASSUME NEW r \in Request, Call(r) PROVE RowsInv'
  <2>1. PICK op \in {"add", "remove"}, t \in Ticker :
          edit' = [edit EXCEPT ![r] = [NoEdit EXCEPT !.at = "read", !.op = op, !.ticker = t]]
    BY <1>3 DEF Call
  <2> DEFINE e == [NoEdit EXCEPT !.at = "read", !.op = op, !.ticker = t]
  <2>2. e \in EditRecord /\ e.at = "read" /\ e.op = op /\ e.ticker = t
    <3>1. NoEdit \in EditRecord
      BY DEF NoEdit, EditRecord
    <3> QED BY <3>1 DEF EditRecord
  <2>3. row' = row
    BY <1>3 DEF Call
  <2> HIDE DEF e
  <2>4. SoundEdit(e)
    BY <2>2 DEF SoundEdit
  <2> QED BY <1>1, <1>2, <2>1, <2>2, <2>3, <2>4 DEF e
<1>4. ASSUME NEW r \in Request, ReadRow(r) PROVE RowsInv'
  <2>1. PICK read \in {"none", "active", "inactive"} : read = row[edit[r].ticker]
    BY <1>1, <1>4 DEF ReadRow, SoundEdit
  <2>2. PICK o \in {"done", "rejected", "write"} : o = Outcome(edit[r].op, read)
    BY DEF Outcome
  <2>3. o = "write" /\ read = "none" /\ edit[r].op \in {"add", "remove"} => edit[r].op = "add"
    BY <2>2 DEF Outcome
  <2> DEFINE e == [edit[r] EXCEPT !.at = o, !.read = read]
  <2>4. edit' = [edit EXCEPT ![r] = e] /\ row' = row /\ edit[r].at = "read"
    BY <1>1, <1>4, <2>1, <2>2 DEF ReadRow
  <2>5. /\ e \in EditRecord /\ e.at = o /\ e.op = edit[r].op /\ e.ticker = edit[r].ticker
        /\ e.read = read
    BY <1>1 DEF EditRecord
  <2> HIDE DEF e
  <2>6. SoundEdit(e)
    BY <1>1, <2>3, <2>4, <2>5 DEF SoundEdit
  <2> QED BY <1>1, <1>2, <2>4, <2>5, <2>6
<1>5. ASSUME NEW r \in Request, NEW o \in {"done", "rejected"},
             edit[r].at # "idle",
             edit' = [edit EXCEPT ![r].at = o],
             row' \in [Ticker -> {"none", "active", "inactive"}]
      PROVE  RowsInv'
  <2> DEFINE e == [edit[r] EXCEPT !.at = o]
  <2>1. /\ e \in EditRecord /\ e.at = o /\ e.op = edit[r].op /\ e.ticker = edit[r].ticker
    BY <1>1 DEF EditRecord
  <2>2. edit' = [edit EXCEPT ![r] = e]
    BY <1>1, <1>5
  <2> HIDE DEF e
  <2>3. SoundEdit(e)
    BY <1>1, <1>5, <2>1 DEF SoundEdit
  <2> QED BY <1>1, <1>2, <1>5, <2>1, <2>2, <2>3
<1>6. ASSUME NEW r \in Request, WriteRow(r) PROVE RowsInv'
  <2>1. edit[r].at = "write" /\ row' \in [Ticker -> {"none", "active", "inactive"}]
    BY <1>1, <1>6 DEF WriteRow
  <2>2. edit' = [edit EXCEPT ![r].at = "rejected"] \/ edit' = [edit EXCEPT ![r].at = "done"]
    BY <1>6 DEF WriteRow
  <2> QED BY <1>5, <2>1, <2>2
<1>7. ASSUME NEW r \in Request, RequestErrs(r) PROVE RowsInv'
  <2>1. /\ edit[r].at # "idle" /\ row' = row
        /\ edit' = [edit EXCEPT ![r].at = "rejected"]
    BY <1>7 DEF RequestErrs
  <2> QED BY <1>1, <1>5, <2>1
<1>8. ASSUME UNCHANGED <<row, edit>> PROVE RowsInv'
  BY <1>8 DEF RowsInv, SoundEdit
<1>9. CASE Beat \/ \E d \in Daily : DailyStep(d)
  BY <1>8, <1>9 DEF Beat, DailyStep, TakeDaily, ReadActive, Publish, Sends, DailyRaises,
                    PublishedAll, RedeliverDaily
<1>10. CASE UNCHANGED watchVars
  BY <1>8, <1>10 DEF watchVars
<1> QED BY <1>3, <1>4, <1>6, <1>7, <1>9, <1>10 DEF WatchNext

\* The steps of the watchlist are steps of its promise or change nothing of it.
LEMMA StepsArePromised ==
  ASSUME RowsInv, [WatchNext]_watchVars
  PROVE  [Promise!PromiseNext]_<<Listed, [r \in Request |-> promised(r)]>>
<1> USE WatchAssumption
<1>1. /\ \A r \in Request : edit[r] \in EditRecord /\ SoundEdit(edit[r])
      /\ row \in [Ticker -> {"none", "active", "inactive"}] /\ edit \in [Request -> EditRecord]
  BY DEF RowsInv
\* What is promised is read off the rows and the requests.
<1>2. ASSUME UNCHANGED <<row, edit>>
      PROVE  UNCHANGED <<Listed, [r \in Request |-> promised(r)]>>
  BY <1>2 DEF Listed, promised
<1>3. ASSUME NEW r \in Request, NEW e, edit' = [edit EXCEPT ![r] = e]
      PROVE  [q \in Request |-> promised(q)]' =
               [[q \in Request |-> promised(q)] EXCEPT ![r] =
                  [op |-> e.op, ticker |-> e.ticker,
                   is |-> CASE e.at = "idle" -> "unmade"
                            [] e.at \in {"read", "write"} -> "pending"
                            [] OTHER -> e.at]]
  BY <1>1, <1>3 DEF promised
<1>4. ASSUME NEW r \in Request, Call(r)
      PROVE  Promise!Make(r)
  <2>1. PICK op \in {"add", "remove"}, t \in Ticker :
          edit' = [edit EXCEPT ![r] = [NoEdit EXCEPT !.at = "read", !.op = op, !.ticker = t]]
    BY <1>4 DEF Call
  <2>2. PICK e \in EditRecord :
          e = [NoEdit EXCEPT !.at = "read", !.op = op, !.ticker = t]
    <3>1. NoEdit \in EditRecord
      BY DEF NoEdit, EditRecord
    <3> QED BY <3>1 DEF EditRecord
  <2>3. e.at = "read" /\ e.op = op /\ e.ticker = t
    <3>1. NoEdit \in EditRecord
      BY DEF NoEdit, EditRecord
    <3> QED BY <2>2, <3>1 DEF EditRecord
  <2>4. promised(r) = [op |-> "none", ticker |-> NoTicker, is |-> "unmade"]
    BY <1>1, <1>4 DEF Call, SoundEdit, promised, NoEdit
  <2>5. [q \in Request |-> promised(q)]' =
          [[q \in Request |-> promised(q)] EXCEPT ![r] =
             [op |-> op, ticker |-> t, is |-> "pending"]]
    BY <1>3, <2>1, <2>2, <2>3
  <2>6. [op |-> op, ticker |-> t] \in Promise!Calls
    BY DEF Promise!Calls
  <2>7. UNCHANGED Listed
    BY <1>4 DEF Call, Listed
  <2> QED BY <2>4, <2>5, <2>6, <2>7 DEF Promise!Make, Promise!Unmade, Promise!NoTicker, NoTicker
\* A request that was made ends, well or not.
<1>5. ASSUME NEW r \in Request, NEW o \in {"done", "rejected"}, NEW e \in EditRecord,
             edit[r].at \in {"read", "write"}, edit' = [edit EXCEPT ![r] = e],
             e.at = o, e.op = edit[r].op, e.ticker = edit[r].ticker
      PROVE  /\ promised(r).is = "pending" /\ promised(r).op = edit[r].op
             /\ promised(r).ticker = edit[r].ticker
             /\ [q \in Request |-> promised(q)]' =
                  [[q \in Request |-> promised(q)] EXCEPT ![r].is = o]
  <2>1. promised(r) = [op |-> edit[r].op, ticker |-> edit[r].ticker, is |-> "pending"]
    BY <1>5 DEF promised
  <2>2. [promised(r) EXCEPT !.is = o] = [op |-> e.op, ticker |-> e.ticker, is |-> o]
    BY <1>5, <2>1
  <2>3. [q \in Request |-> promised(q)]' =
          [[q \in Request |-> promised(q)] EXCEPT ![r] = [op |-> e.op, ticker |-> e.ticker, is |-> o]]
    BY <1>3, <1>5
  <2>4. PICK f : f = [q \in Request |-> promised(q)]
    OBVIOUS
  <2>5. f \in [Request -> {f[q] : q \in Request}] /\ f[r] = promised(r)
    BY <2>4
  <2>6. [f EXCEPT ![r].is = o] = [f EXCEPT ![r] = [promised(r) EXCEPT !.is = o]]
    BY <2>5
  <2>7. [q \in Request |-> promised(q)]' = [f EXCEPT ![r].is = o]
    BY <2>2, <2>3, <2>4, <2>6
  <2> QED BY <2>1, <2>4, <2>7
<1>6. ASSUME NEW r \in Request, NEW e \in EditRecord,
             edit[r].at \in {"read", "write"}, edit' = [edit EXCEPT ![r] = e],
             e.at = "rejected", e.op = edit[r].op, e.ticker = edit[r].ticker, row' = row
      PROVE  Promise!Reject(r)
  BY <1>5, <1>6 DEF Promise!Reject, Listed
<1>7. ASSUME NEW r \in Request, NEW e \in EditRecord,
             edit[r].at \in {"read", "write"}, edit' = [edit EXCEPT ![r] = e],
             e.at = "done", e.op = edit[r].op, e.ticker = edit[r].ticker,
             Listed' = IF e.op = "add" THEN Listed \cup {e.ticker} ELSE Listed \ {e.ticker}
      PROVE  Promise!Effect(r)
  BY <1>5, <1>7 DEF Promise!Effect
<1>8. ASSUME NEW r \in Request, ReadRow(r)
      PROVE  \/ Promise!Effect(r) \/ Promise!Reject(r)
             \/ UNCHANGED <<Listed, [q \in Request |-> promised(q)]>>
  <2>1. PICK read \in {"none", "active", "inactive"} : read = row[edit[r].ticker]
    BY <1>1, <1>8 DEF ReadRow, SoundEdit
  <2>2. PICK o : o = Outcome(edit[r].op, read)
    OBVIOUS
  <2>3. edit[r].ticker \in Ticker /\ edit[r].op \in {"add", "remove"}
    BY <1>1, <1>8 DEF ReadRow, SoundEdit
  <2>4. \/ o = "done" /\ edit[r].op = "add" /\ read = "active"
        \/ o = "done" /\ edit[r].op = "remove" /\ read = "inactive"
        \/ o = "rejected" \/ o = "write"
    BY <2>2, <2>3 DEF Outcome
  <2>5. PICK e : e = [edit[r] EXCEPT !.at = o, !.read = read]
    OBVIOUS
  <2>6. edit' = [edit EXCEPT ![r] = e] /\ row' = row /\ edit[r].at = "read" /\ Listed' = Listed
    BY <1>1, <1>8, <2>1, <2>2, <2>5 DEF ReadRow, Listed
  <2>7. /\ e \in EditRecord /\ e.at = o /\ e.op = edit[r].op /\ e.ticker = edit[r].ticker
    BY <1>1, <2>4, <2>5 DEF EditRecord
  <2>8. CASE o = "done"
    <3>1. Listed' = IF e.op = "add" THEN Listed \cup {e.ticker} ELSE Listed \ {e.ticker}
      BY <2>1, <2>3, <2>4, <2>6, <2>7, <2>8 DEF Listed
    <3> QED BY <1>7, <2>6, <2>7, <2>8, <3>1
  <2>9. CASE o = "rejected"
    BY <1>6, <2>6, <2>7, <2>9
  <2>10. CASE o = "write"
    <3>1. promised(r) = [op |-> e.op, ticker |-> e.ticker, is |-> "pending"]
      BY <2>6, <2>7 DEF promised
    <3>2. [q \in Request |-> promised(q)]' =
            [[q \in Request |-> promised(q)] EXCEPT ![r] = promised(r)]
      BY <1>3, <2>6, <2>7, <2>10, <3>1
    <3>3. PICK f : f = [q \in Request |-> promised(q)]
      OBVIOUS
    <3>4. f \in [Request -> {f[q] : q \in Request}] /\ f[r] = promised(r)
      BY <3>3
    <3>5. [f EXCEPT ![r] = promised(r)] = f
      BY <3>4
    <3>6. UNCHANGED [q \in Request |-> promised(q)]
      BY <3>2, <3>3, <3>5
    <3> QED BY <2>6, <3>6
  <2> QED BY <2>4, <2>8, <2>9, <2>10
<1>9. ASSUME NEW r \in Request, WriteRow(r)
      PROVE  Promise!Effect(r) \/ Promise!Reject(r)
  <2>1. /\ edit[r].at = "write" /\ edit[r].ticker \in Ticker /\ edit[r].op \in {"add", "remove"}
    BY <1>1, <1>9 DEF WriteRow, SoundEdit
  <2>2. CASE edit[r].read = "none" /\ row[edit[r].ticker] # "none"
    <3>1. PICK e : e = [edit[r] EXCEPT !.at = "rejected"]
      OBVIOUS
    <3>2. edit' = [edit EXCEPT ![r] = e] /\ row' = row
      BY <1>1, <1>9, <2>2, <3>1 DEF WriteRow
    <3>3. /\ e \in EditRecord /\ e.at = "rejected" /\ e.op = edit[r].op
          /\ e.ticker = edit[r].ticker
      BY <1>1, <3>1 DEF EditRecord
    <3> QED BY <1>6, <2>1, <3>2, <3>3
  <2>3. CASE ~(edit[r].read = "none" /\ row[edit[r].ticker] # "none")
    <3>1. PICK e : e = [edit[r] EXCEPT !.at = "done"]
      OBVIOUS
    <3>2. /\ edit' = [edit EXCEPT ![r] = e]
          /\ row' = [row EXCEPT ![edit[r].ticker] =
                       IF edit[r].op = "add" THEN "active" ELSE "inactive"]
      BY <1>1, <1>9, <2>3, <3>1 DEF WriteRow
    <3>3. /\ e \in EditRecord /\ e.at = "done" /\ e.op = edit[r].op
          /\ e.ticker = edit[r].ticker
      BY <1>1, <3>1 DEF EditRecord
    <3>4. Listed' = IF e.op = "add" THEN Listed \cup {e.ticker} ELSE Listed \ {e.ticker}
      BY <1>1, <2>1, <3>2, <3>3 DEF Listed
    <3> QED BY <1>7, <2>1, <3>2, <3>3, <3>4
  <2> QED BY <2>2, <2>3
<1>10. ASSUME NEW r \in Request, RequestErrs(r) PROVE Promise!Reject(r)
  <2>1. PICK e : e = [edit[r] EXCEPT !.at = "rejected"]
    OBVIOUS
  <2>2. edit' = [edit EXCEPT ![r] = e] /\ row' = row /\ edit[r].at \in {"read", "write"}
    BY <1>1, <1>10, <2>1 DEF RequestErrs
  <2>3. /\ e \in EditRecord /\ e.at = "rejected" /\ e.op = edit[r].op
        /\ e.ticker = edit[r].ticker
    BY <1>1, <2>1 DEF EditRecord
  <2> QED BY <1>6, <2>2, <2>3
<1>11. CASE Beat \/ \E d \in Daily : DailyStep(d)
  BY <1>2, <1>11 DEF Beat, DailyStep, TakeDaily, ReadActive, Publish, Sends, DailyRaises,
                     PublishedAll, RedeliverDaily
<1>12. CASE UNCHANGED watchVars
  BY <1>2, <1>12 DEF watchVars
<1> QED
  BY <1>4, <1>8, <1>9, <1>10, <1>11, <1>12 DEF WatchNext, Promise!PromiseNext

\* The requests, read and write apart, behave as if each were done at one
\* moment between its call and its answer.
THEOREM WatchlistKeepsPromise == WatchSpec => ImplementsWatchlistPromise
<1>1. WatchInit => RowsInv
  BY DEF WatchInit, RowsInv, SoundEdit, NoEdit, EditRecord
<1>2. WatchInit => Promise!PromiseInit
  <2> SUFFICES ASSUME WatchInit PROVE Promise!PromiseInit
    OBVIOUS
  <2>1. \A r \in Request : promised(r) = [op |-> "none", ticker |-> NoTicker, is |-> "unmade"]
    BY DEF WatchInit, promised, NoEdit
  <2>2. Listed \in SUBSET Ticker
    BY DEF Listed
  <2> QED
    BY <2>1, <2>2 DEF Promise!PromiseInit, Promise!Unmade, Promise!NoTicker, NoTicker
<1> QED
  BY <1>1, <1>2, RowsGoOn, StepsArePromised, PTL
     DEF WatchSpec, ImplementsWatchlistPromise, Promise!PromiseSpec, Promise!promiseVars

-----------------------------------------------------------------------------
(***************************************************************************)
(* The daily runs.  What a delivery of the message has not in hand any     *)
(* more of the list it read, it has published, and once.                   *)
(***************************************************************************)

DailyRecord == [at : {"none", "queued", "reading", "publish", "done", "failed", "lost"},
                listed : SUBSET Ticker, todo : SUBSET Ticker]

SoundDaily(e) ==
  /\ e.todo \subseteq e.listed
  /\ e.at \in {"none", "queued", "reading"} => e.listed = {}
  /\ e.at = "done" => e.todo = {}

\* The deliveries that have published a run for a ticker.
PublishersOf(t) == {d \in Daily : t \in daily[d].listed \ daily[d].todo}

DailyInv ==
  /\ published \in [Ticker -> Nat]
  /\ daily \in [Daily -> DailyRecord]
  /\ \A d \in Daily : SoundDaily(daily[d])
  /\ \A t \in Ticker : published[t] = Cardinality(PublishersOf(t))

LEMMA DailiesAreFinite == IsFiniteSet(Daily)
<1>1. 1 \in Int /\ MaxDailies \in Int
  BY WatchAssumption
<1> QED BY <1>1, FS_Interval DEF Daily

\* A step that publishes nothing leaves every ticker's publishers alone.
LEMMA QuietDaily ==
  ASSUME DailyInv, daily' \in [Daily -> DailyRecord],
         \A d \in Daily : SoundDaily(daily'[d]),
         \A d \in Daily : daily'[d].listed \ daily'[d].todo = daily[d].listed \ daily[d].todo,
         published' = published
  PROVE  DailyInv'
<1>1. \A d \in Daily : SoundDaily(daily[d])'
  BY DEF SoundDaily
<1>2. ASSUME NEW t \in Ticker PROVE PublishersOf(t)' = PublishersOf(t)
  BY DEF PublishersOf
<1>3. ASSUME NEW t \in Ticker PROVE Cardinality(PublishersOf(t))' = published'[t]
  BY <1>2 DEF DailyInv
<1> QED BY <1>1, <1>3 DEF DailyInv

\* One delivery moves to another stage and publishes nothing.
LEMMA DailyMoves ==
  ASSUME DailyInv, NEW d \in Daily,
         NEW at \in {"queued", "reading", "publish", "done", "failed", "lost"},
         DailyGoes(d, at), published' = published,
         at \in {"queued", "reading"} => daily[d].at \in {"none", "queued", "reading"},
         at = "done" => daily[d].todo = {}
  PROVE  DailyInv'
<1>1. daily \in [Daily -> DailyRecord] /\ SoundDaily(daily[d])
  BY DEF DailyInv
<1>2. PICK e : e = [daily[d] EXCEPT !.at = at]
  OBVIOUS
<1>3. e \in DailyRecord /\ e.at = at /\ e.listed = daily[d].listed /\ e.todo = daily[d].todo
  BY <1>1, <1>2 DEF DailyRecord
<1>4. daily' = [daily EXCEPT ![d] = e]
  BY <1>1, <1>2 DEF DailyGoes
<1>5. SoundDaily(e)
  BY <1>1, <1>3 DEF SoundDaily
<1>6. \A c \in Daily : SoundDaily(daily[c])
  BY DEF DailyInv
<1>7. daily' \in [Daily -> DailyRecord] /\ \A c \in Daily : SoundDaily(daily'[c])
  BY <1>1, <1>3, <1>4, <1>5, <1>6
<1>8. \A c \in Daily : daily'[c].listed \ daily'[c].todo = daily[c].listed \ daily[c].todo
  BY <1>1, <1>3, <1>4
<1> QED BY <1>7, <1>8, QuietDaily

\* A delivery gets out one run, of a ticker it had still to do.
LEMMA DailySends ==
  ASSUME DailyInv, NEW d \in Daily, NEW at \in {"publish", "failed"}, Sends(d, at),
         daily[d].at = "publish"
  PROVE  DailyInv'
<1>1. /\ daily \in [Daily -> DailyRecord] /\ published \in [Ticker -> Nat]
      /\ \A c \in Daily : SoundDaily(daily[c])
  BY DEF DailyInv
<1>2. PICK t \in daily[d].todo :
        /\ published' = [published EXCEPT ![t] = @ + 1]
        /\ daily' = [daily EXCEPT ![d].todo = @ \ {t}, ![d].at = at]
  BY DEF Sends
<1>3. PICK e : e = [daily[d] EXCEPT !.todo = @ \ {t}, !.at = at]
  OBVIOUS
<1>4. /\ e \in DailyRecord /\ e.at = at /\ e.listed = daily[d].listed
      /\ e.todo = daily[d].todo \ {t}
  <2>1. daily[d] \in DailyRecord /\ daily[d].todo \ {t} \in SUBSET Ticker
    BY <1>1 DEF DailyRecord
  <2> QED BY <1>3, <2>1 DEF DailyRecord
<1>5. daily' = [daily EXCEPT ![d] = e]
  BY <1>1, <1>2, <1>3
<1>6. t \in Ticker /\ t \in daily[d].listed
  BY <1>1 DEF SoundDaily, DailyRecord
<1>7. SoundDaily(e)
  BY <1>1, <1>4 DEF SoundDaily
<1>8. daily' \in [Daily -> DailyRecord] /\ \A c \in Daily : SoundDaily(daily'[c])
  BY <1>1, <1>4, <1>5, <1>7
<1>9. \A c \in Daily : SoundDaily(daily[c])'
  BY <1>8 DEF SoundDaily
<1>10. published' \in [Ticker -> Nat]
  <2>1. PICK n \in Nat : n = published[t] + 1
    BY <1>1, <1>6
  <2> QED BY <1>1, <1>2, <2>1
<1>11. ASSUME NEW u \in Ticker
       PROVE  published'[u] = Cardinality(PublishersOf(u))'
  <2>1. PICK old, new : old = PublishersOf(u) /\ new = PublishersOf(u)'
    OBVIOUS
  <2>2. published[u] = Cardinality(old) /\ old \subseteq Daily
    BY <2>1 DEF DailyInv, PublishersOf
  <2>3. IsFiniteSet(old)
    BY <2>2, DailiesAreFinite, FS_Subset
  <2>4. CASE u = t
    <3>1. new = old \cup {d} /\ d \notin old
      BY <1>1, <1>4, <1>5, <1>6, <2>1, <2>4 DEF PublishersOf
    <3>2. Cardinality(new) = Cardinality(old) + 1
      BY <2>3, <3>1, FS_AddElement
    <3>3. published'[u] = published[u] + 1
      BY <1>1, <1>2, <1>6, <2>4
    <3> QED BY <2>1, <2>2, <3>2, <3>3
  <2>5. CASE u # t
    <3>1. new = old
      BY <1>1, <1>4, <1>5, <2>1, <2>5 DEF PublishersOf
    <3>2. published'[u] = published[u]
      BY <1>1, <1>2, <2>5
    <3> QED BY <2>1, <2>2, <3>1, <3>2
  <2> QED BY <2>4, <2>5
<1> QED BY <1>8, <1>9, <1>10, <1>11 DEF DailyInv

LEMMA DailyGoesOn ==
  ASSUME DailyInv, [WatchNext]_watchVars
  PROVE  DailyInv'
<1>1. /\ daily \in [Daily -> DailyRecord] /\ published \in [Ticker -> Nat]
      /\ \A d \in Daily : SoundDaily(daily[d])
  BY DEF DailyInv
<1>2. CASE UNCHANGED <<daily, published>>
  BY <1>1, <1>2, QuietDaily
<1>3. CASE Beat
  <2>1. 1 \in Daily
    BY WatchAssumption DEF Daily
  <2> QED BY <1>3, <2>1, DailyMoves DEF Beat
<1>4. ASSUME NEW d \in Daily, TakeDaily(d) PROVE DailyInv'
  <2>1. PICK at \in {"reading", "done"} : DailyGoes(d, at)
    BY <1>4 DEF TakeDaily
  <2>2. daily[d].at = "queued" /\ published' = published
    BY <1>4 DEF TakeDaily
  <2>3. daily[d].todo = {}
    BY <1>1, <2>2 DEF SoundDaily
  <2> QED BY <2>1, <2>2, <2>3, DailyMoves
<1>5. ASSUME NEW d \in Daily, ReadActive(d) PROVE DailyInv'
  <2>1. PICK e : e = [at |-> "publish", listed |-> Listed, todo |-> Listed]
    OBVIOUS
  <2>2. daily' = [daily EXCEPT ![d] = e] /\ published' = published /\ daily[d].at = "reading"
    BY <1>5, <2>1 DEF ReadActive
  <2>3. e \in DailyRecord /\ e.listed \ e.todo = {} /\ SoundDaily(e)
    BY <2>1 DEF DailyRecord, Listed, SoundDaily
  <2>4. daily[d].listed \ daily[d].todo = {}
    BY <1>1, <2>2 DEF SoundDaily
  <2>5. daily' \in [Daily -> DailyRecord] /\ \A c \in Daily : SoundDaily(daily'[c])
    BY <1>1, <2>2, <2>3
  <2>6. \A c \in Daily : daily'[c].listed \ daily'[c].todo = daily[c].listed \ daily[c].todo
    BY <1>1, <2>2, <2>3, <2>4
  <2> QED BY <2>2, <2>5, <2>6, QuietDaily
<1>6. ASSUME NEW d \in Daily, Publish(d) PROVE DailyInv'
  BY <1>6, DailySends DEF Publish
<1>7. ASSUME NEW d \in Daily, DailyRaises(d) PROVE DailyInv'
  <2>1. CASE DailyGoes(d, "failed") /\ published' = published
    BY <2>1, DailyMoves
  <2>2. CASE daily[d].at = "publish" /\ Sends(d, "failed")
    BY <2>2, DailySends
  <2> QED BY <1>7, <2>1, <2>2 DEF DailyRaises
<1>8. ASSUME NEW d \in Daily, PublishedAll(d) PROVE DailyInv'
  <2>1. DailyGoes(d, "done") /\ published' = published /\ daily[d].todo = {}
    BY <1>8 DEF PublishedAll
  <2> QED BY <2>1, DailyMoves
<1>9. ASSUME NEW d \in Daily, RedeliverDaily(d) PROVE DailyInv'
  <2>1. d + 1 \in Daily /\ daily[d + 1].at = "none" /\ published' = published
    BY <1>9 DEF RedeliverDaily
  <2>2. CASE DailyGoes(d + 1, "queued")
    BY <2>1, <2>2, DailyMoves
  <2>3. CASE daily' = [daily EXCEPT ![d].at = "lost", ![d + 1].at = "queued"]
    <3>1. PICK e, f : e = [daily[d] EXCEPT !.at = "lost"] /\ f = [daily[d + 1] EXCEPT !.at = "queued"]
      OBVIOUS
    <3>2. /\ e \in DailyRecord /\ e.at = "lost"
          /\ e.listed = daily[d].listed /\ e.todo = daily[d].todo
      BY <1>1, <3>1 DEF DailyRecord
    <3>3. /\ f \in DailyRecord /\ f.at = "queued"
          /\ f.listed = daily[d + 1].listed /\ f.todo = daily[d + 1].todo
      BY <1>1, <2>1, <3>1 DEF DailyRecord
    <3>4. d # d + 1
      BY DEF Daily
    <3>5. daily' = [daily EXCEPT ![d] = e, ![d + 1] = f]
      BY <1>1, <2>1, <2>3, <3>1, <3>4
    <3>6. SoundDaily(e) /\ SoundDaily(f)
      BY <1>1, <2>1, <3>2, <3>3 DEF SoundDaily
    <3>7. /\ daily' \in [Daily -> DailyRecord] /\ daily'[d] = e /\ daily'[d + 1] = f
          /\ \A c \in Daily \ {d, d + 1} : daily'[c] = daily[c]
      BY <1>1, <2>1, <3>2, <3>3, <3>4, <3>5
    <3>8. \A c \in Daily : SoundDaily(daily'[c])
      BY <1>1, <3>6, <3>7
    <3>9. \A c \in Daily : daily'[c].listed \ daily'[c].todo = daily[c].listed \ daily[c].todo
      BY <3>2, <3>3, <3>7
    <3> QED BY <2>1, <3>7, <3>8, <3>9, QuietDaily
  <2> QED BY <1>9, <2>2, <2>3 DEF RedeliverDaily
<1>10. ASSUME NEW r \in Request, Call(r) \/ ReadRow(r) \/ WriteRow(r) \/ RequestErrs(r)
       PROVE  DailyInv'
  BY <1>2, <1>10 DEF Call, ReadRow, WriteRow, RequestErrs
<1>11. CASE UNCHANGED watchVars
  BY <1>2, <1>11 DEF watchVars
<1> QED
  BY <1>3, <1>4, <1>5, <1>6, <1>7, <1>8, <1>9, <1>10, <1>11 DEF WatchNext, DailyStep

\* What was published goes with the lists of the deliveries at all times.
LEMMA DailyIsInvariant == WatchSpec => []DailyInv
<1>1. ASSUME WatchInit PROVE DailyInv
  <2>1. daily \in [Daily -> DailyRecord] /\ published \in [Ticker -> Nat]
    BY <1>1 DEF WatchInit, NoDaily, DailyRecord
  <2>2. \A d \in Daily : SoundDaily(daily[d])
    BY <1>1 DEF WatchInit, NoDaily, SoundDaily
  <2>3. \A t \in Ticker : published[t] = 0 /\ PublishersOf(t) = {}
    BY <1>1 DEF WatchInit, NoDaily, PublishersOf
  <2> QED BY <2>1, <2>2, <2>3, FS_EmptySet DEF DailyInv
<1> QED BY <1>1, DailyGoesOn, PTL DEF WatchSpec

\* A daily task that ends well has published its whole list, and a second run
\* for a ticker on the same day is of a second delivery of the message: no
\* delivery, dead or alive, publishes a ticker twice or one it has not listed.
THEOREM DailyRunsHaveReasons == WatchSpec => []DailyRunsAreExplained
<1>1. DailyInv => RunsBelongToDeliveries
  BY DEF DailyInv, RunsBelongToDeliveries, PublishersOf
<1>2. DailyInv => FinishedDailyIsWhole
  <2> SUFFICES ASSUME DailyInv, NEW d \in Daily, daily[d].at = "done", NEW t \in daily[d].listed
               PROVE  published[t] > 0
    BY DEF FinishedDailyIsWhole
  <2>1. t \in Ticker /\ d \in PublishersOf(t) /\ PublishersOf(t) \subseteq Daily
    BY DEF DailyInv, DailyRecord, SoundDaily, PublishersOf
  <2>2. IsFiniteSet(PublishersOf(t))
    BY <2>1, DailiesAreFinite, FS_Subset
  <2>3. Cardinality(PublishersOf(t)) # 0 /\ Cardinality(PublishersOf(t)) \in Nat
    BY <2>1, <2>2, FS_EmptySet, FS_CardinalityType
  <2> QED BY <2>1, <2>3 DEF DailyInv
<1> QED BY <1>1, <1>2, DailyIsInvariant, PTL DEF DailyRunsAreExplained

-----------------------------------------------------------------------------
(***************************************************************************)
(* The tax summary.  The fill of a row comes before its insert.            *)
(***************************************************************************)

TradeRecord == [at : {"none", "placed", "filled", "row", "open_row"},
                action : {"BUY", "SELL"}, submitted : Nat, filled : Nat]

SoundTrade(t, moment) ==
  /\ t.filled <= moment /\ t.submitted <= moment
  /\ t.at = "row" => t.filled <= t.submitted

TaxInv ==
  /\ today \in Nat
  /\ trade \in [TaxOrder -> TradeRecord]
  /\ \A o \in TaxOrder : SoundTrade(trade[o], today)

LEMMA TaxGoesOn ==
  ASSUME TaxInv, [TaxNext]_taxVars
  PROVE  TaxInv'
<1> USE TaxAssumption
<1>1. /\ \A o \in TaxOrder : trade[o] \in TradeRecord /\ SoundTrade(trade[o], today)
      /\ today \in Nat /\ trade \in [TaxOrder -> TradeRecord]
  BY DEF TaxInv
<1>2. ASSUME NEW o \in TaxOrder, NEW t \in TradeRecord, SoundTrade(t, today),
             trade' = [trade EXCEPT ![o] = t], today' = today
      PROVE  TaxInv'
  <2>1. trade' \in [TaxOrder -> TradeRecord] /\ \A q \in TaxOrder : SoundTrade(trade'[q], today)
    BY <1>1, <1>2
  <2>2. \A q \in TaxOrder : SoundTrade(trade[q], today)'
    BY <1>2, <2>1 DEF SoundTrade
  <2> QED BY <1>1, <1>2, <2>1, <2>2 DEF TaxInv
<1>3. ASSUME NEW o \in TaxOrder, Submit(o) PROVE TaxInv'
  <2>1. PICK a \in {"BUY", "SELL"} :
          trade' = [trade EXCEPT ![o] = [NoTrade EXCEPT !.at = "placed", !.action = a]]
    BY <1>3 DEF Submit
  <2>2. NoTrade \in TradeRecord /\ NoTrade.filled = 0 /\ NoTrade.submitted = 0
    BY DEF NoTrade, TradeRecord
  <2>3. PICK t : t = [NoTrade EXCEPT !.at = "placed", !.action = a]
    OBVIOUS
  <2>4. t \in TradeRecord /\ t.at = "placed" /\ t.filled = 0 /\ t.submitted = 0
    BY <2>2, <2>3 DEF TradeRecord
  <2>5. SoundTrade(t, today)
    BY <1>1, <2>4 DEF SoundTrade
  <2> QED BY <1>2, <1>3, <2>1, <2>3, <2>4, <2>5 DEF Submit
<1>4. ASSUME NEW o \in TaxOrder, FillOrder(o) PROVE TaxInv'
  <2>1. PICK t : t = [trade[o] EXCEPT !.at = "filled", !.filled = today]
    OBVIOUS
  <2>2. /\ t \in TradeRecord /\ t.at = "filled" /\ t.filled = today
        /\ t.submitted = trade[o].submitted
    BY <1>1, <2>1 DEF TradeRecord
  <2>3. trade' = [trade EXCEPT ![o] = t] /\ today' = today
    BY <1>1, <1>4, <2>1 DEF FillOrder
  <2>4. SoundTrade(t, today)
    BY <1>1, <2>2 DEF SoundTrade
  <2> QED BY <1>2, <2>2, <2>3, <2>4
<1>5. ASSUME NEW o \in TaxOrder, InsertRow(o) PROVE TaxInv'
  <2>1. PICK at \in {"open_row", "row"} :
          /\ trade' = [trade EXCEPT ![o].at = at, ![o].submitted = today]
          /\ at = "row" => trade[o].at = "filled"
    BY <1>5 DEF InsertRow
  <2>2. PICK t : t = [trade[o] EXCEPT !.at = at, !.submitted = today]
    OBVIOUS
  <2>3. /\ t \in TradeRecord /\ t.at = at /\ t.submitted = today
        /\ t.filled = trade[o].filled
    BY <1>1, <2>2 DEF TradeRecord
  <2>4. trade' = [trade EXCEPT ![o] = t] /\ today' = today
    BY <1>1, <1>5, <2>1, <2>2 DEF InsertRow
  <2>5. SoundTrade(t, today)
    BY <1>1, <2>1, <2>3 DEF SoundTrade
  <2> QED BY <1>2, <2>3, <2>4, <2>5
<1>6. CASE Clock
  <2>1. today' \in Nat /\ today < today' /\ trade' = trade
    BY <1>6 DEF Clock
  <2>2. ASSUME NEW o \in TaxOrder PROVE SoundTrade(trade[o], today)'
    <3>1. trade[o].filled \in Nat /\ trade[o].submitted \in Nat
      BY <1>1 DEF TradeRecord
    <3> QED BY <1>1, <2>1, <3>1 DEF SoundTrade
  <2> QED BY <1>1, <2>1, <2>2 DEF TaxInv
<1>7. CASE UNCHANGED taxVars
  BY <1>7 DEF taxVars, TaxInv, SoundTrade
<1> QED BY <1>3, <1>4, <1>5, <1>6, <1>7 DEF TaxNext

\* Fills are no later than the present at all times.
LEMMA TaxIsInvariant == TaxSpec => []TaxInv
<1>1. TaxInit => TaxInv
  BY DEF TaxInit, TaxInv, NoTrade, TradeRecord, SoundTrade
<1> QED BY <1>1, TaxGoesOn, PTL DEF TaxSpec

\* A sale is in the summary of its own year or in none: the query's dates let
\* no sale into two years, nor into one that it was not filled in.
THEOREM SummariesAreOfSales == TaxSpec => []SummariesKeepTheirYear
<1>2. TaxInv => SummariesKeepTheirYear
  <2> SUFFICES ASSUME TaxInv PROVE SummariesKeepTheirYear
    OBVIOUS
  <2>1. \A y \in Year : y \in Nat
    BY TaxAssumption
  <2>2. \A o \in TaxOrder : trade[o].filled \in Nat
    BY DEF TaxInv, TradeRecord
  <2>3. CountedOnce
    <3> SUFFICES ASSUME NEW o \in TaxOrder, NEW y \in Year, NEW z \in Year,
                        InSummary(o, y), InSummary(o, z)
                 PROVE  y = z
      BY DEF CountedOnce
    <3>1. PICK f \in Nat : f = trade[o].filled
      BY <2>2
    <3>2. /\ 2 * (365 * y + 90) <= f /\ f <= 2 * (365 * (y + 1) + 89)
          /\ 2 * (365 * z + 90) <= f /\ f <= 2 * (365 * (z + 1) + 89)
      BY <3>1 DEF InSummary, Midnight, fy_start, fy_end
    <3> QED BY <2>1, <3>2
  <2>4. SalesAreOfTheYear
    <3> SUFFICES ASSUME NEW o \in TaxOrder, NEW y \in Year, InSummary(o, y)
                 PROVE  /\ fy_start(y) <= DateOf(trade[o].filled)
                        /\ DateOf(trade[o].filled) <= fy_end(y)
      BY DEF SalesAreOfTheYear
    <3>1. PICK f \in Nat : f = trade[o].filled
      BY <2>2
    <3>2. PICK d \in Nat : d = f \div 2 /\ 2 * d <= f /\ f <= 2 * d + 1
      BY SMT
    <3>3. 2 * (365 * y + 90) <= f /\ f <= 2 * (365 * (y + 1) + 89)
      BY <3>1 DEF InSummary, Midnight, fy_start, fy_end
    <3>4. 365 * y + 90 <= d /\ d <= 365 * (y + 1) + 89
      BY <2>1, <3>2, <3>3
    <3> QED BY <3>1, <3>2, <3>4 DEF DateOf, fy_start, fy_end
  <2> QED BY <2>3, <2>4 DEF SummariesKeepTheirYear
<1> QED BY <1>2, TaxIsInvariant, PTL

-----------------------------------------------------------------------------
(***************************************************************************)
(* The alerts.  A consumer counts its own letter, so no count is 0 and     *)
(* every stored letter has its alert, which is of the same commit; the     *)
(* letters of a ticker only become more.                                   *)
(***************************************************************************)

LetterRecord == [at : {"none", "added", "counted", "stored", "lost"},
                 ticker : LetterTicker \cup {"none"}, count : Nat]
RepeatedAlert == [type : {"repeated_dlq_failure"}, ticker : LetterTicker, count : Nat]

LettersOf(t) == {l \in Letter : letter[l].ticker = t}

SoundLetter(r) ==
  /\ r.at = "none" => r.ticker = "none"
  /\ r.at # "none" => r.ticker \in LetterTicker
  /\ r.at = "counted" => r.count > 0 /\ r.count <= Cardinality(LettersOf(r.ticker))
  /\ r.at = "stored" => \E a \in alerts : a.ticker = r.ticker

LettersInv ==
  /\ letter \in [Letter -> LetterRecord]
  /\ recent \subseteq Letter
  /\ \A l \in Letter : SoundLetter(letter[l])
  /\ alerts \subseteq RepeatedAlert
  /\ \A a \in alerts : a.count <= Cardinality(LettersOf(a.ticker)) + 1
  /\ \A a \in alerts : \E l \in Letter : letter[l].at = "stored" /\ letter[l].ticker = a.ticker
  /\ \A a \in AgentRun : /\ logged[a] # "started"
                         /\ attempt[a] = "stuck" => logged[a] = "none"
                         /\ attempt[a] \in {"none", "running"} => logged[a] = "none"
  /\ attempt \in [AgentRun -> {"none", "running", "stuck", "ended"}]
  /\ logged \in [AgentRun -> {"none", "success", "error"}]

LEMMA LettersAreCounted ==
  ASSUME NEW t
  PROVE  IsFiniteSet(LettersOf(t)) /\ Cardinality(LettersOf(t)) \in Nat
BY FS_Subset, FS_CardinalityType, LettersAssumption DEF LettersOf

\* One letter moves, keeping its ticker or getting its first.
LEMMA LetterMoves ==
  ASSUME LettersInv, NEW l \in Letter, NEW r \in LetterRecord,
         letter' = [letter EXCEPT ![l] = r], recent' \subseteq Letter,
         alerts \subseteq alerts', alerts' \subseteq RepeatedAlert,
         UNCHANGED attemptVars,
         letter[l].at = "none" \/ r.ticker = letter[l].ticker,
         r.at # "none" /\ r.ticker \in LetterTicker,
         r.at = "counted" => r.count > 0 /\ r.count <= Cardinality(LettersOf(r.ticker)),
         r.at = "stored" => \E a \in alerts' : a.ticker = r.ticker,
         letter[l].at # "stored",
         \A a \in alerts' : \/ a \in alerts
                            \/ /\ a.count <= Cardinality(LettersOf(a.ticker)) + 1
                               /\ r.at = "stored" /\ a.ticker = r.ticker
  PROVE  LettersInv'
<1> USE LettersAssumption
<1>1. /\ letter' \in [Letter -> LetterRecord] /\ letter'[l] = r
      /\ \A m \in Letter \ {l} : letter'[m] = letter[m]
  BY DEF LettersInv
<1>2. \A m \in Letter : SoundLetter(letter[m]) /\ letter[m] \in LetterRecord
  BY DEF LettersInv
<1>3. ASSUME NEW t \in LetterTicker
      PROVE  /\ Cardinality(LettersOf(t)) <= Cardinality(LettersOf(t)')
             /\ Cardinality(LettersOf(t)) \in Nat /\ Cardinality(LettersOf(t)') \in Nat
  <2>1. PICK S : S = LettersOf(t)'
    OBVIOUS
  <2>2. LettersOf(t) \subseteq S
    BY <1>1, <1>2, <2>1 DEF LettersOf, SoundLetter
  <2>3. S \subseteq Letter
    BY <2>1 DEF LettersOf
  <2>4. IsFiniteSet(S)
    BY <2>3, FS_Subset
  <2> QED BY <2>1, <2>2, <2>4, FS_Subset, FS_CardinalityType
<1>4. ASSUME NEW m \in Letter PROVE SoundLetter(letter[m])'
  <2>1. CASE m = l
    <3>1. r.at = "counted" => r.count > 0 /\ r.count <= Cardinality(LettersOf(r.ticker)')
      BY <1>3 DEF LetterRecord
    <3>2. letter'[m] = r
      BY <1>1, <2>1
    <3>3. r.at = "counted" => r.count <= Cardinality(LettersOf(letter[m].ticker))'
      BY <3>1, <3>2 DEF LettersOf
    <3> QED BY <3>1, <3>2, <3>3 DEF SoundLetter
  <2>2. CASE m # l
    <3>1. PICK x \in LetterRecord : x = letter[m]
      BY <1>2
    <3>2. x = letter'[m] /\ SoundLetter(x)
      BY <1>1, <1>2, <2>2, <3>1
    <3>3. x.at = "counted" => x.count > 0 /\ x.count <= Cardinality(LettersOf(x.ticker)')
      BY <1>3, <3>2 DEF SoundLetter, LetterRecord
    <3>4. x.at = "counted" => x.count <= Cardinality(LettersOf(letter[m].ticker))'
      BY <3>2, <3>3 DEF LettersOf
    <3>5. x.at = "stored" => \E a \in alerts' : a.ticker = x.ticker
      BY <3>2 DEF SoundLetter
    <3> QED BY <3>2, <3>3, <3>4, <3>5 DEF SoundLetter
  <2> QED BY <2>1, <2>2
<1>5. ASSUME NEW a \in alerts' PROVE a.count <= Cardinality(LettersOf(a.ticker)') + 1
  <2>1. a.ticker \in LetterTicker /\ a.count \in Nat
    BY DEF RepeatedAlert
  <2>2. a.count <= Cardinality(LettersOf(a.ticker)) + 1
    BY DEF LettersInv
  <2> QED BY <1>3, <2>1, <2>2
<1>6. \A m \in Letter : SoundLetter(letter[m])'
  BY <1>4
<1>7. \A a \in alerts' : a.count <= Cardinality(LettersOf(a.ticker))' + 1
  BY <1>5 DEF LettersOf
<1>8. /\ \A a \in AgentRun : /\ logged'[a] # "started"
                             /\ attempt'[a] = "stuck" => logged'[a] = "none"
                             /\ attempt'[a] \in {"none", "running"} => logged'[a] = "none"
      /\ attempt' \in [AgentRun -> {"none", "running", "stuck", "ended"}]
      /\ logged' \in [AgentRun -> {"none", "success", "error"}]
  BY DEF LettersInv, attemptVars
\* The alerts there were keep their letters, which are not l.
<1>9. ASSUME NEW a \in alerts'
      PROVE  \E m \in Letter : letter'[m].at = "stored" /\ letter'[m].ticker = a.ticker
  <2>1. CASE a \in alerts
    <3>1. PICK m \in Letter : letter[m].at = "stored" /\ letter[m].ticker = a.ticker
      BY <2>1 DEF LettersInv
    <3> QED BY <1>1, <3>1
  <2>2. CASE r.at = "stored" /\ a.ticker = r.ticker
    BY <1>1, <2>2
  <2> QED BY <2>1, <2>2
<1>10. \A a \in alerts' : \E m \in Letter : letter'[m].at = "stored" /\ letter'[m].ticker = a.ticker
  BY <1>9
<1> QED BY <1>1, <1>6, <1>7, <1>8, <1>10 DEF LettersInv, LettersOf

LEMMA LettersGoOn ==
  ASSUME LettersInv, [LettersNext]_lettersVars
  PROVE  LettersInv'
<1> USE LettersAssumption
<1>1. /\ \A l \in Letter : letter[l] \in LetterRecord /\ SoundLetter(letter[l])
      /\ recent \subseteq Letter /\ alerts \subseteq RepeatedAlert
      /\ letter \in [Letter -> LetterRecord]
  BY DEF LettersInv
<1>2. ASSUME NEW l \in Letter, Consume(l) PROVE LettersInv'
  <2>1. PICK t \in LetterTicker :
          letter' = [letter EXCEPT ![l] = [NoLetter EXCEPT !.at = "added", !.ticker = t]]
    BY <1>2 DEF Consume
  <2>2. NoLetter \in LetterRecord
    BY DEF NoLetter, LetterRecord
  <2>3. PICK r : r = [NoLetter EXCEPT !.at = "added", !.ticker = t]
    OBVIOUS
  <2>4. r \in LetterRecord /\ r.at = "added" /\ r.ticker = t
    BY <2>2, <2>3 DEF LetterRecord
  <2>5. letter[l].at = "none" /\ UNCHANGED <<recent, alerts, attemptVars>>
    BY <1>2 DEF Consume
  <2> QED BY <1>1, <2>1, <2>3, <2>4, <2>5, LetterMoves
<1>3. ASSUME NEW l \in Letter, Count(l) PROVE LettersInv'
  <2>1. PICK n : n = Cardinality(recent_failures(l))
    OBVIOUS
  <2>2. letter[l].at = "added" /\ UNCHANGED <<recent, alerts, attemptVars>>
    BY <1>3 DEF Count
  <2>3. n \in Nat /\ n > 0 /\ n <= Cardinality(LettersOf(letter[l].ticker))
    <3>1. recent_failures(l) \subseteq LettersOf(letter[l].ticker) /\ recent_failures(l) # {}
      BY <1>1 DEF recent_failures, LettersOf
    <3>2. IsFiniteSet(LettersOf(letter[l].ticker))
      BY LettersAreCounted
    <3>3. /\ IsFiniteSet(recent_failures(l))
          /\ Cardinality(recent_failures(l)) <= Cardinality(LettersOf(letter[l].ticker))
      BY <3>1, <3>2, FS_Subset
    <3> QED BY <2>1, <3>1, <3>3, FS_EmptySet, FS_CardinalityType
  <2>4. PICK r : r = [letter[l] EXCEPT !.at = "counted", !.count = n]
    OBVIOUS
  <2>5. /\ r \in LetterRecord /\ r.at = "counted" /\ r.ticker = letter[l].ticker
        /\ r.count = n
    BY <1>1, <2>3, <2>4 DEF LetterRecord
  <2>6. letter' = [letter EXCEPT ![l] = r]
    BY <1>1, <1>3, <2>1, <2>4 DEF Count
  <2>7. r.ticker \in LetterTicker
    BY <1>1, <2>2, <2>5 DEF SoundLetter
  <2> QED BY <1>1, <2>2, <2>3, <2>5, <2>6, <2>7, LetterMoves
<1>4. ASSUME NEW l \in Letter, CommitLetter(l) PROVE LettersInv'
  <2>1. PICK t \in LetterTicker, n \in Nat :
          /\ t = letter[l].ticker /\ n = letter[l].count
          /\ n > 0 /\ n <= Cardinality(LettersOf(t))
    BY <1>1, <1>4 DEF CommitLetter, SoundLetter, LetterRecord
  <2>2. PICK a \in RepeatedAlert : a = [type |-> "repeated_dlq_failure", ticker |-> t, count |-> n + 1]
    <3>1. PICK m \in Nat : m = n + 1
      OBVIOUS
    <3>2. [type |-> "repeated_dlq_failure", ticker |-> t, count |-> m] \in RepeatedAlert
      BY DEF RepeatedAlert
    <3> QED BY <3>1, <3>2
  <2>3. /\ letter[l].at = "counted" /\ recent' = recent \cup {l}
        /\ alerts' = alerts \cup {a} /\ UNCHANGED attemptVars
        /\ letter' = [letter EXCEPT ![l].at = "stored"]
    BY <1>4, <2>1, <2>2 DEF CommitLetter
  <2>4. PICK r : r = [letter[l] EXCEPT !.at = "stored"]
    OBVIOUS
  <2>5. r \in LetterRecord /\ r.at = "stored" /\ r.ticker = t
    BY <1>1, <2>1, <2>4 DEF LetterRecord
  <2>6. letter' = [letter EXCEPT ![l] = r]
    BY <1>1, <2>3, <2>4
  <2>7. a.ticker = t /\ a.count = n + 1
    BY <2>2
  <2>8. a.count <= Cardinality(LettersOf(a.ticker)) + 1
    BY <2>1, <2>7, LettersAreCounted
  <2>9. \A x \in alerts' : \/ x \in alerts
                           \/ /\ x.count <= Cardinality(LettersOf(x.ticker)) + 1
                              /\ r.at = "stored" /\ x.ticker = r.ticker
    BY <2>3, <2>5, <2>7, <2>8
  <2>10. \E x \in alerts' : x.ticker = r.ticker
    BY <2>3, <2>5, <2>7
  <2>11. recent' \subseteq Letter /\ alerts \subseteq alerts' /\ alerts' \subseteq RepeatedAlert
    BY <1>1, <2>3
  <2>12. UNCHANGED attemptVars
    BY <2>3
  <2>13. r.ticker = letter[l].ticker /\ r.ticker \in LetterTicker
    BY <2>1, <2>5
  <2> QED BY <2>3, <2>5, <2>6, <2>9, <2>10, <2>11, <2>12, <2>13, LetterMoves
<1>5. ASSUME NEW l \in Letter, LetterLost(l) PROVE LettersInv'
  <2>1. /\ letter[l].at \in {"added", "counted"} /\ UNCHANGED <<recent, alerts, attemptVars>>
        /\ letter' = [letter EXCEPT ![l].at = "lost"]
    BY <1>5 DEF LetterLost
  <2>2. PICK r : r = [letter[l] EXCEPT !.at = "lost"]
    OBVIOUS
  <2>3. r \in LetterRecord /\ r.at = "lost" /\ r.ticker = letter[l].ticker
    BY <1>1, <2>2 DEF LetterRecord
  <2>4. letter' = [letter EXCEPT ![l] = r]
    BY <1>1, <2>1, <2>2
  <2>5. r.ticker \in LetterTicker
    BY <1>1, <2>1, <2>3 DEF SoundLetter
  <2> QED BY <1>1, <2>1, <2>3, <2>4, <2>5, LetterMoves
<1>6. ASSUME UNCHANGED <<letter, alerts, attempt, logged>>, recent' \subseteq Letter
      PROVE  LettersInv'
  BY <1>6 DEF LettersInv, SoundLetter, LettersOf
<1>7. ASSUME NEW l \in Letter, HourPasses(l) PROVE LettersInv'
  BY <1>1, <1>6, <1>7 DEF HourPasses, attemptVars
\* An attempt moves; the letters and their alerts stay.
<1>8. ASSUME NEW a \in AgentRun, NEW s \in {"none", "running", "stuck", "ended"},
             NEW w \in {"none", "success", "error"},
             attempt' = [attempt EXCEPT ![a] = s], logged' = [logged EXCEPT ![a] = w],
             s = "ended" \/ w = "none", UNCHANGED <<letter, recent, alerts>>
      PROVE  LettersInv'
  <2>1. /\ attempt' \in [AgentRun -> {"none", "running", "stuck", "ended"}]
        /\ logged' \in [AgentRun -> {"none", "success", "error"}]
        /\ attempt'[a] = s /\ logged'[a] = w
        /\ \A b \in AgentRun \ {a} : attempt'[b] = attempt[b] /\ logged'[b] = logged[b]
    BY <1>8 DEF LettersInv
  <2>2. \A b \in AgentRun : /\ logged'[b] # "started"
                            /\ attempt'[b] = "stuck" => logged'[b] = "none"
                            /\ attempt'[b] \in {"none", "running"} => logged'[b] = "none"
    BY <1>8, <2>1 DEF LettersInv
  <2>3. ASSUME NEW l \in Letter PROVE SoundLetter(letter[l])'
    BY <1>1, <1>8 DEF SoundLetter, LettersOf
  <2>4. ASSUME NEW x \in alerts' PROVE (x.count <= Cardinality(LettersOf(x.ticker)) + 1)'
    BY <1>8 DEF LettersInv, LettersOf
  <2>5. /\ letter' \in [Letter -> LetterRecord] /\ recent' \subseteq Letter
        /\ alerts' \subseteq RepeatedAlert
    BY <1>1, <1>8
  <2>6. (\A x \in alerts : \E l \in Letter : letter[l].at = "stored" /\ letter[l].ticker = x.ticker)'
    BY <1>8 DEF LettersInv
  <2> QED BY <2>1, <2>2, <2>3, <2>4, <2>5, <2>6 DEF LettersInv
<1>9. ASSUME NEW a \in AgentRun, StartAttempt(a) \/ GetsStuck(a) PROVE LettersInv'
  <2>1. /\ attempt[a] \in {"none", "running"} /\ UNCHANGED <<letter, recent, alerts, logged>>
        /\ \E s \in {"running", "stuck"} : attempt' = [attempt EXCEPT ![a] = s]
    BY <1>9 DEF StartAttempt, GetsStuck
  <2>2. logged[a] = "none" /\ logged' = [logged EXCEPT ![a] = "none"]
    BY <2>1 DEF LettersInv
  <2> QED BY <1>8, <2>1, <2>2
<1>10. ASSUME NEW a \in AgentRun, EndAttempt(a) PROVE LettersInv'
  BY <1>8, <1>10 DEF EndAttempt
<1>11. CASE Watchdog
  <2>1. {b \in AgentRun : logged[b] = "started" /\ attempt[b] = "stuck"} = {}
    BY DEF LettersInv
  <2>2. {[type |-> "stuck_task", of |-> a] :
           a \in {b \in AgentRun : logged[b] = "started" /\ attempt[b] = "stuck"}} = {}
    BY <2>1
  <2>3. alerts' = alerts
    BY <1>11, <2>2 DEF Watchdog
  <2> QED BY <1>1, <1>6, <1>11, <2>3 DEF Watchdog, attemptVars
<1>12. CASE UNCHANGED lettersVars
  BY <1>1, <1>6, <1>12 DEF lettersVars
<1> QED
  BY <1>2, <1>3, <1>4, <1>5, <1>7, <1>9, <1>10, <1>11, <1>12 DEF LettersNext

\* Counts and alerts go with the letters at all times.
LEMMA LettersAreInvariant == LettersSpec => []LettersInv
<1>1. LettersInit => LettersInv
  BY DEF LettersInit, LettersInv, NoLetter, LetterRecord, SoundLetter
<1> QED BY <1>1, LettersGoOn, PTL DEF LettersSpec

\* Repeated failures always alert, also when their consumers do not see one
\* another's letters, and no alert outlives the letter it was raised for.
THEOREM AlertsAreOfFailures == LettersSpec => []AlertsTellFailures
<1>2. LettersInv => AlertsTellFailures
  <2> SUFFICES ASSUME LettersInv PROVE AlertsTellFailures
    OBVIOUS
  <2>1. RepeatsAlert
    BY DEF RepeatsAlert, LettersInv, SoundLetter, RepeatedAlert
  <2>2. AlertsHaveLetters
    BY DEF AlertsHaveLetters, LettersInv
  <2> QED BY <2>1, <2>2 DEF AlertsTellFailures
<1> QED BY <1>2, LettersAreInvariant, PTL

-----------------------------------------------------------------------------
(***************************************************************************)
(* The research task.  The completions that an attempt has asked for are   *)
(* bounded by its step; the requests of the present one, by the tries and  *)
(* the client's retries so far.  A row is of an attempt that has ended.    *)
(***************************************************************************)

ResearchRecord == [at : Steps \cup {"none", "waiting", "success", "failure", "lost"},
                   attempt : Attempted]
AskedRecord == [completions : 0..4, tries : 0..(MaxTries - 1), again : 0..ClientRetries, sent : Nat]
SentimentRecord == [label : {"none", "given", "no_news", "unparsed", "shapeless"}, calls : 0..2]
RowsRecord == [Attempted -> SUBSET {"success", "error"}]

Labels == {"given", "no_news", "unparsed", "shapeless"}

\* Completions that the sentiment may have taken, once it is there.
SentimentCost(s) == IF s.label = "no_news" THEN 0 ELSE 2

SoundSent(a) == a.sent <= a.tries * (1 + ClientRetries) + a.again

SoundAsked(r, a, s) ==
  /\ SoundSent(a)
  /\ a.completions <= SentimentCost(s) + 2
  /\ r.at = "none" => r.attempt = 0
  /\ r.at = "news" => a.completions = 0 /\ s.label = "none" /\ s.calls = 0
  /\ r.at = "sentiment" => s.label = "none" /\ s.calls \in {0, 1} /\ a.completions = s.calls
  /\ r.at \in {"context", "rag", "summary", "output"} => s.label \in Labels
  /\ r.at \in {"context", "rag"} => a.completions <= SentimentCost(s)
  /\ r.at = "summary" => a.completions <= SentimentCost(s) + 1
  /\ r.at \in {"log_ok", "ok", "success"} => s.label \in {"given", "no_news", "unparsed"}

SoundRows(r, g) ==
  \A n \in Attempted :
    /\ "success" \in g[n] => /\ g[n] = {"success"} /\ r.attempt = n
                             /\ r.at \in {"ok", "success", "lost"}
    /\ "error" \in g[n] => \/ r.attempt > n
                           \/ r.attempt = n /\ r.at \in {"error", "failure", "lost"}

ResearchInv ==
  /\ research \in [Delivered -> ResearchRecord]
  /\ asked \in [Delivered -> AskedRecord]
  /\ sentiment \in [Delivered -> SentimentRecord]
  /\ audit \in [Delivered -> RowsRecord]
  /\ \A d \in Delivered : /\ SoundAsked(research[d], asked[d], sentiment[d])
                          /\ SoundRows(research[d], audit[d])

\* A step of one delivery leaves the others alone.
LEMMA OneDelivery ==
  ASSUME ResearchInv, NEW d \in Delivered,
         research' \in [Delivered -> ResearchRecord], asked' \in [Delivered -> AskedRecord],
         sentiment' \in [Delivered -> SentimentRecord], audit' \in [Delivered -> RowsRecord],
         \A c \in Delivered \ {d} :
           /\ research'[c] = research[c] /\ asked'[c] = asked[c]
           /\ sentiment'[c] = sentiment[c] /\ audit'[c] = audit[c],
         SoundAsked(research'[d], asked'[d], sentiment'[d]),
         SoundRows(research'[d], audit'[d])
  PROVE  ResearchInv'
<1>1. \A c \in Delivered : SoundAsked(research'[c], asked'[c], sentiment'[c])
  BY DEF ResearchInv
<1>2. \A c \in Delivered : SoundRows(research'[c], audit'[c])
  BY DEF ResearchInv
<1>3. \A c \in Delivered : SoundAsked(research[c], asked[c], sentiment[c])'
  BY <1>1 DEF SoundAsked, SoundSent, SentimentCost
<1>4. \A c \in Delivered : SoundRows(research[c], audit[c])'
  BY <1>2 DEF SoundRows
<1> QED BY <1>3, <1>4 DEF ResearchInv

\* What GoesTo does to the deliveries.
LEMMA DeliveryGoes ==
  ASSUME research \in [Delivered -> ResearchRecord], NEW d \in Delivered,
         NEW step \in Steps \cup {"waiting", "success", "failure", "lost"}, GoesTo(d, step)
  PROVE  /\ research' \in [Delivered -> ResearchRecord]
         /\ research'[d].at = step /\ research'[d].attempt = research[d].attempt
         /\ \A c \in Delivered \ {d} : research'[c] = research[c]
<1>1. PICK r : r = [research[d] EXCEPT !.at = step]
  OBVIOUS
<1>2. r \in ResearchRecord /\ r.at = step /\ r.attempt = research[d].attempt
  BY <1>1 DEF ResearchRecord
<1>3. research' = [research EXCEPT ![d] = r]
  BY <1>1 DEF GoesTo
<1> QED BY <1>2, <1>3

\* Until an attempt ends it has no row, so that its steps disturb none.
LEMMA RowsStay ==
  ASSUME NEW r \in ResearchRecord, NEW q \in ResearchRecord, NEW g \in RowsRecord,
         SoundRows(r, g), q.attempt = r.attempt,
         r.at \notin {"ok", "error", "success", "failure", "lost"}
  PROVE  SoundRows(q, g)
BY DEF SoundRows

\* A step within an attempt, which changes no row.
LEMMA AttemptGoesOn ==
  ASSUME ResearchInv, NEW d \in Delivered,
         research' \in [Delivered -> ResearchRecord], asked' \in [Delivered -> AskedRecord],
         sentiment' \in [Delivered -> SentimentRecord], audit' = audit,
         \A c \in Delivered \ {d} :
           /\ research'[c] = research[c] /\ asked'[c] = asked[c]
           /\ sentiment'[c] = sentiment[c],
         research[d].at \in {"waiting"} \cup (Steps \ {"ok", "error"}),
         research'[d].attempt = research[d].attempt,
         SoundAsked(research'[d], asked'[d], sentiment'[d])
  PROVE  ResearchInv'
<1>1. SoundRows(research'[d], audit'[d])
  <2>1. /\ research[d] \in ResearchRecord /\ audit[d] \in RowsRecord
        /\ SoundRows(research[d], audit[d]) /\ research'[d] \in ResearchRecord
    BY DEF ResearchInv
  <2>2. research[d].at \notin {"ok", "error", "success", "failure", "lost"}
    BY DEF Steps
  <2> QED BY <2>1, <2>2, RowsStay
<1>2. audit' \in [Delivered -> RowsRecord]
  BY DEF ResearchInv
<1> QED BY <1>1, <1>2, OneDelivery

\* One completion more: the next one begins with no request sent.
LEMMA NextCompletion ==
  ASSUME asked \in [Delivered -> AskedRecord], NEW d \in Delivered,
         asked[d].completions <= 3, Asked(d)
  PROVE  /\ asked' \in [Delivered -> AskedRecord]
         /\ asked'[d].completions = asked[d].completions + 1
         /\ SoundSent(asked'[d])
         /\ \A c \in Delivered \ {d} : asked'[c] = asked[c]
<1> USE ResearchAssumption
<1>1. PICK n \in 0..4 : n = asked[d].completions + 1
  BY DEF AskedRecord
<1>2. Unasked \in AskedRecord /\ Unasked.tries = 0 /\ Unasked.again = 0 /\ Unasked.sent = 0
  BY DEF Unasked, AskedRecord
<1>3. PICK a : a = [Unasked EXCEPT !.completions = n]
  OBVIOUS
<1>4. /\ a \in AskedRecord /\ a.completions = n
      /\ a.tries = 0 /\ a.again = 0 /\ a.sent = 0
  BY <1>2, <1>3 DEF AskedRecord
<1>5. asked' = [asked EXCEPT ![d] = a]
  BY <1>1, <1>3 DEF Asked
<1>6. SoundSent(a)
  BY <1>4 DEF SoundSent
<1> QED BY <1>1, <1>4, <1>5, <1>6

LEMMA ResearchGoesOn ==
  ASSUME ResearchInv, [ResearchNext]_researchVars
  PROVE  ResearchInv'
<1> USE ResearchAssumption
<1>1. /\ research \in [Delivered -> ResearchRecord] /\ asked \in [Delivered -> AskedRecord]
      /\ sentiment \in [Delivered -> SentimentRecord] /\ audit \in [Delivered -> RowsRecord]
      /\ \A d \in Delivered : /\ SoundAsked(research[d], asked[d], sentiment[d])
                              /\ SoundRows(research[d], audit[d])
  BY DEF ResearchInv
\* What Feels does to the sentiments.
<1>2. ASSUME NEW d \in Delivered, NEW l \in Labels \cup {"none"}, NEW n \in 0..2, Feels(d, l, n)
      PROVE  /\ sentiment' \in [Delivered -> SentimentRecord]
             /\ sentiment'[d].label = l /\ sentiment'[d].calls = n
             /\ \A c \in Delivered \ {d} : sentiment'[c] = sentiment[c]
  <2>1. [label |-> l, calls |-> n] \in SentimentRecord
    BY DEF SentimentRecord, Labels
  <2> QED BY <1>1, <1>2, <2>1 DEF Feels
<1>3. ASSUME NEW d \in Delivered, BeginAttempt(d) PROVE ResearchInv'
  <2>1. /\ research[d].at = "waiting" /\ GoesTo(d, "news") /\ audit' = audit
        /\ asked' = [asked EXCEPT ![d] = Unasked]
        /\ sentiment' = [sentiment EXCEPT ![d] = NoSentiment]
    BY <1>3 DEF BeginAttempt, At
  <2>2. /\ Unasked \in AskedRecord /\ Unasked.completions = 0 /\ SoundSent(Unasked)
        /\ NoSentiment \in SentimentRecord /\ NoSentiment.label = "none" /\ NoSentiment.calls = 0
    BY DEF Unasked, NoSentiment, AskedRecord, SentimentRecord, SoundSent
  <2>3. /\ asked' \in [Delivered -> AskedRecord] /\ asked'[d] = Unasked
        /\ sentiment' \in [Delivered -> SentimentRecord] /\ sentiment'[d] = NoSentiment
        /\ \A c \in Delivered \ {d} : asked'[c] = asked[c] /\ sentiment'[c] = sentiment[c]
    BY <1>1, <2>1, <2>2
  <2>4. /\ research' \in [Delivered -> ResearchRecord] /\ research'[d].at = "news"
        /\ research'[d].attempt = research[d].attempt
        /\ \A c \in Delivered \ {d} : research'[c] = research[c]
    BY <1>1, <2>1, DeliveryGoes DEF Steps
  <2>5. SoundAsked(research'[d], asked'[d], sentiment'[d])
    BY <2>2, <2>3, <2>4 DEF SoundAsked, SentimentCost
  <2> QED BY <2>1, <2>3, <2>4, <2>5, AttemptGoesOn
<1>4. ASSUME NEW d \in Delivered, FetchNews(d) PROVE ResearchInv'
  <2>1. /\ research[d].at = "news" /\ asked' = asked /\ audit' = audit
        /\ asked[d].completions = 0 /\ sentiment[d].label = "none" /\ sentiment[d].calls = 0
        /\ SoundSent(asked[d])
    BY <1>1, <1>4 DEF FetchNews, At, SoundAsked
  <2>2. PICK step \in {"sentiment", "context"} :
          /\ GoesTo(d, step)
          /\ \/ step = "sentiment" /\ sentiment' = sentiment
             \/ step = "context" /\ Feels(d, "no_news", 0)
    BY <1>4 DEF FetchNews
  <2>3. /\ research' \in [Delivered -> ResearchRecord] /\ research'[d].at = step
        /\ research'[d].attempt = research[d].attempt
        /\ \A c \in Delivered \ {d} : research'[c] = research[c]
    BY <1>1, <2>2, DeliveryGoes DEF Steps
  <2>4. /\ sentiment' \in [Delivered -> SentimentRecord]
        /\ \A c \in Delivered \ {d} : sentiment'[c] = sentiment[c]
        /\ \/ step = "sentiment" /\ sentiment'[d].label = "none" /\ sentiment'[d].calls = 0
           \/ step = "context" /\ sentiment'[d].label = "no_news"
    BY <1>1, <1>2, <2>1, <2>2 DEF Labels
  <2>5. SoundAsked(research'[d], asked'[d], sentiment'[d])
    BY <2>1, <2>3, <2>4 DEF SoundAsked, SentimentCost, Labels
  <2> QED BY <1>1, <2>1, <2>3, <2>4, <2>5, AttemptGoesOn DEF Steps
<1>5. ASSUME NEW d \in Delivered, Retrieve(d) PROVE ResearchInv'
  <2>1. research[d].at = "context" /\ UNCHANGED <<asked, sentiment, audit>>
    BY <1>5 DEF Retrieve, At
  <2>2. PICK step \in {"rag", "log_error"} : GoesTo(d, step)
    BY <1>5 DEF Retrieve
  <2>3. /\ research' \in [Delivered -> ResearchRecord] /\ research'[d].at = step
        /\ research'[d].attempt = research[d].attempt
        /\ \A c \in Delivered \ {d} : research'[c] = research[c]
    BY <1>1, <2>2, DeliveryGoes DEF Steps
  <2>4. SoundAsked(research'[d], asked'[d], sentiment'[d])
    BY <1>1, <2>1, <2>3 DEF SoundAsked
  <2> QED BY <1>1, <2>1, <2>3, <2>4, AttemptGoesOn DEF Steps
\* How many completions were asked for while one is on its way.
<1>6. ASSUME NEW d \in Delivered, Asking(d)
      PROVE  /\ asked[d].completions <= 3
             /\ asked[d].completions + 1 <= SentimentCost(sentiment[d]) + 2
             /\ research[d].at \in Steps \ {"ok", "error"}
  <2>1. asked[d].completions \in 0..4 /\ sentiment[d].calls \in 0..2
    BY <1>1 DEF AskedRecord, SentimentRecord
  <2> QED BY <1>1, <1>6, <2>1 DEF Asking, SoundAsked, SentimentCost, Steps
<1>7. ASSUME NEW d \in Delivered, Completed(d) PROVE ResearchInv'
  <2>1. Asking(d) /\ Asked(d) /\ audit' = audit
    BY <1>7 DEF Completed
  <2>2. /\ asked' \in [Delivered -> AskedRecord] /\ SoundSent(asked'[d])
        /\ asked'[d].completions = asked[d].completions + 1
        /\ \A c \in Delivered \ {d} : asked'[c] = asked[c]
    BY <1>1, <1>6, <2>1, NextCompletion
  <2>3. asked[d].completions \in Nat /\ sentiment[d].calls \in 0..2
    BY <1>1 DEF AskedRecord, SentimentRecord
  <2>4. CASE research[d].at \in {"rag", "summary"}
    <3>1. PICK step \in {"summary", "output"} :
            /\ GoesTo(d, step) /\ sentiment' = sentiment
            /\ research[d].at = "rag" => step = "summary"
            /\ research[d].at = "summary" => step = "output"
      BY <1>7, <2>4 DEF Completed, At
    <3>2. /\ research' \in [Delivered -> ResearchRecord] /\ research'[d].at = step
          /\ research'[d].attempt = research[d].attempt
          /\ \A c \in Delivered \ {d} : research'[c] = research[c]
      BY <1>1, <3>1, DeliveryGoes DEF Steps
    <3>3. SoundAsked(research'[d], asked'[d], sentiment'[d])
      BY <1>1, <1>6, <2>1, <2>2, <2>3, <2>4, <3>1, <3>2 DEF SoundAsked, SentimentCost
    <3> QED BY <1>1, <1>6, <2>1, <2>2, <3>1, <3>2, <3>3, AttemptGoesOn
  <2>5. CASE research[d].at = "sentiment"
    <3>1. /\ sentiment[d].label = "none" /\ sentiment[d].calls \in {0, 1}
          /\ asked[d].completions = sentiment[d].calls
      BY <1>1, <2>5 DEF SoundAsked
    <3>2. PICK n \in {1, 2} : n = sentiment[d].calls + 1
      BY <3>1
    <3>3. CASE GoesTo(d, "context") /\ \E l \in Labels \ {"no_news"} : Feels(d, l, n)
      <4>1. PICK l \in Labels \ {"no_news"} : Feels(d, l, n)
        BY <3>3
      <4>2. /\ sentiment' \in [Delivered -> SentimentRecord] /\ sentiment'[d].label = l
            /\ \A c \in Delivered \ {d} : sentiment'[c] = sentiment[c]
        BY <1>2, <4>1
      <4>3. /\ research' \in [Delivered -> ResearchRecord] /\ research'[d].at = "context"
            /\ research'[d].attempt = research[d].attempt
            /\ \A c \in Delivered \ {d} : research'[c] = research[c]
        BY <1>1, <3>3, DeliveryGoes DEF Steps
      <4>4. SoundAsked(research'[d], asked'[d], sentiment'[d])
        BY <2>2, <3>1, <3>2, <4>1, <4>2, <4>3 DEF SoundAsked, SentimentCost, Labels
      <4> QED BY <1>6, <2>1, <2>2, <4>2, <4>3, <4>4, AttemptGoesOn
    <3>4. CASE n = 1 /\ research' = research /\ Feels(d, "none", n)
      <4>1. /\ sentiment' \in [Delivered -> SentimentRecord]
            /\ sentiment'[d].label = "none" /\ sentiment'[d].calls = 1
            /\ \A c \in Delivered \ {d} : sentiment'[c] = sentiment[c]
        BY <1>2, <3>4
      <4>2. SoundAsked(research'[d], asked'[d], sentiment'[d])
        BY <2>2, <2>5, <3>1, <3>2, <3>4, <4>1 DEF SoundAsked, SentimentCost
      <4> QED BY <1>1, <1>6, <2>1, <2>2, <3>4, <4>1, <4>2, AttemptGoesOn
    <3> QED BY <1>7, <2>5, <3>2, <3>3, <3>4 DEF Completed, At, Labels
  <2> QED BY <2>1, <2>4, <2>5 DEF Asking
\* A request more: again by the client, or by tenacity.
<1>8. ASSUME NEW d \in Delivered, Asking(d), UNCHANGED <<research, sentiment, audit>>,
             NEW a \in AskedRecord, asked' = [asked EXCEPT ![d] = a],
             a.completions = asked[d].completions, SoundSent(a)
      PROVE  ResearchInv'
  <2>1. /\ asked' \in [Delivered -> AskedRecord] /\ asked'[d] = a
        /\ \A c \in Delivered \ {d} : asked'[c] = asked[c]
    BY <1>1, <1>8
  <2>2. SoundAsked(research'[d], asked'[d], sentiment'[d])
    BY <1>1, <1>8, <2>1 DEF SoundAsked
  <2> QED BY <1>1, <1>6, <1>8, <2>1, <2>2, AttemptGoesOn
<1>9. ASSUME NEW d \in Delivered, ClientRetry(d) PROVE ResearchInv'
  <2>1. /\ Asking(d) /\ UNCHANGED <<research, sentiment, audit>> /\ asked[d] \in AskedRecord
        /\ asked[d].again < ClientRetries /\ SoundSent(asked[d])
    BY <1>1, <1>9 DEF ClientRetry, SoundAsked
  <2>2. PICK n \in 0..ClientRetries, k \in Nat : n = asked[d].again + 1 /\ k = asked[d].sent + 1
    <3>1. asked[d].again \in 0..ClientRetries /\ asked[d].sent \in Nat
      BY <2>1 DEF AskedRecord
    <3>2. asked[d].again + 1 \in 0..ClientRetries /\ asked[d].sent + 1 \in Nat
      BY <2>1, <3>1
    <3> QED BY <3>2
  <2>3. PICK a : a = [asked[d] EXCEPT !.again = n, !.sent = k]
    OBVIOUS
  <2>4. /\ a \in AskedRecord /\ a.again = n /\ a.sent = k /\ a.tries = asked[d].tries
        /\ a.completions = asked[d].completions
    BY <2>1, <2>3 DEF AskedRecord
  <2>5. asked' = [asked EXCEPT ![d] = a]
    BY <1>1, <1>9, <2>2, <2>3 DEF ClientRetry
  <2>6. SoundSent(a)
    <3>1. /\ asked[d].again \in Nat /\ asked[d].sent \in Nat /\ asked[d].tries \in Nat
      BY <2>1 DEF AskedRecord
    <3>2. PICK m \in Nat : m = asked[d].tries * (1 + ClientRetries)
      BY <3>1
    <3>3. asked[d].sent <= m + asked[d].again
      BY <2>1, <3>2 DEF SoundSent
    <3>4. k <= m + n
      BY <2>2, <3>1, <3>2, <3>3
    <3> QED BY <2>4, <3>2, <3>4 DEF SoundSent
  <2> QED BY <1>8, <2>1, <2>4, <2>5, <2>6
\* An attempt that is given up within its requests.
<1>10. ASSUME NEW d \in Delivered, Asked(d), Asking(d), GoesTo(d, "log_error"),
              UNCHANGED <<sentiment, audit>>
       PROVE  ResearchInv'
  <2>1. /\ asked' \in [Delivered -> AskedRecord] /\ SoundSent(asked'[d])
        /\ asked'[d].completions = asked[d].completions + 1
        /\ \A c \in Delivered \ {d} : asked'[c] = asked[c]
    BY <1>1, <1>6, <1>10, NextCompletion
  <2>2. /\ research' \in [Delivered -> ResearchRecord] /\ research'[d].at = "log_error"
        /\ research'[d].attempt = research[d].attempt
        /\ \A c \in Delivered \ {d} : research'[c] = research[c]
    BY <1>1, <1>10, DeliveryGoes DEF Steps
  <2>3. SoundAsked(research'[d], asked'[d], sentiment'[d])
    BY <1>6, <1>10, <2>1, <2>2 DEF SoundAsked
  <2> QED BY <1>1, <1>6, <1>10, <2>1, <2>2, <2>3, AttemptGoesOn
<1>11. ASSUME NEW d \in Delivered, GroqFails(d) PROVE ResearchInv'
  BY <1>10, <1>11 DEF GroqFails
<1>12. ASSUME NEW d \in Delivered, RateLimited(d) PROVE ResearchInv'
  <2>1. CASE asked[d].tries + 1 < MaxTries
    <3>1. /\ Asking(d) /\ UNCHANGED <<research, sentiment, audit>> /\ asked[d] \in AskedRecord
          /\ SoundSent(asked[d])
      BY <1>1, <1>12, <2>1 DEF RateLimited, SoundAsked
    <3>2. PICK n \in 0..(MaxTries - 1), k \in Nat : n = asked[d].tries + 1 /\ k = asked[d].sent + 1
      <4>1. asked[d].tries \in 0..(MaxTries - 1) /\ asked[d].sent \in Nat
        BY <3>1 DEF AskedRecord
      <4>2. asked[d].tries + 1 \in 0..(MaxTries - 1) /\ asked[d].sent + 1 \in Nat
        BY <2>1, <4>1
      <4> QED BY <4>2
    <3>3. PICK a : a = [asked[d] EXCEPT !.tries = n, !.again = 0, !.sent = k]
      OBVIOUS
    <3>4. /\ a \in AskedRecord /\ a.again = 0 /\ a.sent = k /\ a.tries = n
          /\ a.completions = asked[d].completions
      <4>1. 0 \in 0..ClientRetries
        OBVIOUS
      <4> QED BY <3>1, <3>3, <4>1 DEF AskedRecord
    <3>5. asked' = [asked EXCEPT ![d] = a]
      BY <1>1, <1>12, <2>1, <3>2, <3>3 DEF RateLimited
    <3>6. SoundSent(a)
      <4>1. /\ asked[d].again \in 0..ClientRetries /\ asked[d].sent \in Nat
            /\ asked[d].tries \in Nat
        BY <3>1 DEF AskedRecord
      <4>2. PICK m \in Nat : m = asked[d].tries * (1 + ClientRetries)
        BY <4>1
      <4>3. n * (1 + ClientRetries) = m + 1 + ClientRetries
        <5>1. PICK t \in Nat : t = asked[d].tries
          BY <4>1
        <5>2. (t + 1) * (1 + ClientRetries) = t * (1 + ClientRetries) + 1 + ClientRetries
          OBVIOUS
        <5> QED BY <3>2, <4>2, <5>1, <5>2
      <4>4. asked[d].sent <= m + asked[d].again
        BY <3>1, <4>2 DEF SoundSent
      <4>5. k <= m + 1 + ClientRetries
        BY <3>2, <4>1, <4>2, <4>4
      <4> QED BY <3>4, <4>2, <4>3, <4>5 DEF SoundSent
    <3> QED BY <1>8, <3>1, <3>4, <3>5, <3>6
  <2>2. CASE ~(asked[d].tries + 1 < MaxTries)
    BY <1>10, <1>12, <2>2 DEF RateLimited
  <2> QED BY <2>1, <2>2
<1>13. ASSUME NEW d \in Delivered, BuildOutput(d) PROVE ResearchInv'
  <2>1. research[d].at = "output" /\ UNCHANGED <<asked, sentiment, audit>>
    BY <1>13 DEF BuildOutput, At
  <2>2. PICK step \in {"log_ok", "log_error"} :
          GoesTo(d, step) /\ (step = "log_ok" => sentiment[d].label # "shapeless")
    BY <1>13 DEF BuildOutput
  <2>3. /\ research' \in [Delivered -> ResearchRecord] /\ research'[d].at = step
        /\ research'[d].attempt = research[d].attempt
        /\ \A c \in Delivered \ {d} : research'[c] = research[c]
    BY <1>1, <2>2, DeliveryGoes DEF Steps
  <2>4. SoundAsked(research'[d], asked'[d], sentiment'[d])
    BY <1>1, <2>1, <2>2, <2>3 DEF SoundAsked, Labels
  <2> QED BY <1>1, <2>1, <2>3, <2>4, AttemptGoesOn DEF Steps
<1>14. ASSUME NEW d \in Delivered, WriteLog(d) PROVE ResearchInv'
  <2>1. UNCHANGED <<asked, sentiment>>
    BY <1>14 DEF WriteLog
  <2>2. PICK step \in {"ok", "error"}, w \in {"success", "error"} :
          /\ GoesTo(d, step) /\ Logs(d, w)
          /\ \/ research[d].at = "log_ok" /\ step = "ok" /\ w = "success"
             \/ research[d].at = "log_error" /\ step = "error" /\ w = "error"
    BY <1>14 DEF WriteLog, At
  <2>3. /\ research' \in [Delivered -> ResearchRecord] /\ research'[d].at = step
        /\ research'[d].attempt = research[d].attempt
        /\ \A c \in Delivered \ {d} : research'[c] = research[c]
    BY <1>1, <2>2, DeliveryGoes DEF Steps
  <2>4. PICK n \in Attempted : n = research[d].attempt
    BY <1>1 DEF ResearchRecord
  <2>5. /\ audit[d] \in RowsRecord /\ SoundRows(research[d], audit[d])
    BY <1>1
  <2>6. audit[d][n] = {}
    <3>1. audit[d][n] \in SUBSET {"success", "error"}
      BY <2>5 DEF RowsRecord
    <3>2. "success" \notin audit[d][n] /\ "error" \notin audit[d][n]
      BY <2>2, <2>4, <2>5 DEF SoundRows, Attempted
    <3> QED BY <3>1, <3>2
  <2>7. PICK g \in RowsRecord :
          /\ audit' = [audit EXCEPT ![d] = g]
          /\ g = audit[d] \/ g = [audit[d] EXCEPT ![n] = {w}]
    <3>1. CASE audit' = audit
      <4>1. audit' = [audit EXCEPT ![d] = audit[d]]
        BY <1>1, <3>1
      <4> QED BY <2>5, <4>1
    <3>2. CASE audit' = [audit EXCEPT ![d][research[d].attempt] = @ \cup {w}]
      <4>1. PICK g : g = [audit[d] EXCEPT ![n] = {w}]
        OBVIOUS
      <4>2. audit' = [audit EXCEPT ![d] = g]
        BY <1>1, <2>4, <2>5, <2>6, <3>2, <4>1 DEF RowsRecord
      <4>3. g \in RowsRecord
        BY <2>5, <4>1 DEF RowsRecord
      <4> QED BY <4>1, <4>2, <4>3
    <3> QED BY <2>2, <3>1, <3>2 DEF Logs
  <2>8. /\ audit' \in [Delivered -> RowsRecord] /\ audit'[d] = g
        /\ \A c \in Delivered \ {d} : audit'[c] = audit[c]
    BY <1>1, <2>7
  <2>9. SoundRows(research'[d], g)
    <3>1. PICK r \in ResearchRecord : r = research'[d] /\ r.at = step /\ r.attempt = n
      BY <2>3, <2>4
    <3>2. SoundRows(r, audit[d])
      <4>1. /\ research[d] \in ResearchRecord
            /\ research[d].at \notin {"ok", "error", "success", "failure", "lost"}
        BY <1>1, <2>2
      <4> QED BY <2>4, <2>5, <3>1, <4>1, RowsStay
    <3>3. CASE g = [audit[d] EXCEPT ![n] = {w}]
      <4>1. g[n] = {w} /\ \A m \in Attempted \ {n} : g[m] = audit[d][m]
        BY <2>5, <3>3 DEF RowsRecord
      <4> QED BY <2>2, <3>1, <3>2, <4>1 DEF SoundRows
    <3> QED BY <2>7, <3>1, <3>2, <3>3
  <2>10. SoundAsked(research'[d], asked'[d], sentiment'[d])
    BY <1>1, <2>1, <2>2, <2>3 DEF SoundAsked
  <2> QED BY <1>1, <2>1, <2>3, <2>8, <2>9, <2>10, OneDelivery
\* A delivery whose attempt is over goes to its end; its rows stay.
<1>15. ASSUME NEW d \in Delivered, Succeed(d) PROVE ResearchInv'
  <2>1. research[d].at = "ok" /\ GoesTo(d, "success") /\ UNCHANGED <<asked, sentiment, audit>>
    BY <1>15 DEF Succeed, At
  <2>2. /\ research' \in [Delivered -> ResearchRecord] /\ research'[d].at = "success"
        /\ research'[d].attempt = research[d].attempt
        /\ \A c \in Delivered \ {d} : research'[c] = research[c]
    BY <1>1, <2>1, DeliveryGoes
  <2>3. SoundAsked(research'[d], asked'[d], sentiment'[d])
    BY <1>1, <2>1, <2>2 DEF SoundAsked
  <2>4. SoundRows(research'[d], audit'[d])
    BY <1>1, <2>1, <2>2 DEF SoundRows
  <2> QED BY <1>1, <2>1, <2>2, <2>3, <2>4, OneDelivery
<1>16. ASSUME NEW d \in Delivered, Retry(d) PROVE ResearchInv'
  <2>1. research[d].at = "error" /\ UNCHANGED <<asked, sentiment, audit>>
    BY <1>16 DEF Retry, At
  <2>2. CASE GoesTo(d, "failure")
    <3>1. /\ research' \in [Delivered -> ResearchRecord] /\ research'[d].at = "failure"
          /\ research'[d].attempt = research[d].attempt
          /\ \A c \in Delivered \ {d} : research'[c] = research[c]
      BY <1>1, <2>2, DeliveryGoes
    <3>2. SoundAsked(research'[d], asked'[d], sentiment'[d])
      BY <1>1, <2>1, <3>1 DEF SoundAsked
    <3>3. SoundRows(research'[d], audit'[d])
      BY <1>1, <2>1, <3>1 DEF SoundRows
    <3> QED BY <1>1, <2>1, <3>1, <3>2, <3>3, OneDelivery
  <2>3. CASE ~GoesTo(d, "failure")
    <3>1. PICK n \in Attempted : n = research[d].attempt
      BY <1>1 DEF ResearchRecord
    <3>2. /\ n # ResearchRetries
          /\ research' = [research EXCEPT ![d] = [at |-> "waiting", attempt |-> n + 1]]
      BY <1>1, <1>16, <2>3, <3>1 DEF Retry
    <3>3. PICK m \in Attempted : m = n + 1
      BY <3>1, <3>2 DEF Attempted
    <3>4. PICK r : r = [at |-> "waiting", attempt |-> m]
      OBVIOUS
    <3>5. r \in ResearchRecord /\ r.at = "waiting" /\ r.attempt = m
      BY <3>4 DEF ResearchRecord
    <3>6. /\ research' \in [Delivered -> ResearchRecord] /\ research'[d] = r
          /\ \A c \in Delivered \ {d} : research'[c] = research[c]
      BY <1>1, <3>2, <3>3, <3>4, <3>5
    <3>7. SoundAsked(research'[d], asked'[d], sentiment'[d])
      BY <1>1, <2>1, <3>5, <3>6 DEF SoundAsked
    <3>8. SoundRows(research'[d], audit'[d])
      <4>1. SoundRows(research[d], audit[d]) /\ n \in Nat
        BY <1>1, <3>1 DEF Attempted
      <4>2. ASSUME NEW k \in Attempted
            PROVE  "success" \notin audit[d][k] /\ ("error" \in audit[d][k] => m > k)
        BY <2>1, <3>1, <3>3, <4>1 DEF SoundRows, Attempted
      <4> QED BY <2>1, <3>5, <3>6, <4>2 DEF SoundRows
    <3> QED BY <1>1, <2>1, <3>6, <3>7, <3>8, OneDelivery
  <2> QED BY <2>2, <2>3
<1>17. ASSUME NEW d \in Delivered, RedeliverResearch(d) PROVE ResearchInv'
  <2>1. d + 1 \in Delivered /\ research[d + 1].at = "none" /\ UNCHANGED <<asked, sentiment, audit>>
    BY <1>17 DEF RedeliverResearch, At
  <2>2. PICK n \in Attempted : n = research[d].attempt
    BY <1>1 DEF ResearchRecord
  <2>3. PICK q : q = [at |-> "waiting", attempt |-> n]
    OBVIOUS
  <2>4. q \in ResearchRecord /\ q.at = "waiting"
    BY <2>3 DEF ResearchRecord
  <2>5. d # d + 1
    BY DEF Delivered
  <2>6. PICK r \in ResearchRecord :
          /\ research' = [research EXCEPT ![d + 1] = q, ![d] = r]
          /\ r.attempt = n
          /\ \/ r = research[d]
             \/ r.at = "lost" /\ research[d].at \in Steps
    <3>1. CASE research' = [research EXCEPT ![d + 1] = q]
      <4>1. research' = [research EXCEPT ![d + 1] = q, ![d] = research[d]]
        BY <1>1, <2>5, <3>1
      <4> QED BY <1>1, <2>2, <4>1
    <3>2. CASE /\ research[d].at \in Steps
               /\ research' = [research EXCEPT ![d + 1] = q, ![d].at = "lost"]
      <4>1. PICK r : r = [research[d] EXCEPT !.at = "lost"]
        OBVIOUS
      <4>2. r \in ResearchRecord /\ r.at = "lost" /\ r.attempt = n
        BY <1>1, <2>2, <4>1 DEF ResearchRecord
      <4>3. research' = [research EXCEPT ![d + 1] = q, ![d] = r]
        BY <1>1, <2>1, <2>5, <3>2, <4>1
      <4> QED BY <3>2, <4>2, <4>3
    <3> QED BY <1>17, <2>2, <2>3, <3>1, <3>2 DEF RedeliverResearch
  <2>7. /\ research' \in [Delivered -> ResearchRecord] /\ research'[d] = r
        /\ research'[d + 1] = q
        /\ \A c \in Delivered \ {d, d + 1} : research'[c] = research[c]
    BY <1>1, <2>1, <2>4, <2>5, <2>6
  <2>8. ASSUME NEW c \in Delivered
        PROVE  SoundAsked(research'[c], asked'[c], sentiment'[c])
    <3>1. SoundAsked(research[c], asked[c], sentiment[c])
      BY <1>1
    <3>2. CASE c = d + 1
      BY <2>1, <2>4, <2>7, <3>1, <3>2 DEF SoundAsked
    <3>3. CASE c = d
      BY <2>1, <2>6, <2>7, <3>1, <3>3 DEF SoundAsked
    <3> QED BY <2>1, <2>7, <3>1, <3>2, <3>3
  <2>9. ASSUME NEW c \in Delivered
        PROVE  SoundRows(research'[c], audit'[c])
    <3>1. SoundRows(research[c], audit[c])
      BY <1>1
    <3>2. CASE c = d + 1
      <4>1. SoundAsked(research[c], asked[c], sentiment[c])
        BY <1>1
      <4>2. research[c].at = "none" /\ research[c].attempt = 0
        BY <2>1, <3>2, <4>1 DEF SoundAsked
      <4>3. \A k \in Attempted : "success" \notin audit[c][k] /\ "error" \notin audit[c][k]
        BY <3>1, <4>2 DEF SoundRows, Attempted
      <4> QED BY <2>1, <4>3 DEF SoundRows
    <3>3. CASE c = d
      <4>1. CASE r = research[d]
        BY <2>1, <2>7, <3>1, <3>3, <4>1
      <4>2. CASE r.at = "lost" /\ research[d].at \in Steps
        BY <2>1, <2>2, <2>6, <2>7, <3>1, <3>3, <4>2 DEF SoundRows
      <4> QED BY <2>6, <4>1, <4>2
    <3> QED BY <2>1, <2>7, <3>1, <3>2, <3>3
  <2>10. \A c \in Delivered : SoundAsked(research[c], asked[c], sentiment[c])'
    BY <2>8 DEF SoundAsked, SoundSent, SentimentCost
  <2>11. \A c \in Delivered : SoundRows(research[c], audit[c])'
    BY <2>9 DEF SoundRows
  <2>12. /\ asked' \in [Delivered -> AskedRecord] /\ sentiment' \in [Delivered -> SentimentRecord]
         /\ audit' \in [Delivered -> RowsRecord]
    BY <1>1, <2>1
  <2> QED BY <2>7, <2>10, <2>11, <2>12 DEF ResearchInv
<1>18. CASE UNCHANGED researchVars
  BY <1>18 DEF researchVars, ResearchInv, SoundAsked, SoundSent, SentimentCost, SoundRows
<1> QED
  BY <1>3, <1>4, <1>5, <1>7, <1>9, <1>11, <1>12, <1>13, <1>14, <1>15, <1>16, <1>17, <1>18
  DEF ResearchNext, ResearchStep

\* Requests and rows are accounted for at each step of the task.
LEMMA ResearchIsInvariant == ResearchSpec => []ResearchInv
<1> USE ResearchAssumption
<1>1. ASSUME ResearchInit PROVE ResearchInv
  <2>1. /\ \A d \in Delivered : research[d].attempt = 0 /\ research[d].at \in {"none", "waiting"}
        /\ research \in [Delivered -> ResearchRecord]
    BY <1>1 DEF ResearchInit, ResearchRecord, Attempted
  <2>2. /\ asked \in [Delivered -> AskedRecord] /\ sentiment \in [Delivered -> SentimentRecord]
        /\ audit \in [Delivered -> RowsRecord]
    BY <1>1 DEF ResearchInit, AskedRecord, SentimentRecord, RowsRecord, Unasked, NoSentiment
  <2>3. ASSUME NEW d \in Delivered PROVE SoundAsked(research[d], asked[d], sentiment[d])
    <3>1. /\ asked[d].completions = 0 /\ asked[d].sent = 0 /\ asked[d].tries = 0
          /\ asked[d].again = 0
      BY <1>1 DEF ResearchInit, Unasked
    <3>2. SoundSent(asked[d])
      BY <3>1 DEF SoundSent
    <3> QED BY <2>1, <3>1, <3>2 DEF SoundAsked, SentimentCost
  <2>4. \A d \in Delivered : SoundRows(research[d], audit[d])
    BY <1>1 DEF ResearchInit, SoundRows
  <2> QED BY <2>1, <2>2, <2>3, <2>4 DEF ResearchInv
<1> QED BY <1>1, ResearchGoesOn, PTL DEF ResearchSpec

\* However Groq answers, and however often a message is delivered, an attempt's
\* completions and the requests of each, its client's own among them, are
\* bounded, its result has a shape, and its rows tell what became of it.
THEOREM AttemptsAreCounted == ResearchSpec => []AttemptsAreAccounted
<1> USE ResearchAssumption
<1>1. ResearchInv => AttemptsAreAccounted
  <2> SUFFICES ASSUME ResearchInv PROVE AttemptsAreAccounted
    OBVIOUS
  <2>1. ASSUME NEW d \in Delivered, Asking(d)
        PROVE  asked[d].completions <= 3 /\ asked[d].sent < MaxTries * (1 + ClientRetries)
    <3>1. /\ asked[d] \in AskedRecord /\ SoundSent(asked[d])
          /\ SoundAsked(research[d], asked[d], sentiment[d])
      BY DEF ResearchInv, SoundAsked
    <3>2. PICK t \in 0..(MaxTries - 1), n \in 0..ClientRetries, k \in Nat :
            t = asked[d].tries /\ n = asked[d].again /\ k = asked[d].sent
      BY <3>1 DEF AskedRecord
    <3>3. k <= t * (1 + ClientRetries) + n
      BY <3>1, <3>2 DEF SoundSent
    <3>4. t * (1 + ClientRetries) <= (MaxTries - 1) * (1 + ClientRetries)
      BY <3>2
    <3>5. (MaxTries - 1) * (1 + ClientRetries) = MaxTries * (1 + ClientRetries) - (1 + ClientRetries)
      OBVIOUS
    <3>6. PICK p \in Nat, q \in Nat :
            p = MaxTries * (1 + ClientRetries) /\ q = t * (1 + ClientRetries)
      BY <3>2
    <3>7. k < p
      BY <3>2, <3>3, <3>4, <3>5, <3>6
    <3>8. asked[d].completions <= 3
      <4>1. asked[d].completions \in 0..4 /\ sentiment[d].calls \in 0..2
        BY DEF ResearchInv, AskedRecord, SentimentRecord
      <4> QED BY <2>1, <3>1, <4>1 DEF Asking, SoundAsked, SentimentCost
    <3> QED BY <3>2, <3>6, <3>7, <3>8
  <2>2. RequestsAreBounded
    BY <2>1 DEF RequestsAreBounded, ResearchInv, SoundAsked, SentimentCost
  <2>3. ResultsHaveShape
    BY DEF ResearchInv, SoundAsked, ResultsHaveShape, At
  <2>4. RowsTellAttempts
    BY DEF ResearchInv, SoundRows, RowsTellAttempts
  <2> QED BY <2>2, <2>3, <2>4 DEF AttemptsAreAccounted
<1> QED BY <1>1, ResearchIsInvariant, PTL

\* The research task keeps its types, the bounds of its completions, of its
\* tries and of the client's own retries among them.
THEOREM ResearchIsTyped == ResearchSpec => []ResearchTypeOK
<1>1. ResearchInv => ResearchTypeOK
  BY DEF ResearchInv, ResearchTypeOK, ResearchRecord, AskedRecord, SentimentRecord, RowsRecord
<1> QED BY <1>1, ResearchIsInvariant, PTL

-----------------------------------------------------------------------------
(***************************************************************************)
(* The quant agent.  A frame of another length than the agent's own goes   *)
(* back to a caller of get_latest_price or to an empty download, wherever  *)
(* it lies; an answer is given with the frame at hand.                     *)
(***************************************************************************)

FetchRecord == [at : {"idle", "download", "store", "have", "done"}, rows : Int]
ReaderAnswers == {"none", "price", "raised", "BUY", "SELL", "HOLD"}

Borrowed(n) ==
  \/ \E p \in PriceReader : fetched[p].at \in {"store", "have", "done"}
  \/ "empty" \in MarketFaults /\ n = 0

Known(n) == n \in {NoFrame, history} \/ Borrowed(n)

SoundAnswer(f, a) ==
  /\ f.at # "done" => a = "none"
  /\ a \in {"BUY", "SELL"} => f.rows >= 14
  /\ a = "BUY" => f.rows >= 50

MarketInv ==
  /\ history \in Nat
  /\ entry \in Int
  /\ fetched \in [Readers -> FetchRecord]
  /\ answer \in [Readers -> ReaderAnswers]
  /\ Known(entry)
  /\ \A r \in QuantReader : Known(fetched[r].rows)
  /\ \A r \in QuantReader : SoundAnswer(fetched[r], answer[r])

\* A crossover signal has an average behind it, any signal a strength index.
LEMMA SignalsHaveIndicators ==
  ASSUME NEW n \in Int, NEW rsi \in rsi_14(n), NEW label \in macd_signal_label(n),
         NEW average \in sma_50(n)
  PROVE  LET signal == determine_signal(rsi, label, average) IN
           /\ signal \in {"BUY", "SELL", "HOLD"}
           /\ signal \in {"BUY", "SELL"} => n >= 14
           /\ signal = "BUY" => n >= 50
<1>1. PICK signal : signal = determine_signal(rsi, label, average)
  OBVIOUS
<1>2. signal \in {"BUY", "SELL", "HOLD"}
  BY <1>1 DEF determine_signal
<1>3. signal \in {"BUY", "SELL"} => rsi # "None"
  BY <1>1 DEF determine_signal
<1>4. signal = "BUY" => average = "above"
  BY <1>1 DEF determine_signal
<1>5. rsi # "None" => n >= 14
  BY DEF rsi_14, Has
<1>6. average = "above" => n >= 50
  BY DEF sma_50, Has
<1> QED BY <1>1, <1>2, <1>3, <1>4, <1>5, <1>6

\* One call moves, with a frame that is known and an answer that is sound.
LEMMA ReadersMove ==
  ASSUME MarketInv, NEW r \in Readers, NEW f \in FetchRecord, NEW a \in ReaderAnswers,
         fetched' = [fetched EXCEPT ![r] = f], answer' = [answer EXCEPT ![r] = a],
         history' = history, entry' \in Int,
         fetched[r].at \in {"store", "have", "done"} => f.at \in {"store", "have", "done"},
         entry' = entry \/ entry' = NoFrame \/ (entry' = fetched[r].rows /\ fetched[r].at = "store"),
         r \in QuantReader => (Known(f.rows) /\ SoundAnswer(f, a))
  PROVE  MarketInv'
<1> USE MarketAssumption
<1>1. /\ fetched' \in [Readers -> FetchRecord] /\ fetched'[r] = f
      /\ answer' \in [Readers -> ReaderAnswers] /\ answer'[r] = a
      /\ \A q \in Readers \ {r} : fetched'[q] = fetched[q] /\ answer'[q] = answer[q]
  BY DEF MarketInv
<1>2. PriceReader \subseteq Readers /\ QuantReader \subseteq Readers
  BY DEF Readers
<1>3. \A p \in PriceReader :
        fetched[p].at \in {"store", "have", "done"} => fetched'[p].at \in {"store", "have", "done"}
  BY <1>1, <1>2
<1>4. ASSUME NEW n, Known(n) PROVE Known(n)'
  BY <1>3, <1>4 DEF Known, Borrowed
<1>5. Known(entry)'
  <2>1. CASE entry' = entry
    BY <1>3, <2>1 DEF Known, Borrowed, MarketInv
  <2>2. CASE entry' = NoFrame
    BY <2>2 DEF Known
  <2>3. CASE entry' = fetched[r].rows /\ fetched[r].at = "store"
    <3>1. CASE r \in QuantReader
      <4>1. Known(fetched[r].rows)
        BY <3>1 DEF MarketInv
      <4> QED BY <1>3, <2>3, <4>1 DEF Known, Borrowed
    <3>2. CASE r \notin QuantReader
      <4>1. r \in PriceReader /\ fetched'[r].at \in {"store", "have", "done"}
        BY <1>1, <2>3, <3>2 DEF Readers
      <4> QED BY <4>1 DEF Known, Borrowed
    <3> QED BY <3>1, <3>2
  <2> QED BY <2>1, <2>2, <2>3
<1>6. ASSUME NEW q \in QuantReader PROVE Known(fetched[q].rows)'
  <2>1. Known(fetched'[q].rows)
    BY <1>1, <1>2 DEF MarketInv
  <2> QED BY <1>3, <2>1 DEF Known, Borrowed
<1>7. ASSUME NEW q \in QuantReader PROVE SoundAnswer(fetched[q], answer[q])'
  <2>1. SoundAnswer(fetched'[q], answer'[q])
    BY <1>1, <1>2 DEF MarketInv
  <2> QED BY <2>1 DEF SoundAnswer
<1>8. history' \in Nat
  BY DEF MarketInv
<1> QED BY <1>1, <1>5, <1>6, <1>7, <1>8 DEF MarketInv

\* A frame too short for the library to compute on is not an empty one.
LEMMA ShortFramesHaveRows ==
  ASSUME NEW n \in Int, NEW raises \in ShortFrameRaises(n)
  PROVE  raises \in {TRUE, FALSE} /\ (raises = TRUE => n # 0)
<1>1. CASE n \in 2..13
  <2>1. n # 0
    BY <1>1
  <2>2. raises \in {TRUE, FALSE}
    BY <1>1 DEF ShortFrameRaises
  <2> QED BY <2>1, <2>2
<1>2. CASE n \notin 2..13
  BY <1>2 DEF ShortFrameRaises
<1> QED BY <1>1, <1>2

LEMMA MarketGoesOn ==
  ASSUME MarketInv, [MarketNext]_marketVars
  PROVE  MarketInv'
<1> USE MarketAssumption
<1>1. /\ \A r \in Readers : fetched[r] \in FetchRecord /\ answer[r] \in ReaderAnswers
      /\ fetched \in [Readers -> FetchRecord] /\ answer \in [Readers -> ReaderAnswers]
      /\ history \in Nat /\ entry \in Int /\ Known(entry)
      /\ \A r \in QuantReader : Known(fetched[r].rows) /\ SoundAnswer(fetched[r], answer[r])
      /\ QuantReader \subseteq Readers
  BY DEF MarketInv, Readers
\* A call that goes on without an answer.
<1>2. ASSUME NEW r \in Readers, NEW f \in FetchRecord,
             fetched' = [fetched EXCEPT ![r] = f],
             answer' = answer, history' = history,
             fetched[r].at \in {"idle", "download", "store"},
             fetched[r].at = "store" => f.at = "have",
             entry' = entry \/ (entry' = fetched[r].rows /\ fetched[r].at = "store"),
             r \in QuantReader => Known(f.rows)
      PROVE  MarketInv'
  <2>1. fetched[r].at \in {"store", "have", "done"} => f.at \in {"store", "have", "done"}
    BY <1>2
  <2>2. entry' \in Int
    BY <1>1, <1>2 DEF FetchRecord
  <2>3. answer' = [answer EXCEPT ![r] = answer[r]]
    BY <1>1, <1>2
  <2>4. r \in QuantReader => Known(f.rows) /\ SoundAnswer(f, answer[r])
    <3> SUFFICES ASSUME r \in QuantReader PROVE Known(f.rows) /\ SoundAnswer(f, answer[r])
      OBVIOUS
    <3>1. answer[r] = "none"
      BY <1>1, <1>2 DEF SoundAnswer
    <3> QED BY <1>2, <3>1 DEF SoundAnswer
  <2>5. answer[r] \in ReaderAnswers
    BY <1>1
  <2> QED BY <1>2, <2>1, <2>2, <2>3, <2>4, <2>5, ReadersMove
<1>3. ASSUME NEW r \in Readers, Lookup(r) PROVE MarketInv'
  <2>1. PICK n \in {entry, NoFrame} :
          fetched' = [fetched EXCEPT ![r] = [at |-> IF n = NoFrame THEN "download" ELSE "have",
                                             rows |-> n]]
    BY <1>3 DEF Lookup
  <2>2. PICK at \in {"download", "have"} : at = IF n = NoFrame THEN "download" ELSE "have"
    OBVIOUS
  <2>3. n \in Int /\ Known(n)
    BY <1>1 DEF Known, NoFrame
  <2>4. fetched[r].at = "idle" /\ UNCHANGED <<history, entry, answer>>
    BY <1>3 DEF Lookup
  <2>5. PICK f \in FetchRecord : f = [at |-> at, rows |-> n]
    <3>1. [at |-> at, rows |-> n] \in FetchRecord
      BY <2>3 DEF FetchRecord
    <3> QED BY <3>1
  <2>6. fetched' = [fetched EXCEPT ![r] = f]
    BY <2>1, <2>2, <2>5
  <2> QED BY <1>2, <2>3, <2>4, <2>5, <2>6
<1>4. ASSUME NEW r \in Readers, Download(r) PROVE MarketInv'
  <2>1. PICK n : /\ n \in {period_rows(r)} \cup {0 : f \in MarketFaults \cap {"empty"}}
                 /\ fetched' = [fetched EXCEPT ![r] = [at |-> "store", rows |-> n]]
    BY <1>4 DEF Download
  <2>2. n \in Int /\ (r \in QuantReader => Known(n))
    <3>1. n = period_rows(r) \/ (n = 0 /\ "empty" \in MarketFaults)
      <4>1. PICK E : E = {0 : f \in MarketFaults \cap {"empty"}}
        OBVIOUS
      <4>2. n \in {period_rows(r)} \cup E
        BY <2>1, <4>1
      <4>3. n \in E => n = 0 /\ "empty" \in MarketFaults
        BY <4>1
      <4> QED BY <4>2, <4>3
    <3>2. period_rows(r) \in Int /\ (r \in QuantReader => period_rows(r) = history)
      BY <1>1 DEF period_rows, Fewer
    <3> QED BY <3>1, <3>2 DEF Known, Borrowed
  <2>3. fetched[r].at = "download" /\ UNCHANGED <<history, entry, answer>>
    BY <1>4 DEF Download
  <2>4. PICK f \in FetchRecord : f = [at |-> "store", rows |-> n]
    <3>1. [at |-> "store", rows |-> n] \in FetchRecord
      BY <2>2 DEF FetchRecord
    <3> QED BY <3>1
  <2>5. fetched' = [fetched EXCEPT ![r] = f]
    BY <2>1, <2>4
  <2> QED BY <1>2, <2>2, <2>3, <2>4, <2>5
<1>5. ASSUME NEW r \in Readers, StoreFrame(r) PROVE MarketInv'
  <2>1. PICK n \in Int : n = fetched[r].rows
    BY <1>1 DEF FetchRecord
  <2>2. /\ fetched[r].at = "store" /\ entry' \in {n, entry} /\ UNCHANGED <<history, answer>>
        /\ fetched' = [fetched EXCEPT ![r].at = "have"]
    BY <1>5, <2>1 DEF StoreFrame
  <2>3. fetched[r] = [at |-> "store", rows |-> n]
    BY <1>1, <2>1, <2>2 DEF FetchRecord
  <2>4. PICK f \in FetchRecord :
          f = [fetched[r] EXCEPT !.at = "have"] /\ f.at = "have" /\ f.rows = n
    <3>1. [at |-> "have", rows |-> n] \in FetchRecord
      BY DEF FetchRecord
    <3>2. [fetched[r] EXCEPT !.at = "have"] = [at |-> "have", rows |-> n]
      BY <2>3
    <3> QED BY <3>1, <3>2
  <2>5. fetched' = [fetched EXCEPT ![r] = f]
    BY <1>1, <2>2, <2>4
  <2>6. r \in QuantReader => Known(n)
    BY <1>1, <2>1
  <2> QED BY <1>2, <2>1, <2>2, <2>4, <2>5, <2>6
\* A call that ends with an answer.
<1>6. ASSUME NEW r \in Readers, NEW a \in ReaderAnswers,
             fetched' = [fetched EXCEPT ![r].at = "done"], answer' = [answer EXCEPT ![r] = a],
             UNCHANGED <<history, entry>>,
             r \in QuantReader =>
               /\ a \in {"BUY", "SELL"} => fetched[r].rows >= 14
               /\ a = "BUY" => fetched[r].rows >= 50
      PROVE  MarketInv'
  <2>1. PICK f : f = [fetched[r] EXCEPT !.at = "done"]
    OBVIOUS
  <2>2. f \in FetchRecord /\ f.at = "done" /\ f.rows = fetched[r].rows
    BY <1>1, <2>1 DEF FetchRecord
  <2>3. fetched' = [fetched EXCEPT ![r] = f]
    BY <1>1, <1>6, <2>1
  <2>4. r \in QuantReader => Known(f.rows) /\ SoundAnswer(f, a)
    BY <1>1, <1>6, <2>2 DEF SoundAnswer
  <2>5. history' = history /\ entry' = entry /\ entry' \in Int
    BY <1>1, <1>6
  <2>6. f.at \in {"store", "have", "done"}
    BY <2>2
  <2> QED BY <1>6, <2>2, <2>3, <2>4, <2>5, <2>6, ReadersMove
<1>8. ASSUME NEW r \in Readers, DownloadFails(r) PROVE MarketInv'
  BY <1>6, <1>8 DEF DownloadFails, ReaderAnswers
<1>9. ASSUME NEW r \in Readers, LatestPrice(r) PROVE MarketInv'
  <2>1. r \in PriceReader /\ r \notin QuantReader
    BY <1>9 DEF LatestPrice
  <2>2. PICK a \in {"raised", "price"} : answer' = [answer EXCEPT ![r] = a]
    BY <1>9 DEF LatestPrice
  <2>3. fetched' = [fetched EXCEPT ![r].at = "done"] /\ UNCHANGED <<history, entry>>
    BY <1>9 DEF LatestPrice
  <2> QED BY <1>6, <2>1, <2>2, <2>3 DEF ReaderAnswers
<1>10. ASSUME NEW r \in Readers, RunQuant(r) PROVE MarketInv'
  <2>1. PICK raises \in ShortFrameRaises(fetched[r].rows),
             rsi \in rsi_14(fetched[r].rows), label \in macd_signal_label(fetched[r].rows),
             average \in sma_50(fetched[r].rows) :
          answer' = [answer EXCEPT ![r] =
            CASE raises -> "raised"
              [] fetched[r].rows = 0 -> "HOLD"
              [] OTHER -> determine_signal(rsi, label, average)]
    BY <1>10 DEF RunQuant
  <2>2. PICK n \in Int : n = fetched[r].rows
    BY <1>1 DEF FetchRecord
  <2>3. raises \in {TRUE, FALSE} /\ (raises = TRUE => n # 0)
    BY <2>1, <2>2, ShortFramesHaveRows
  <2>4. PICK signal \in {"BUY", "SELL", "HOLD"} :
          /\ signal = determine_signal(rsi, label, average)
          /\ signal \in {"BUY", "SELL"} => n >= 14
          /\ signal = "BUY" => n >= 50
    BY <2>2, SignalsHaveIndicators
  <2>5. PICK a \in {"raised", "HOLD", signal} : answer' = [answer EXCEPT ![r] = a]
    <3>1. CASE raises = TRUE
      BY <2>1, <2>2, <2>3, <3>1
    <3>2. CASE raises = FALSE
      <4>1. CASE n = 0
        BY <2>1, <2>2, <3>2, <4>1
      <4>2. CASE n # 0
        BY <2>1, <2>2, <2>4, <3>2, <4>2
      <4> QED BY <4>1, <4>2
    <3> QED BY <2>3, <3>1, <3>2
  <2>6. fetched' = [fetched EXCEPT ![r].at = "done"] /\ UNCHANGED <<history, entry>>
    BY <1>10 DEF RunQuant
  <2>7. a \in ReaderAnswers /\ (a \in {"BUY", "SELL"} => n >= 14) /\ (a = "BUY" => n >= 50)
    BY <2>4, <2>5 DEF ReaderAnswers
  <2> QED BY <1>6, <2>2, <2>5, <2>6, <2>7
<1>11. CASE FrameExpires
  <2>1. entry' = NoFrame /\ UNCHANGED <<history, fetched, answer>>
    BY <1>11 DEF FrameExpires
  <2> QED BY <1>1, <2>1 DEF MarketInv, Known, Borrowed, SoundAnswer, NoFrame
<1>12. CASE UNCHANGED marketVars
  BY <1>12 DEF marketVars, MarketInv, Known, Borrowed, SoundAnswer
<1> QED
  BY <1>3, <1>4, <1>5, <1>8, <1>9, <1>10, <1>11, <1>12 DEF MarketNext

\* Frames are known and answers sound at all times.
LEMMA MarketIsInvariant == MarketSpec => []MarketInv
<1>1. MarketInit => MarketInv
  <2> SUFFICES ASSUME MarketInit PROVE MarketInv
    OBVIOUS
  <2>1. history \in Nat /\ entry = NoFrame /\ NoFrame \in Int
    BY MarketAssumption DEF MarketInit, NoFrame
  <2>2. [at |-> "idle", rows |-> NoFrame] \in FetchRecord
    BY <2>1 DEF FetchRecord
  <2>3. QuantReader \subseteq Readers
    BY DEF Readers
  <2> QED
    BY <2>1, <2>2, <2>3 DEF MarketInit, MarketInv, Known, SoundAnswer, ReaderAnswers
<1> QED BY <1>1, MarketGoesOn, PTL DEF MarketSpec

\* Whatever frame it was handed, the quant agent signals only with enough rows
\* behind it, and a short frame came from a caller of get_latest_price or an
\* empty download.
THEOREM QuantAnswersHaveGrounds == MarketSpec => []QuantAnswersAreFounded
<1>1. MarketInv => QuantAnswersAreFounded
  <2> SUFFICES ASSUME MarketInv PROVE QuantAnswersAreFounded
    OBVIOUS
  <2>1. ShortHistoryIsBorrowed
    BY DEF MarketInv, ShortHistoryIsBorrowed, Known, Borrowed
  <2>2. SignalsNeedHistory
    <3>1. QuantReader \subseteq Readers
      BY DEF Readers
    <3> QED BY <3>1 DEF MarketInv, SoundAnswer, SignalsNeedHistory
  <2> QED BY <2>1, <2>2 DEF QuantAnswersAreFounded
<1> QED BY <1>1, MarketIsInvariant, PTL

\* A call with the frames of the constants.
FetchOf == [at : {"idle", "download", "store", "have", "done"}, rows : Frame]

\* Each step of fetch_ohlcv and its callers keeps the types.
LEMMA MarketStaysTyped ==
  ASSUME MarketTypeOK, [MarketNext]_marketVars
  PROVE  MarketTypeOK'
<1> USE MarketAssumption
<1>1. /\ history \in History /\ entry \in Frame
      /\ fetched \in [Readers -> FetchOf] /\ answer \in [Readers -> ReaderAnswers]
  BY DEF MarketTypeOK, FetchOf, ReaderAnswers
<1>2. /\ NoFrame \in Frame /\ 0 \in Frame /\ history \in Frame /\ Fewer(5, history) \in Frame
  BY <1>1 DEF Frame
<1> DEFINE Moved == /\ history' = history /\ entry' \in Frame
                    /\ fetched' \in [Readers -> FetchOf] /\ answer' \in [Readers -> ReaderAnswers]
<1>3. SUFFICES Moved
  BY <1>1 DEF MarketTypeOK, FetchOf, ReaderAnswers, Frame
<1>4. CASE FrameExpires
  BY <1>1, <1>2, <1>4 DEF FrameExpires
<1>5. ASSUME NEW r \in Readers, Lookup(r) PROVE Moved
  <2>1. PICK n \in {entry, NoFrame} :
          fetched' = [fetched EXCEPT ![r] = [at |-> IF n = NoFrame THEN "download" ELSE "have",
                                             rows |-> n]]
    BY <1>5 DEF Lookup
  <2>2. [at |-> IF n = NoFrame THEN "download" ELSE "have", rows |-> n] \in FetchOf
    BY <1>1, <1>2 DEF FetchOf
  <2> QED BY <1>1, <1>5, <2>1, <2>2 DEF Lookup
<1>6. ASSUME NEW r \in Readers, Download(r) PROVE Moved
  <2>1. PICK n \in {period_rows(r), 0} :
          fetched' = [fetched EXCEPT ![r] = [at |-> "store", rows |-> n]]
    BY <1>6 DEF Download
  <2>2. [at |-> "store", rows |-> n] \in FetchOf
    BY <1>2 DEF FetchOf, period_rows
  <2> QED BY <1>1, <1>6, <2>1, <2>2 DEF Download
<1>7. ASSUME NEW r \in Readers, NEW at \in {"have", "done"}
      PROVE  [fetched[r] EXCEPT !.at = at] \in FetchOf
  BY <1>1 DEF FetchOf
<1>8. ASSUME NEW r \in Readers, DownloadFails(r) PROVE Moved
  <2>1. [fetched[r] EXCEPT !.at = "done"] \in FetchOf
    BY <1>7
  <2>2. "raised" \in ReaderAnswers
    BY DEF ReaderAnswers
  <2> QED BY <1>1, <1>8, <2>1, <2>2 DEF DownloadFails
<1>9. ASSUME NEW r \in Readers, StoreFrame(r) PROVE Moved
  <2>1. [fetched[r] EXCEPT !.at = "have"] \in FetchOf
    BY <1>7
  <2>2. fetched[r].rows \in Frame
    BY <1>1 DEF FetchOf
  <2>3. entry' \in {fetched[r].rows, entry}
    BY <1>9 DEF StoreFrame
  <2> QED BY <1>1, <1>9, <2>1, <2>2, <2>3 DEF StoreFrame
<1>10. ASSUME NEW r \in Readers, LatestPrice(r) PROVE Moved
  <2>1. [fetched[r] EXCEPT !.at = "done"] \in FetchOf
    BY <1>7
  <2>2. PICK a \in {"raised", "price"} : answer' = [answer EXCEPT ![r] = a]
    BY <1>10 DEF LatestPrice
  <2>3. a \in ReaderAnswers
    BY DEF ReaderAnswers
  <2> QED BY <1>1, <1>10, <2>1, <2>2, <2>3 DEF LatestPrice
<1>11. ASSUME NEW r \in Readers, RunQuant(r) PROVE Moved
  <2>1. [fetched[r] EXCEPT !.at = "done"] \in FetchOf
    BY <1>7
  <2>2. PICK n : n = fetched[r].rows
    OBVIOUS
  <2>3. n \in Int
    <3>1. \A h \in History : h \in Int /\ Fewer(5, h) \in Int
      BY DEF Fewer
    <3>2. Frame \subseteq Int
      <4> SUFFICES ASSUME NEW f \in Frame PROVE f \in Int
        OBVIOUS
      <4>1. f = NoFrame \/ f = 0 \/ f \in History \/ \E h \in History : f = Fewer(5, h)
        BY DEF Frame
      <4>2. NoFrame \in Int
        BY DEF NoFrame
      <4>3. CASE \E h \in History : f = Fewer(5, h)
        <5>1. PICK h \in History : f = Fewer(5, h)
          BY <4>3
        <5> QED BY <3>1, <5>1
      <4>4. f \in History => f \in Int
        OBVIOUS
      <4> QED BY <4>1, <4>2, <4>3, <4>4
    <3> QED BY <1>1, <2>2, <3>2 DEF FetchOf
  <2>4. PICK raises \in ShortFrameRaises(fetched[r].rows),
             rsi \in rsi_14(fetched[r].rows), label \in macd_signal_label(fetched[r].rows),
             average \in sma_50(fetched[r].rows) :
          answer' = [answer EXCEPT ![r] =
            CASE raises -> "raised"
              [] fetched[r].rows = 0 -> "HOLD"
              [] OTHER -> determine_signal(rsi, label, average)]
    BY <1>11 DEF RunQuant
  <2>5. raises \in {TRUE, FALSE} /\ (raises = TRUE => n # 0)
    BY <2>2, <2>3, <2>4, ShortFramesHaveRows
  <2>6. PICK signal \in {"BUY", "SELL", "HOLD"} : signal = determine_signal(rsi, label, average)
    BY DEF determine_signal
  <2>7. PICK a \in {"raised", "HOLD", signal} : answer' = [answer EXCEPT ![r] = a]
    <3>1. CASE raises = TRUE
      BY <2>2, <2>4, <2>5, <3>1
    <3>2. CASE raises = FALSE
      <4>1. CASE n = 0
        BY <2>2, <2>4, <3>2, <4>1
      <4>2. CASE n # 0
        BY <2>2, <2>4, <2>6, <3>2, <4>2
      <4> QED BY <4>1, <4>2
    <3> QED BY <2>5, <3>1, <3>2
  <2>8. a \in ReaderAnswers
    BY <2>6, <2>7 DEF ReaderAnswers
  <2> QED BY <1>1, <1>11, <2>1, <2>7, <2>8 DEF RunQuant
<1>12. CASE UNCHANGED marketVars
  BY <1>1, <1>12 DEF marketVars
<1> QED
  BY <1>4, <1>5, <1>6, <1>8, <1>9, <1>10, <1>11, <1>12 DEF MarketNext

\* Every frame is one that a period of the history gives.
THEOREM MarketIsTyped == MarketSpec => []MarketTypeOK
<1>1. MarketInit => MarketTypeOK
  BY MarketAssumption DEF MarketInit, MarketTypeOK, Frame
<1> QED BY <1>1, MarketStaysTyped, PTL DEF MarketSpec
================================================================================
