---------------------------- MODULE IngestionProofs ----------------------------
(***************************************************************************)
(* Proofs about the ingestions, for any number of callers, requests,       *)
(* filings and articles, every limit and every set of faults: what one     *)
(* life of the limiter's key lets through, when a filing is stored twice,  *)
(* that no article is lost between the two stores, that the chunks of a    *)
(* text cover it, what a search at EDGAR waits for; and the types of all   *)
(* parts of MCIngestion, with the invariants of RecordsProofs.             *)
(***************************************************************************)
EXTENDS MCIngestion, RecordsProofs, WellFoundedInduction

-----------------------------------------------------------------------------
(***************************************************************************)
(* The limiter.  The bound on the admitted calls is not inductive: a       *)
(* caller between its two commands is counted already and not yet          *)
(* admitted, there is one at most, and the key has no time to live then.   *)
(***************************************************************************)

Pending == IF \E c \in Caller : caller[c] = "first" THEN 1 ELSE 0

LimiterInv ==
  /\ TypeOK
  /\ \A c, d \in Caller : caller[c] = "first" /\ caller[d] = "first" => c = d
  /\ \A c \in Caller : caller[c] = "first" => count > 0 /\ ~expires
  /\ count = 0 => admitted = 0 /\ ~expires
  /\ admitted + Pending <= count
  /\ admitted + Pending <= MaxCalls

\* At most one caller is between its two commands.
LEMMA PendingIsCounted ==
  ASSUME LimiterInv
  PROVE  Cardinality({c \in Caller : caller[c] = "first"}) = Pending
<1> DEFINE First == {c \in Caller : caller[c] = "first"}
<1>1. CASE \E c \in Caller : caller[c] = "first"
  <2>1. PICK c \in Caller : caller[c] = "first"
    BY <1>1
  <2>2. First = {c}
    BY <2>1 DEF LimiterInv
  <2> QED BY <1>1, <2>2, FS_Singleton DEF Pending
<1>2. CASE ~\E c \in Caller : caller[c] = "first"
  <2>1. First = {}
    BY <1>2
  <2> QED BY <1>2, <2>1, FS_EmptySet DEF Pending
<1> QED BY <1>1, <1>2

\* Each command, its failure and the end of a window keep the invariant.
LEMMA LimiterStep ==
  ASSUME LimiterInv, [Next]_vars
  PROVE  LimiterInv'
<1> USE LimiterAssumption DEF LimiterInv, TypeOK, Pending, Ending
<1>1. ASSUME NEW c \in Caller, Incr(c) PROVE LimiterInv'
  <2>1. caller[c] = "idle"
    BY <1>1 DEF Incr
  <2>2. CASE count = 0
    BY <1>1, <2>2 DEF Incr, Admits
  <2>3. CASE count # 0
    <3>1. \A d \in Caller : caller'[d] = "first" <=> caller[d] = "first"
      BY <1>1, <2>3 DEF Incr
    <3>2. Pending' = Pending
      BY <3>1
    <3>3. /\ count' = count + 1 /\ count' \in 0..MaxCount
          /\ admitted' = IF count + 1 <= MaxCalls THEN admitted + 1 ELSE admitted
          /\ UNCHANGED expires /\ cut' \in BOOLEAN
      BY <1>1, <2>3 DEF Incr, Admits
    <3>4. caller' \in [Caller -> {"idle", "first"} \cup Ending]
      BY <1>1 DEF Incr
    <3>5. admitted' \in 0..MaxCount /\ admitted' + Pending' <= count'
          /\ admitted' + Pending' <= MaxCalls
      BY <3>2, <3>3
    <3> QED BY <3>1, <3>3, <3>4, <3>5
  <2> QED BY <2>2, <2>3
<1>2. ASSUME NEW c \in Caller, IncrFails(c) PROVE LimiterInv'
  BY <1>2 DEF IncrFails
<1>3. ASSUME NEW c \in Caller, Expire(c) PROVE LimiterInv'
  <2>1. \A d \in Caller : caller'[d] # "first"
    BY <1>3 DEF Expire
  <2>2. Pending = 1 /\ Pending' = 0
    BY <1>3, <2>1 DEF Expire
  <2>3. admitted' = admitted + 1 /\ expires' = TRUE /\ UNCHANGED <<count, cut>> /\ count > 0
    BY <1>3 DEF Expire
  <2>4. caller' \in [Caller -> {"idle", "first"} \cup Ending]
    BY <1>3 DEF Expire
  <2>5. admitted' + Pending' <= count' /\ admitted' + Pending' <= MaxCalls
        /\ admitted' \in 0..MaxCount
    BY <2>2, <2>3
  <2> QED BY <2>1, <2>3, <2>4, <2>5
<1>4. ASSUME NEW c \in Caller, ExpireFails(c) \/ Crash(c) PROVE LimiterInv'
  <2>1. /\ caller[c] = "first" /\ UNCHANGED <<count, expires, admitted>> /\ cut' = TRUE
        /\ caller' \in {[caller EXCEPT ![c] = "open"], [caller EXCEPT ![c] = "dead"]}
    BY <1>4 DEF ExpireFails, Crash
  <2>2. \A d \in Caller : caller'[d] # "first"
    BY <2>1
  <2>3. Pending' = 0 /\ Pending = 1
    BY <2>1, <2>2
  <2>4. caller' \in [Caller -> {"idle", "first"} \cup Ending]
    BY <2>1
  <2> QED BY <2>1, <2>2, <2>3, <2>4
<1>5. ASSUME NEW c \in Caller, Again(c) PROVE LimiterInv'
  BY <1>5 DEF Again
<1>6. CASE Elapse
  <2>1. \A d \in Caller : caller'[d] # "first"
    BY <1>6 DEF Elapse
  <2>2. Pending' = 0
    BY <2>1
  <2>3. count' = 0 /\ expires' = FALSE /\ admitted' = 0 /\ UNCHANGED <<caller, cut>>
    BY <1>6 DEF Elapse
  <2>4. count' \in 0..MaxCount /\ admitted' \in 0..MaxCount
    BY <2>3
  <2>5. expires' \in BOOLEAN /\ cut' \in BOOLEAN
    BY <2>3
  <2>6. caller' \in [Caller -> {"idle", "first"} \cup Ending]
    BY <2>3
  <2>7. admitted' + Pending' <= count' /\ admitted' + Pending' <= MaxCalls
    BY <2>2, <2>3
  <2> QED BY <2>1, <2>3, <2>4, <2>5, <2>6, <2>7
<1>7. CASE UNCHANGED vars
  BY <1>7 DEF vars
<1> QED BY <1>1, <1>2, <1>3, <1>4, <1>5, <1>6, <1>7 DEF Next

-----------------------------------------------------------------------------
(***************************************************************************)
(* The ingestions behind the limiter.  Each admitted call still owes some  *)
(* requests of the 2 + MaxResults that it stands for; a request settles    *)
(* one.                                                                    *)
(***************************************************************************)

PerCall == 2 + MaxResults
Filings == {Filing[k] : k \in 1..Len(Filing)}
WorkRecord ==
  [at : {"none", "lookup", "list", "pdf", "look", "commit"}, list : Seq(Filings), old : BOOLEAN]

WorkTyped ==
  /\ copies \in [Filings -> 0..MaxCopies]
  /\ work \in [Caller -> WorkRecord]
  /\ sent \in Nat
  /\ \A c \in Caller :
       /\ Len(work[c].list) <= MaxResults
       /\ work[c].at \in {"look", "commit"} => work[c].list # <<>>
       /\ caller[c] \notin {"allowed", "open"} => work[c] = NoWork
       /\ caller[c] = "open" /\ work[c].at # "none" => work[c].old

\* The requests that an ingestion with work w may still make in the present
\* window, when its caller is at k.
Due(w, k) ==
  IF w.old \/ k \notin {"allowed", "open"} THEN 0
  ELSE IF w.at = "none" THEN IF k = "allowed" THEN PerCall ELSE 0
  ELSE IF w.at = "lookup" THEN PerCall
  ELSE IF w.at = "list" THEN PerCall - 1
  ELSE IF w.at = "pdf" THEN Len(w.list)
  ELSE Len(w.list) - 1
owed == [c \in Caller |-> Due(work[c], caller[c])]

Debts(f) == {p \in Caller \X (1..PerCall) : p[2] <= f[p[1]]}

\* Two ingestions that both found no row are known to have overlapped.
CopyInv ==
  \A f \in Filings :
    /\ copies[f] > 1 => f \in overlapped
    /\ \A c \in Between(f) : copies[f] > 0 => f \in overlapped
    /\ \A c, d \in Between(f) : c # d => f \in overlapped

BudgetInv == sent + Cardinality(Debts(owed)) <= admitted * PerCall

IngestionInv == LimiterInv /\ WorkTyped /\ CopyInv /\ BudgetInv

LEMMA DebtsAreFinite ==
  ASSUME NEW f \in [Caller -> 0..PerCall]
  PROVE  IsFiniteSet(Debts(f)) /\ Cardinality(Debts(f)) \in Nat
<1>1. IsFiniteSet(1..PerCall)
  BY FilingAssumption, FS_Interval DEF PerCall
<1>2. IsFiniteSet(Caller \X (1..PerCall))
  BY <1>1, FS_Product, LimiterAssumption
<1>3. Debts(f) \in SUBSET (Caller \X (1..PerCall))
  BY DEF Debts
<1> QED BY <1>2, <1>3, FS_Subset, FS_CardinalityType

\* Nobody owes more than before.
LEMMA DebtsKeep ==
  ASSUME NEW f \in [Caller -> 0..PerCall], NEW g \in [Caller -> 0..PerCall],
         \A c \in Caller : g[c] <= f[c]
  PROVE  Cardinality(Debts(g)) <= Cardinality(Debts(f))
<1>1. Debts(g) \in SUBSET Debts(f)
  BY FilingAssumption DEF Debts, PerCall
<1> QED BY <1>1, DebtsAreFinite, FS_Subset

\* Nobody owes more than before, and c owes less.
LEMMA DebtsShrink ==
  ASSUME NEW f \in [Caller -> 0..PerCall], NEW g \in [Caller -> 0..PerCall],
         NEW c \in Caller, g[c] < f[c],
         \A d \in Caller : g[d] <= f[d]
  PROVE  Cardinality(Debts(g)) + 1 <= Cardinality(Debts(f))
<1> DEFINE p == <<c, f[c]>>
<1>1. p \in Debts(f)
  BY FilingAssumption DEF Debts, PerCall
<1>2. Debts(g) \in SUBSET (Debts(f) \ {p})
  BY FilingAssumption DEF Debts, PerCall
<1>3. /\ IsFiniteSet(Debts(f) \ {p})
      /\ Cardinality(Debts(f) \ {p}) = Cardinality(Debts(f)) - 1
  BY <1>1, DebtsAreFinite, FS_RemoveElement
<1>4. Cardinality(Debts(g)) <= Cardinality(Debts(f) \ {p})
  BY <1>2, <1>3, FS_Subset
<1> QED BY <1>3, <1>4, DebtsAreFinite

\* Only c owes more than before: the requests of one call at most.
LEMMA DebtsGrow ==
  ASSUME NEW f \in [Caller -> 0..PerCall], NEW g \in [Caller -> 0..PerCall],
         NEW c \in Caller,
         \A d \in Caller \ {c} : g[d] <= f[d]
  PROVE  Cardinality(Debts(g)) <= Cardinality(Debts(f)) + PerCall
<1> DEFINE S == {c} \X (1..PerCall)
<1>1. PerCall \in Nat
  BY FilingAssumption DEF PerCall
<1>0. IsFiniteSet({c}) /\ Cardinality({c}) = 1
  BY FS_Singleton
<1>2. IsFiniteSet(1..PerCall) /\ Cardinality(1..PerCall) = PerCall
  BY <1>1, FS_Interval
<1>9. IsFiniteSet(S) /\ Cardinality(S) = Cardinality({c}) * Cardinality(1..PerCall)
  BY <1>0, <1>2, FS_Product
<1>3. IsFiniteSet(S) /\ Cardinality(S) = PerCall
  BY <1>0, <1>1, <1>2, <1>9
<1>4. Debts(g) \in SUBSET (Debts(f) \cup S)
  <2> SUFFICES ASSUME NEW p \in Debts(g) PROVE p \in Debts(f) \cup S
    OBVIOUS
  <2>1. p \in Caller \X (1..PerCall) /\ p[2] <= g[p[1]]
    BY DEF Debts
  <2>2. CASE p[1] = c
    BY <2>1, <2>2
  <2>3. CASE p[1] # c
    <3>1. g[p[1]] <= f[p[1]] /\ p[1] \in Caller /\ p[2] \in 1..PerCall
      BY <2>1, <2>3
    <3>2. p[2] <= f[p[1]]
      BY <1>1, <2>1, <3>1
    <3> QED BY <2>1, <3>2 DEF Debts
  <2> QED BY <2>2, <2>3
<1>5. /\ IsFiniteSet(Debts(f) \cup S)
      /\ Cardinality(Debts(f) \cup S) = Cardinality(Debts(f)) + Cardinality(S)
                                        - Cardinality(Debts(f) \cap S)
  BY <1>3, DebtsAreFinite, FS_Union
<1>6. Cardinality(Debts(f) \cap S) \in Nat
  <2>1. Debts(f) \cap S \in SUBSET S
    OBVIOUS
  <2> QED BY <2>1, <1>3, FS_Subset, FS_CardinalityType
<1>7. Cardinality(Debts(g)) <= Cardinality(Debts(f) \cup S)
  BY <1>4, <1>5, FS_Subset
<1>8. Cardinality(Debts(f)) \in Nat /\ Cardinality(Debts(g)) \in Nat
  BY DebtsAreFinite
<1> QED BY <1>1, <1>3, <1>5, <1>6, <1>7, <1>8

LEMMA OwedIsTyped == WorkTyped => owed \in [Caller -> 0..PerCall]
<1> SUFFICES ASSUME WorkTyped, NEW c \in Caller
                PROVE  Due(work[c], caller[c]) \in 0..PerCall
  BY DEF owed
<1>1. work[c] \in WorkRecord /\ Len(work[c].list) \in 0..MaxResults /\ PerCall = 2 + MaxResults
      /\ MaxResults \in Nat
  BY FilingAssumption DEF WorkTyped, WorkRecord, PerCall
<1>2. work[c].at \in {"look", "commit"} => Len(work[c].list) > 0
  BY <1>1 DEF WorkTyped, WorkRecord
<1> QED BY <1>1, <1>2 DEF Due, WorkRecord

\* The ingestion of c goes on.
LEMMA WorkMoves ==
  ASSUME WorkTyped, NEW c \in Caller, NEW new \in WorkRecord, WorksOn(c, new),
         UNCHANGED caller, caller[c] \in {"allowed", "open"},
         Len(new.list) <= MaxResults,
         new.at \in {"look", "commit"} => new.list # <<>>,
         caller[c] = "open" /\ new.at # "none" => new.old,
         copies' \in [Filings -> 0..MaxCopies], sent' \in Nat
  PROVE  WorkTyped'
BY DEF WorkTyped, WorksOn

\* The ingestion of c is over.
LEMMA WorkQuits ==
  ASSUME LimiterInv, WorkTyped, NEW c \in Caller, Quits(c), UNCHANGED copies, sent' \in Nat
  PROVE  WorkTyped'
<1>1. caller \in [Caller -> {"idle", "first"} \cup Ending]
  BY DEF LimiterInv, TypeOK
<1>2. NoWork \in WorkRecord /\ Len(NoWork.list) = 0 /\ NoWork.at = "none"
  BY DEF NoWork, WorkRecord
<1>3. Len(NoWork.list) <= MaxResults
  BY <1>2, FilingAssumption
<1> QED BY <1>1, <1>2, <1>3 DEF WorkTyped, Quits, WorksOn

LEMMA AsksCounts == ASSUME sent \in Nat, NEW c \in Caller, Asks(c) PROVE sent' \in Nat
BY DEF Asks

\* What the ingestions may be in the middle of, after each step.
LEMMA WorkTypedStep ==
  ASSUME LimiterInv, WorkTyped, [IngestionNext]_ingestionVars
  PROVE  WorkTyped'
<1> USE FilingAssumption
<1>1. caller \in [Caller -> {"idle", "first"} \cup Ending]
  BY DEF LimiterInv, TypeOK
<1>2. /\ work \in [Caller -> WorkRecord] /\ sent \in Nat
      /\ copies \in [Filings -> 0..MaxCopies]
      /\ \A c \in Caller : /\ work[c] \in WorkRecord
                           /\ Len(work[c].list) <= MaxResults
                           /\ work[c].at \in {"look", "commit"} => work[c].list # <<>>
                           /\ work[c].at # "none" => caller[c] \in {"allowed", "open"}
                           /\ caller[c] = "open" /\ work[c].at # "none" => work[c].old
  BY DEF WorkTyped, NoWork
<1>3. ASSUME NEW c \in Caller,
             Incr(c) \/ IncrFails(c) \/ Expire(c) \/ ExpireFails(c) \/ Crash(c) \/ Refused(c),
             UNCHANGED filingVars
      PROVE  WorkTyped'
  <2>1. caller[c] \notin {"allowed", "open"} /\ \A d \in Caller : d # c => caller'[d] = caller[d]
    BY <1>1, <1>3 DEF Incr, IncrFails, Expire, ExpireFails, Crash, Refused, Again, Ending
  <2>2. work[c] = NoWork
    BY <2>1 DEF WorkTyped
  <2>3. NoWork.at = "none"
    BY DEF NoWork
  <2> QED BY <1>3, <2>1, <2>2, <2>3 DEF filingVars, WorkTyped
<1>4. ASSUME NEW c \in Caller, Begin(c) PROVE WorkTyped'
  <2> DEFINE new == [work[c] EXCEPT !.at = "lookup", !.old = @ \/ caller[c] = "open"]
  <2>1. new \in WorkRecord /\ new.list = work[c].list /\ new.at = "lookup"
        /\ (caller[c] = "open" => new.old)
    BY <1>2 DEF WorkRecord
  <2>2. /\ WorksOn(c, new) /\ caller[c] \in {"allowed", "open"}
        /\ UNCHANGED <<caller, copies, sent>>
    BY <1>4 DEF Begin, vars
  <2> HIDE DEF new
  <2> QED BY <1>2, <2>1, <2>2, WorkMoves
<1>5. ASSUME NEW c \in Caller, LookupCode(c) PROVE WorkTyped'
  <2> DEFINE new == [work[c] EXCEPT !.at = "list"]
  <2>1. new \in WorkRecord /\ new.list = work[c].list /\ new.at = "list" /\ new.old = work[c].old
    BY <1>2 DEF WorkRecord
  <2>2. WorksOn(c, new) /\ work[c].at = "lookup" /\ UNCHANGED <<caller, copies>> /\ sent' \in Nat
    BY <1>2, <1>5, AsksCounts DEF LookupCode, vars
  <2> HIDE DEF new
  <2> QED BY <1>2, <2>1, <2>2, WorkMoves
<1>6. ASSUME NEW c \in Caller, List(c) PROVE WorkTyped'
  <2>1. PICK n \in 0..Len(Filing) :
          WorksOn(c, [work[c] EXCEPT !.at = "pdf",
                        !.list = SubSeq(Filing, 1, IF n < MaxResults THEN n ELSE MaxResults)])
    BY <1>6 DEF List
  <2> DEFINE m == IF n < MaxResults THEN n ELSE MaxResults
             list == SubSeq(Filing, 1, m)
             new == [work[c] EXCEPT !.at = "pdf", !.list = list]
  <2>2. m \in 0..Len(Filing) /\ m <= MaxResults
    BY FilingAssumption
  <2>3. list \in Seq(Filings) /\ Len(list) = m
    BY <2>2, FilingAssumption DEF Filings
  <2> HIDE DEF list, m
  <2>4. new \in WorkRecord /\ new.list = list /\ new.at = "pdf" /\ new.old = work[c].old
    BY <1>2, <2>3 DEF WorkRecord
  <2>5. WorksOn(c, new)
    BY <2>1 DEF list, m
  <2>6. work[c].at = "list" /\ UNCHANGED <<caller, copies>> /\ sent' \in Nat
    BY <1>2, <1>6, AsksCounts DEF List, vars
  <2>7. Len(new.list) <= MaxResults
    BY <2>2, <2>3, <2>4
  <2> HIDE DEF new
  <2> QED BY <1>2, <2>4, <2>5, <2>6, <2>7, WorkMoves
<1>7. ASSUME NEW c \in Caller, BseFails(c) PROVE WorkTyped'
  BY <1>2, <1>7, AsksCounts, WorkQuits DEF BseFails
<1>8. ASSUME NEW c \in Caller, Pdf(c) PROVE WorkTyped'
  <2>0. work[c].at = "pdf" /\ work[c].list # <<>> /\ UNCHANGED <<caller, copies>> /\ sent' \in Nat
    BY <1>2, <1>8, AsksCounts DEF Pdf, vars
  <2>1. CASE WorksOn(c, [work[c] EXCEPT !.at = "look"])
    <3> DEFINE new == [work[c] EXCEPT !.at = "look"]
    <3>1. new \in WorkRecord /\ new.list = work[c].list /\ new.at = "look" /\ new.old = work[c].old
      BY <1>2 DEF WorkRecord
    <3>2. WorksOn(c, new)
      BY <2>1
    <3> HIDE DEF new
    <3> QED BY <1>2, <2>0, <3>1, <3>2, WorkMoves
  <2>2. CASE WorksOn(c, [work[c] EXCEPT !.list = Tail(@)])
    <3> DEFINE new == [work[c] EXCEPT !.list = Tail(@)]
    <3>1. Tail(work[c].list) \in Seq(Filings) /\ Len(Tail(work[c].list)) <= MaxResults
      BY <1>2, <2>0 DEF WorkRecord
    <3>2. new \in WorkRecord /\ new.list = Tail(work[c].list) /\ new.at = "pdf"
          /\ new.old = work[c].old
      BY <1>2, <2>0, <3>1 DEF WorkRecord
    <3>3. WorksOn(c, new)
      BY <2>2
    <3> HIDE DEF new
    <3> QED BY <1>2, <2>0, <3>1, <3>2, <3>3, WorkMoves
  <2> QED BY <1>8, <2>1, <2>2 DEF Pdf
<1>9. ASSUME NEW c \in Caller, Ends(c) \/ CommitFails(c) PROVE WorkTyped'
  BY <1>2, <1>9, WorkQuits DEF Ends, CommitFails
<1>10. ASSUME NEW c \in Caller,
              WorksOn(c, [work[c] EXCEPT !.at = "pdf", !.list = Tail(@)]),
              work[c].at \in {"look", "commit"},
              UNCHANGED <<caller, sent>>, copies' \in [Filings -> 0..MaxCopies]
       PROVE  WorkTyped'
  <2> DEFINE new == [work[c] EXCEPT !.at = "pdf", !.list = Tail(@)]
  <2>1. Tail(work[c].list) \in Seq(Filings) /\ Len(Tail(work[c].list)) <= MaxResults
    BY <1>2, <1>10 DEF WorkRecord
  <2>2. new \in WorkRecord /\ new.list = Tail(work[c].list) /\ new.at = "pdf"
        /\ new.old = work[c].old
    BY <1>2, <2>1 DEF WorkRecord
  <2>3. WorksOn(c, new)
    BY <1>10
  <2> HIDE DEF new
  <2> QED BY <1>2, <1>10, <2>1, <2>2, <2>3, WorkMoves
<1>11. ASSUME NEW c \in Caller, Look(c) PROVE WorkTyped'
  <2>0. work[c].at = "look" /\ UNCHANGED <<caller, copies, sent>>
    BY <1>11 DEF Look, vars
  <2>1. CASE WorksOn(c, [work[c] EXCEPT !.at = "pdf", !.list = Tail(@)])
    BY <1>2, <1>10, <2>0, <2>1
  <2>2. CASE WorksOn(c, [work[c] EXCEPT !.at = "commit"])
    <3> DEFINE new == [work[c] EXCEPT !.at = "commit"]
    <3>1. new \in WorkRecord /\ new.list = work[c].list /\ new.at = "commit"
          /\ new.old = work[c].old
      BY <1>2 DEF WorkRecord
    <3>2. WorksOn(c, new)
      BY <2>2
    <3> HIDE DEF new
    <3> QED BY <1>2, <2>0, <3>1, <3>2, WorkMoves
  <2> QED BY <1>11, <2>1, <2>2 DEF Look
<1>12. ASSUME NEW c \in Caller, Commit(c) PROVE WorkTyped'
  <2>1. work[c].at = "commit" /\ UNCHANGED <<caller, sent>>
        /\ WorksOn(c, [work[c] EXCEPT !.at = "pdf", !.list = Tail(@)])
    BY <1>12 DEF Commit, vars
  <2> DEFINE f == Head(work[c].list)
  <2>2. copies[f] < MaxCopies /\ copies' = [copies EXCEPT ![f] = @ + 1]
    BY <1>12 DEF Commit
  <2>4. f \in Filings
    BY <1>2, <2>1 DEF WorkRecord
  <2> HIDE DEF f
  <2>5. copies[f] \in 0..MaxCopies /\ copies[f] + 1 \in 0..MaxCopies
    BY <1>2, <2>2, <2>4
  <2>3. copies' \in [Filings -> 0..MaxCopies]
    BY <1>2, <2>2, <2>4, <2>5
  <2> QED BY <1>10, <2>1, <2>3
<1>13. CASE NewWindow
  <2>1. /\ UNCHANGED <<caller, copies>> /\ sent' = 0
        /\ \A c \in Caller : work'[c] = [work[c] EXCEPT !.old = @ \/ caller[c] = "allowed"]
        /\ work' = [c \in Caller |-> [work[c] EXCEPT !.old = @ \/ caller[c] = "allowed"]]
    BY <1>13 DEF NewWindow, Elapse
  <2>2. ASSUME NEW c \in Caller
        PROVE  /\ work'[c] \in WorkRecord /\ work'[c].list = work[c].list
               /\ work'[c].at = work[c].at /\ (work[c].old => work'[c].old)
               /\ caller[c] # "allowed" => work'[c] = work[c]
    <3> DEFINE old == work[c].old \/ caller[c] = "allowed"
               new == [work[c] EXCEPT !.old = old]
    <3>1. work'[c] = new
      BY <2>1
    <3>2. work[c] \in WorkRecord /\ old \in BOOLEAN /\ (work[c].old => old)
      BY <1>2
    <3>3. caller[c] # "allowed" => old = work[c].old
      BY <1>2 DEF WorkRecord
    <3> HIDE DEF old
    <3>4. new \in WorkRecord /\ new.list = work[c].list /\ new.at = work[c].at /\ new.old = old
      BY <3>2 DEF WorkRecord
    <3>5. new.old = work[c].old => new = work[c]
      BY <3>2, <3>4 DEF WorkRecord
    <3> HIDE DEF new
    <3> QED BY <3>1, <3>2, <3>3, <3>4, <3>5
  <2>3. work' \in [Caller -> WorkRecord]
    BY <2>1, <2>2
  <2>4. ASSUME NEW c \in Caller
        PROVE  /\ Len(work'[c].list) <= MaxResults
               /\ work'[c].at \in {"look", "commit"} => work'[c].list # <<>>
    <3>1. Len(work[c].list) <= MaxResults
          /\ (work[c].at \in {"look", "commit"} => work[c].list # <<>>)
      BY <1>2
    <3>2. work'[c].list = work[c].list /\ work'[c].at = work[c].at
      BY <2>2
    <3> QED BY <3>1, <3>2
  <2>5. ASSUME NEW c \in Caller, caller[c] \notin {"allowed", "open"}
        PROVE  work'[c] = NoWork
    <3>1. work[c] = NoWork
      BY <2>5 DEF WorkTyped
    <3>2. work'[c] = work[c]
      BY <2>2, <2>5
    <3> QED BY <3>1, <3>2
  <2>6. ASSUME NEW c \in Caller, caller[c] = "open", work'[c].at # "none"
        PROVE  work'[c].old
    <3>1. work[c].at # "none" /\ (work[c].old => work'[c].old)
      BY <2>2, <2>6
    <3>2. work[c].old
      BY <1>2, <2>6, <3>1
    <3> QED BY <3>1, <3>2
  <2>7. caller' = caller /\ copies' \in [Filings -> 0..MaxCopies] /\ sent' \in Nat
    BY <1>2, <2>1
  <2> QED BY <2>3, <2>4, <2>5, <2>6, <2>7 DEF WorkTyped
<1>14. CASE UNCHANGED ingestionVars
  BY <1>14 DEF ingestionVars, vars, filingVars, WorkTyped
<1> QED
  BY <1>3, <1>4, <1>5, <1>6, <1>7, <1>8, <1>9, <1>11, <1>12, <1>13, <1>14
     DEF IngestionNext, Working

\* An ingestion that is under way belongs to a caller that was let pass.
LEMMA WorkersPassed ==
  ASSUME WorkTyped, NEW c \in Caller, work[c].at # "none"
  PROVE  caller[c] \in {"allowed", "open"}
BY DEF WorkTyped, NoWork

\* The ingestions leave the limiter alone, but for the end of a call.
LEMMA LimiterKeeps ==
  ASSUME LimiterInv, WorkTyped, [IngestionNext]_ingestionVars
  PROVE  LimiterInv'
<1>1. ASSUME NEW c \in Caller, Quits(c), work[c].at # "none",
             UNCHANGED <<count, expires, admitted, cut>>
      PROVE  LimiterInv'
  <2>1. Again(c)
    BY <1>1, WorkersPassed DEF Quits, Again, Ending
  <2> QED BY <2>1, LimiterStep DEF Next
<1>2. ASSUME NEW c \in Caller, Working(c) PROVE LimiterInv'
  <2>1. CASE UNCHANGED vars
    BY <2>1, LimiterStep
  <2>2. CASE /\ BseFails(c) \/ Ends(c) \/ CommitFails(c)
             /\ work[c].at # "none"
    BY <1>1, <2>2 DEF BseFails, Ends, CommitFails
  <2>3. UNCHANGED vars \/ /\ BseFails(c) \/ Ends(c) \/ CommitFails(c)
                          /\ work[c].at # "none"
    BY <1>2 DEF Working, Begin, LookupCode, List, BseFails, Pdf, Ends, Look, Commit, CommitFails
  <2> QED BY <2>1, <2>2, <2>3
<1>3. ASSUME NEW c \in Caller,
             Incr(c) \/ IncrFails(c) \/ Expire(c) \/ ExpireFails(c) \/ Crash(c) \/ Refused(c)
      PROVE  LimiterInv'
  BY <1>3, LimiterStep DEF Next, Refused
<1>4. CASE NewWindow
  BY <1>4, LimiterStep DEF Next, NewWindow
<1>5. CASE UNCHANGED ingestionVars
  BY <1>5, LimiterStep DEF ingestionVars
<1> QED BY <1>2, <1>3, <1>4, <1>5 DEF IngestionNext

\* Nobody comes between a look and a commit.
LEMMA CopiesStay ==
  ASSUME CopyInv, UNCHANGED <<copies, overlapped>>,
         \A d \in Caller : work'[d].at = "commit" =>
           work[d].at = "commit" /\ work'[d].list = work[d].list
  PROVE  CopyInv'
<1>1. \A f \in Filings : Between(f)' \subseteq Between(f)
  BY DEF Between
<1> QED BY <1>1 DEF CopyInv

\* A second copy comes from a filing that is already known to have two ingestions
\* between looking for it and committing it.
LEMMA CopyStep ==
  ASSUME WorkTyped, CopyInv, [IngestionNext]_ingestionVars
  PROVE  CopyInv'
<1>1. /\ work \in [Caller -> WorkRecord] /\ copies \in [Filings -> 0..MaxCopies]
      /\ \A c \in Caller : work[c] \in WorkRecord
      /\ \A c \in Caller : work[c].at \in {"look", "commit"} => work[c].list # <<>>
  BY DEF WorkTyped
<1>2. ASSUME NEW c \in Caller, NEW new \in WorkRecord, WorksOn(c, new),
             UNCHANGED <<copies, overlapped>>, new.at # "commit"
      PROVE  CopyInv'
  BY <1>1, <1>2, CopiesStay DEF WorksOn
<1>3. ASSUME NEW c \in Caller, UNCHANGED <<copies, overlapped>>,
             \A d \in Caller \ {c} : work'[d] = work[d],
             work'[c].at # "commit"
      PROVE  CopyInv'
  BY <1>3, CopiesStay
<1>4. ASSUME NEW c \in Caller, Begin(c) \/ LookupCode(c) \/ List(c) \/ BseFails(c)
                                \/ Pdf(c) \/ Ends(c) \/ CommitFails(c)
      PROVE  CopyInv'
  <2>1. UNCHANGED <<copies, overlapped>>
    BY <1>4 DEF Begin, LookupCode, List, BseFails, Pdf, Ends, CommitFails
  <2>2. \A d \in Caller \ {c} : work'[d] = work[d]
    BY <1>1, <1>4
       DEF Begin, LookupCode, List, BseFails, Pdf, Ends, CommitFails, Quits, WorksOn
  <2>3. CASE Begin(c)
    <3>1. work'[c].at = "lookup"
      BY <1>1, <2>3 DEF Begin, WorksOn, WorkRecord
    <3> QED BY <1>3, <2>1, <2>2, <3>1
  <2>4. CASE LookupCode(c)
    <3>1. work'[c].at = "list"
      BY <1>1, <2>4 DEF LookupCode, WorksOn, WorkRecord
    <3> QED BY <1>3, <2>1, <2>2, <3>1
  <2>5. CASE List(c)
    <3>1. work'[c].at = "pdf"
      BY <1>1, <2>5 DEF List, WorksOn, WorkRecord
    <3> QED BY <1>3, <2>1, <2>2, <3>1
  <2>6. CASE BseFails(c) \/ Ends(c) \/ CommitFails(c)
    <3>1. work'[c].at = "none"
      BY <1>1, <2>6 DEF BseFails, Ends, CommitFails, Quits, WorksOn, NoWork
    <3> QED BY <1>3, <2>1, <2>2, <3>1
  <2>7. CASE Pdf(c)
    <3>1. work[c].at = "pdf" /\ work[c] \in WorkRecord
      BY <1>1, <2>7 DEF Pdf
    <3>2. work'[c].at \in {"pdf", "look"}
      <4>1. CASE WorksOn(c, [work[c] EXCEPT !.at = "look"])
        BY <1>1, <3>1, <4>1 DEF WorksOn, WorkRecord
      <4>2. CASE WorksOn(c, [work[c] EXCEPT !.list = Tail(@)])
        BY <1>1, <3>1, <4>2 DEF WorksOn, WorkRecord
      <4> QED BY <2>7, <4>1, <4>2 DEF Pdf
    <3> QED BY <1>3, <2>1, <2>2, <3>2
  <2> QED BY <1>4, <2>3, <2>4, <2>5, <2>6, <2>7
<1>5. ASSUME NEW c \in Caller, Look(c) PROVE CopyInv'
  <2> DEFINE f == Head(work[c].list)
  <2>1. work[c].at = "look" /\ UNCHANGED copies /\ f \in Filings
    BY <1>1, <1>5 DEF Look, vars, WorkRecord
  <2>2. CASE copies[f] > 0
    <3>1. /\ WorksOn(c, [work[c] EXCEPT !.at = "pdf", !.list = Tail(@)])
          /\ UNCHANGED overlapped
      BY <1>5, <2>2 DEF Look
    <3>2. \A d \in Caller \ {c} : work'[d] = work[d]
      BY <1>1, <3>1 DEF WorksOn
    <3>3. work'[c].at = "pdf"
      BY <1>1, <3>1 DEF WorksOn, WorkRecord
    <3> QED BY <1>3, <2>1, <3>1, <3>2, <3>3
  <2>3. CASE ~(copies[f] > 0)
    <3>1. /\ WorksOn(c, [work[c] EXCEPT !.at = "commit"])
          /\ overlapped' = IF Between(f) = {} THEN overlapped ELSE overlapped \cup {f}
      BY <1>5, <2>3 DEF Look
    <3>2. /\ \A d \in Caller \ {c} : work'[d] = work[d]
          /\ work'[c].at = "commit" /\ work'[c].list = work[c].list
      BY <1>1, <3>1 DEF WorksOn, WorkRecord
    <3>3. \A g \in Filings :
            Between(g)' = IF g = f THEN Between(g) \cup {c} ELSE Between(g)
      BY <2>1, <3>2 DEF Between
    <3>4. overlapped \subseteq overlapped'
      BY <3>1
    <3>5. ASSUME NEW g \in Filings
          PROVE  /\ copies'[g] > 1 => g \in overlapped'
                 /\ \A d \in Between(g)' : copies'[g] > 0 => g \in overlapped'
                 /\ \A d, e \in Between(g)' : d # e => g \in overlapped'
      <4>1. CASE g # f
        BY <2>1, <3>3, <3>4, <4>1 DEF CopyInv
      <4>2. CASE g = f
        <5>1. copies'[g] = copies[f] /\ ~(copies'[g] > 0) /\ ~(copies'[g] > 1)
          BY <1>1, <2>1, <2>3, <4>2
        <5>2. CASE Between(f) = {}
          <6>1. Between(g)' = {c}
            BY <3>3, <4>2, <5>2
          <6> QED BY <5>1, <6>1
        <5>3. CASE Between(f) # {}
          BY <3>1, <4>2, <5>3
        <5> QED BY <5>2, <5>3
      <4> QED BY <4>1, <4>2
    <3> QED BY <3>5 DEF CopyInv, Between
  <2> QED BY <2>2, <2>3
<1>6. ASSUME NEW c \in Caller, Commit(c) PROVE CopyInv'
  <2> DEFINE f == Head(work[c].list)
  <2>1. work[c].at = "commit" /\ UNCHANGED overlapped /\ f \in Filings
    BY <1>1, <1>6 DEF Commit, WorkRecord
  <2>2. copies' = [copies EXCEPT ![f] = @ + 1]
    BY <1>6 DEF Commit
  <2>3. WorksOn(c, [work[c] EXCEPT !.at = "pdf", !.list = Tail(@)])
    BY <1>6 DEF Commit
  <2>4. \A d \in Caller \ {c} : work'[d] = work[d]
    BY <1>1, <2>3 DEF WorksOn
  <2>5. work'[c].at = "pdf"
    BY <1>1, <2>3 DEF WorksOn, WorkRecord
  <2>6. c \in Between(f)
    BY <2>1 DEF Between
  <2> HIDE DEF f
  <2>7. /\ copies'[f] = copies[f] + 1
        /\ \A g \in Filings : g # f => copies'[g] = copies[g]
    BY <1>1, <2>1, <2>2
  <2>8. \A g \in Filings : Between(g)' \subseteq Between(g) \ {c}
    BY <2>4, <2>5 DEF Between
  <2>9. ASSUME NEW g \in Filings
        PROVE  /\ copies'[g] > 1 => g \in overlapped'
               /\ \A d \in Between(g)' : copies'[g] > 0 => g \in overlapped'
               /\ \A d, e \in Between(g)' : d # e => g \in overlapped'
    <3>1. CASE g # f
      BY <2>1, <2>7, <2>8, <3>1 DEF CopyInv
    <3>2. CASE g = f
      <4>1. copies[f] \in Nat
        BY <1>1, <2>1
      <4>2. copies[f] > 0 => f \in overlapped
        BY <2>1, <2>6 DEF CopyInv
      <4>3. \A d \in Between(f) : d # c => f \in overlapped
        BY <2>1, <2>6 DEF CopyInv
      <4>4. copies'[g] > 1 => g \in overlapped'
        BY <2>1, <2>7, <3>2, <4>1, <4>2
      <4> QED BY <2>1, <2>8, <3>2, <4>3, <4>4
    <3> QED BY <3>1, <3>2
  <2> QED BY <2>9 DEF CopyInv, Between
<1>7. CASE NewWindow
  <2>1. UNCHANGED <<copies, overlapped>>
    BY <1>7 DEF NewWindow
  <2>2. ASSUME NEW d \in Caller
        PROVE  work'[d].at = work[d].at /\ work'[d].list = work[d].list
    <3> DEFINE old == work[d].old \/ caller[d] = "allowed"
    <3>1. work'[d] = [work[d] EXCEPT !.old = old]
      BY <1>7 DEF NewWindow
    <3> HIDE DEF old
    <3> QED BY <1>1, <3>1 DEF WorkRecord
  <2> QED BY <2>1, <2>2, CopiesStay
<1>8. ASSUME UNCHANGED filingVars PROVE CopyInv'
  BY <1>8, CopiesStay DEF filingVars
<1> QED
  BY <1>4, <1>5, <1>6, <1>7, <1>8 DEF IngestionNext, ingestionVars, Working

\* Requests that settle nothing leave the budget as it was or better.
LEMMA BudgetKeeps ==
  ASSUME BudgetInv, sent \in Nat, admitted \in Nat,
         owed \in [Caller -> 0..PerCall], owed' \in [Caller -> 0..PerCall],
         UNCHANGED <<sent, admitted>>, \A d \in Caller : owed'[d] <= owed[d]
  PROVE  BudgetInv'
<1>1. Cardinality(Debts(owed')) <= Cardinality(Debts(owed))
  BY DebtsKeep
<1>2. Cardinality(Debts(owed)) \in Nat /\ Cardinality(Debts(owed')) \in Nat
  BY DebtsAreFinite
<1>3. PerCall \in Nat /\ PerCall' = PerCall /\ admitted * PerCall \in Nat
  BY FilingAssumption DEF PerCall
<1>4. sent + Cardinality(Debts(owed)) <= admitted * PerCall
  BY DEF BudgetInv
<1>5. Debts(owed)' = Debts(owed')
  BY <1>3 DEF Debts
<1> HIDE DEF PerCall
<1>6. sent + Cardinality(Debts(owed')) <= admitted * PerCall
  BY <1>1, <1>2, <1>3, <1>4
<1> QED BY <1>3, <1>5, <1>6 DEF BudgetInv

\* A request settles one of those its ingestion owes.
LEMMA BudgetPays ==
  ASSUME BudgetInv, sent \in Nat, admitted \in Nat,
         owed \in [Caller -> 0..PerCall], owed' \in [Caller -> 0..PerCall],
         NEW c \in Caller, Asks(c), UNCHANGED admitted,
         work[c].old => owed'[c] <= owed[c],
         ~work[c].old => owed'[c] < owed[c],
         \A d \in Caller \ {c} : owed'[d] <= owed[d]
  PROVE  BudgetInv'
<1>1. Cardinality(Debts(owed)) \in Nat /\ Cardinality(Debts(owed')) \in Nat
  BY DebtsAreFinite
<1>2. PerCall \in Nat /\ PerCall' = PerCall /\ admitted * PerCall \in Nat
      /\ \A d \in Caller : owed[d] \in 0..PerCall /\ owed'[d] \in 0..PerCall
  BY FilingAssumption DEF PerCall
<1>3. sent + Cardinality(Debts(owed)) <= admitted * PerCall
  BY DEF BudgetInv
<1>4. Debts(owed)' = Debts(owed')
  BY <1>2 DEF Debts
<1>5. CASE work[c].old
  <2>1. sent' = sent
    BY <1>5 DEF Asks
  <2>2. \A d \in Caller : owed'[d] <= owed[d]
    BY <1>5
  <2> QED BY <2>1, <2>2, BudgetKeeps
<1>6. CASE ~work[c].old
  <2>1. sent' = sent + 1
    BY <1>6 DEF Asks
  <2>2. owed'[c] < owed[c] /\ \A d \in Caller : owed'[d] <= owed[d]
    BY <1>2, <1>6
  <2>3. Cardinality(Debts(owed')) + 1 <= Cardinality(Debts(owed))
    BY <2>2, DebtsShrink
  <2>4. sent' + Cardinality(Debts(owed')) <= admitted * PerCall
    BY <1>1, <1>2, <1>3, <2>1, <2>3
  <2> QED BY <1>2, <1>4, <2>4 DEF BudgetInv
<1> QED BY <1>5, <1>6

\* An admitted call may owe all the requests it stands for.
LEMMA BudgetGrows ==
  ASSUME BudgetInv, sent \in Nat, admitted \in Nat,
         owed \in [Caller -> 0..PerCall], owed' \in [Caller -> 0..PerCall],
         NEW c \in Caller, UNCHANGED sent, admitted' = admitted + 1,
         \A d \in Caller \ {c} : owed'[d] <= owed[d]
  PROVE  BudgetInv'
<1>1. Cardinality(Debts(owed)) \in Nat /\ Cardinality(Debts(owed')) \in Nat
  BY DebtsAreFinite
<1>2. PerCall \in Nat /\ PerCall' = PerCall
  BY FilingAssumption DEF PerCall
<1>3. sent + Cardinality(Debts(owed)) <= admitted * PerCall
  BY DEF BudgetInv
<1>4. Debts(owed)' = Debts(owed')
  BY <1>2 DEF Debts
<1>5. Cardinality(Debts(owed')) <= Cardinality(Debts(owed)) + PerCall
  BY DebtsGrow
<1>6. (admitted + 1) * PerCall = admitted * PerCall + PerCall /\ admitted * PerCall \in Nat
  BY <1>2
<1>7. sent + Cardinality(Debts(owed')) <= (admitted + 1) * PerCall
  BY <1>1, <1>2, <1>3, <1>5, <1>6
<1> QED BY <1>2, <1>4, <1>7 DEF BudgetInv

\* The budget of the admitted calls covers what was sent and what is owed.
LEMMA BudgetStep ==
  ASSUME LimiterInv, WorkTyped, WorkTyped', BudgetInv, [IngestionNext]_ingestionVars
  PROVE  BudgetInv'
<1>1. /\ work \in [Caller -> WorkRecord] /\ sent \in Nat
      /\ \A c \in Caller : /\ work[c] \in WorkRecord
                           /\ Len(work[c].list) \in 0..MaxResults
                           /\ work[c].at \in {"look", "commit"} => Len(work[c].list) > 0
                           /\ work[c].at # "none" => caller[c] \in {"allowed", "open"}
                           /\ caller[c] = "open" /\ work[c].at # "none" => work[c].old
  BY DEF WorkTyped, NoWork, WorkRecord
<1>2. caller \in [Caller -> {"idle", "first"} \cup Ending] /\ admitted \in Nat
  BY DEF LimiterInv, TypeOK
<1>3. owed \in [Caller -> 0..PerCall]
  BY OwedIsTyped
<1>4. owed' \in [Caller -> 0..PerCall]
  <2>1. (owed \in [Caller -> 0..PerCall])'
    BY OwedIsTyped, PTL
  <2> QED BY <2>1 DEF PerCall
<1>5. MaxResults \in Nat /\ PerCall = 2 + MaxResults /\ PerCall \in Nat
  BY FilingAssumption DEF PerCall
<1>6. /\ \A c \in Caller : owed[c] = Due(work[c], caller[c])
      /\ \A c \in Caller : owed'[c] = Due(work'[c], caller'[c])
  BY DEF owed
<1>7. \A c \in Caller : owed[c] >= 0 /\ owed[c] \in Nat
  BY <1>3, <1>5
<1>8. \A w, k : w.old \/ k \notin {"allowed", "open"} => Due(w, k) = 0
  BY DEF Due
\* Only the ingestion of c moves, and its call was admitted before.
<1>9. ASSUME NEW c \in Caller, Working(c)
      PROVE  /\ UNCHANGED admitted
             /\ \A d \in Caller \ {c} : owed'[d] <= owed[d]
  <2>1. UNCHANGED admitted /\ \A d \in Caller \ {c} : work'[d] = work[d] /\ caller'[d] = caller[d]
    BY <1>1, <1>2, <1>9
       DEF Working, Begin, LookupCode, List, BseFails, Pdf, Ends, Look, Commit, CommitFails,
           Quits, WorksOn, vars
  <2> QED BY <1>6, <1>7, <2>1
<1>10. ASSUME NEW c \in Caller, Quits(c) PROVE owed'[c] = 0
  <2>1. caller'[c] = "idle"
    BY <1>2, <1>10 DEF Quits
  <2> QED BY <1>6, <1>8, <2>1
<1>11. ASSUME NEW c \in Caller, Begin(c) PROVE BudgetInv'
  <2> DEFINE old == work[c].old \/ caller[c] = "open"
  <2>1. /\ caller[c] \in {"allowed", "open"} /\ work[c].at = "none" /\ UNCHANGED <<caller, sent>>
        /\ work' = [work EXCEPT ![c] = [work[c] EXCEPT !.at = "lookup", !.old = old]]
    BY <1>11 DEF Begin, WorksOn, vars
  <2>2. old \in BOOLEAN
    OBVIOUS
  <2>3. old \/ (~work[c].old /\ caller[c] = "allowed")
    BY <2>1
  <2> HIDE DEF old
  <2>4. work'[c].at = "lookup" /\ work'[c].old = old
    BY <1>1, <2>1, <2>2 DEF WorkRecord
  <2>5. CASE old
    <3>1. owed'[c] = 0
      BY <1>6, <1>8, <2>4, <2>5
    <3> QED BY <1>1, <1>2, <1>3, <1>4, <1>7, <1>9, <1>11, <2>1, <3>1, BudgetKeeps DEF Working
  <2>6. CASE ~old
    <3>1. ~work[c].old /\ caller[c] = "allowed" /\ ~work'[c].old /\ caller'[c] = "allowed"
      BY <2>1, <2>3, <2>4, <2>6
    <3>2. owed[c] = PerCall /\ owed'[c] = PerCall
      BY <1>6, <2>1, <2>4, <3>1 DEF Due
    <3> QED BY <1>1, <1>2, <1>3, <1>4, <1>5, <1>7, <1>9, <1>11, <2>1, <3>2, BudgetKeeps DEF Working
  <2> QED BY <2>5, <2>6
<1>12. ASSUME NEW c \in Caller, Working(c), Asks(c), UNCHANGED caller,
              work[c].at \in {"lookup", "list", "pdf"}, work'[c].old = work[c].old,
              ~work[c].old => owed'[c] < owed[c]
       PROVE  BudgetInv'
  <2>1. CASE work[c].old
    <3>1. owed'[c] = 0
      BY <1>6, <1>8, <1>12, <2>1
    <3> QED BY <1>1, <1>2, <1>3, <1>4, <1>7, <1>9, <1>12, <2>1, <3>1, BudgetPays
  <2>2. CASE ~work[c].old
    BY <1>1, <1>2, <1>3, <1>4, <1>7, <1>9, <1>12, <2>2, BudgetPays
  <2> QED BY <2>1, <2>2
<1>13. ASSUME NEW c \in Caller, LookupCode(c) PROVE BudgetInv'
  <2>1. /\ work[c].at = "lookup" /\ Asks(c) /\ UNCHANGED caller
        /\ work' = [work EXCEPT ![c] = [work[c] EXCEPT !.at = "list"]]
    BY <1>13 DEF LookupCode, WorksOn, vars
  <2>2. work'[c].at = "list" /\ work'[c].old = work[c].old
    BY <1>1, <2>1 DEF WorkRecord
  <2>3. ASSUME ~work[c].old PROVE owed'[c] < owed[c]
    <3>1. owed[c] = PerCall
      BY <1>1, <1>6, <2>1, <2>3 DEF Due
    <3>2. owed'[c] = PerCall - 1
      BY <1>1, <1>6, <2>1, <2>2, <2>3 DEF Due
    <3> QED BY <1>5, <3>1, <3>2
  <2> QED BY <1>12, <1>13, <2>1, <2>2, <2>3 DEF Working
<1>14. ASSUME NEW c \in Caller, List(c) PROVE BudgetInv'
  <2>1. work[c].at = "list" /\ Asks(c) /\ UNCHANGED caller
    BY <1>14 DEF List, vars
  <2>2. work'[c].at = "pdf" /\ work'[c].old = work[c].old
    BY <1>1, <1>14 DEF List, WorksOn, WorkRecord
  <2>3. Len(work'[c].list) <= MaxResults /\ Len(work'[c].list) \in Nat
    BY DEF WorkTyped, WorkRecord
  <2>4. ASSUME ~work[c].old PROVE owed'[c] < owed[c]
    <3>1. owed[c] = PerCall - 1
      BY <1>1, <1>6, <2>1, <2>4 DEF Due
    <3>2. owed'[c] = Len(work'[c].list)
      BY <1>1, <1>6, <2>1, <2>2, <2>4 DEF Due
    <3> QED BY <1>5, <2>3, <3>1, <3>2
  <2> QED BY <1>12, <1>14, <2>1, <2>2, <2>4 DEF Working
<1>15. ASSUME NEW c \in Caller, BseFails(c) PROVE BudgetInv'
  <2>1. work[c].at \in {"lookup", "list"} /\ Asks(c) /\ Quits(c)
    BY <1>15 DEF BseFails
  <2>2. owed'[c] = 0
    BY <1>10, <2>1
  <2>3. ASSUME ~work[c].old PROVE owed[c] > 0
    BY <1>1, <1>5, <1>6, <2>1, <2>3 DEF Due
  <2> QED BY <1>1, <1>2, <1>3, <1>4, <1>7, <1>9, <1>15, <2>1, <2>2, <2>3, BudgetPays DEF Working
<1>16. ASSUME NEW c \in Caller, Pdf(c) PROVE BudgetInv'
  <2>1. work[c].at = "pdf" /\ work[c].list # <<>> /\ Asks(c) /\ UNCHANGED caller
    BY <1>16 DEF Pdf, vars
  <2>2. \/ work' = [work EXCEPT ![c] = [work[c] EXCEPT !.at = "look"]]
        \/ work' = [work EXCEPT ![c] = [work[c] EXCEPT !.list = Tail(@)]]
    BY <1>16 DEF Pdf, WorksOn
  <2>3. work'[c].old = work[c].old
    BY <1>1, <2>2 DEF WorkRecord
  <2>4. Len(work[c].list) > 0 /\ Len(Tail(work[c].list)) = Len(work[c].list) - 1
    BY <1>1, <2>1 DEF WorkRecord
  <2>5. \/ work'[c].at = "look" /\ Len(work'[c].list) = Len(work[c].list)
        \/ work'[c].at = "pdf" /\ Len(work'[c].list) = Len(work[c].list) - 1
    BY <1>1, <2>1, <2>2, <2>4 DEF WorkRecord
  <2>6. ASSUME ~work[c].old PROVE owed'[c] < owed[c]
    <3>1. owed[c] = Len(work[c].list)
      BY <1>1, <1>6, <2>1, <2>6 DEF Due
    <3>2. owed'[c] = Len(work[c].list) - 1
      BY <1>1, <1>6, <2>1, <2>3, <2>5, <2>6 DEF Due
    <3> QED BY <1>1, <3>1, <3>2
  <2> QED BY <1>12, <1>16, <2>1, <2>3, <2>6 DEF Working
<1>17. ASSUME NEW c \in Caller, Ends(c) \/ CommitFails(c) PROVE BudgetInv'
  <2>1. Quits(c) /\ UNCHANGED sent
    BY <1>17 DEF Ends, CommitFails
  <2>2. owed'[c] = 0
    BY <1>10, <2>1
  <2> QED BY <1>1, <1>2, <1>3, <1>4, <1>7, <1>9, <1>17, <2>1, <2>2, BudgetKeeps DEF Working
<1>18. ASSUME NEW c \in Caller, Look(c) \/ Commit(c) PROVE BudgetInv'
  <2>1. work[c].at \in {"look", "commit"} /\ UNCHANGED <<caller, sent>>
    BY <1>18 DEF Look, Commit, vars
  <2>2. \/ work' = [work EXCEPT ![c] = [work[c] EXCEPT !.at = "commit"]]
        \/ work' = [work EXCEPT ![c] = [work[c] EXCEPT !.at = "pdf", !.list = Tail(@)]]
    BY <1>18 DEF Look, Commit, WorksOn
  <2>3. work'[c].old = work[c].old
    <3>1. CASE work' = [work EXCEPT ![c] = [work[c] EXCEPT !.at = "commit"]]
      BY <1>1, <3>1 DEF WorkRecord
    <3>2. CASE work' = [work EXCEPT ![c] = [work[c] EXCEPT !.at = "pdf", !.list = Tail(@)]]
      BY <1>1, <3>2 DEF WorkRecord
    <3> QED BY <2>2, <3>1, <3>2
  <2>4. Len(work[c].list) > 0 /\ Len(Tail(work[c].list)) = Len(work[c].list) - 1
    BY <1>1, <2>1 DEF WorkRecord
  <2>5. \/ work'[c].at = "commit" /\ Len(work'[c].list) = Len(work[c].list)
        \/ work'[c].at = "pdf" /\ Len(work'[c].list) = Len(work[c].list) - 1
    BY <1>1, <2>1, <2>2, <2>4 DEF WorkRecord
  <2>6. owed'[c] <= owed[c]
    <3>1. CASE work[c].old
      BY <1>6, <1>7, <1>8, <2>3, <3>1
    <3>2. CASE ~work[c].old
      <4>1. owed[c] = Len(work[c].list) - 1
        BY <1>1, <1>6, <2>1, <3>2 DEF Due
      <4>2. owed'[c] = Len(work[c].list) - 1
        BY <1>1, <1>6, <2>1, <2>3, <2>5, <3>2 DEF Due
      <4> QED BY <1>1, <4>1, <4>2
    <3> QED BY <3>1, <3>2
  <2> QED BY <1>1, <1>2, <1>3, <1>4, <1>7, <1>9, <1>18, <2>1, <2>6, BudgetKeeps DEF Working
<1>19. ASSUME NEW c \in Caller,
              Incr(c) \/ IncrFails(c) \/ Expire(c) \/ ExpireFails(c) \/ Crash(c) \/ Refused(c),
              UNCHANGED filingVars
       PROVE  BudgetInv'
  <2>1. caller[c] \notin {"allowed", "open"} /\ \A d \in Caller \ {c} : caller'[d] = caller[d]
    BY <1>2, <1>19 DEF Incr, IncrFails, Expire, ExpireFails, Crash, Refused, Again, Ending
  <2>2. UNCHANGED <<work, sent>> /\ work[c].at = "none"
    BY <1>1, <1>19, <2>1 DEF filingVars
  <2>3. \A d \in Caller \ {c} : owed'[d] <= owed[d]
    BY <1>6, <1>7, <2>1, <2>2
  <2>4. CASE admitted' = admitted + 1
    BY <1>1, <1>2, <1>3, <1>4, <2>2, <2>3, <2>4, BudgetGrows
  <2>5. CASE UNCHANGED admitted
    <3>1. caller'[c] # "allowed"
      <4>1. CASE Incr(c)
        <5>1. ~(count > 0 /\ Admits(count + 1))
          BY <1>2, <2>5, <4>1 DEF Incr
        <5>2. count = 0 \/ count > 0
          BY DEF LimiterInv, TypeOK
        <5>3. caller'[c] \in {"first", "denied"}
          BY <1>2, <4>1, <5>1, <5>2 DEF Incr
        <5> QED BY <5>3
      <4>2. CASE IncrFails(c) \/ ExpireFails(c) \/ Crash(c) \/ Refused(c)
        BY <1>2, <4>2 DEF IncrFails, ExpireFails, Crash, Refused, Again
      <4>3. CASE Expire(c)
        BY <1>2, <2>5, <4>3 DEF Expire
      <4> QED BY <1>19, <4>1, <4>2, <4>3
    <3>2. owed'[c] = 0
      BY <1>6, <2>2, <3>1 DEF Due
    <3> QED BY <1>1, <1>2, <1>3, <1>4, <1>7, <2>2, <2>3, <2>5, <3>2, BudgetKeeps
  <2>6. admitted' = admitted + 1 \/ UNCHANGED admitted
    BY <1>19 DEF Incr, IncrFails, Expire, ExpireFails, Crash, Refused, Again
  <2> QED BY <2>4, <2>5, <2>6
<1>20. CASE NewWindow
  <2>1. /\ sent' = 0 /\ admitted' = 0 /\ UNCHANGED caller
        /\ work' = [c \in Caller |-> [work[c] EXCEPT !.old = @ \/ caller[c] = "allowed"]]
    BY <1>20 DEF NewWindow, Elapse
  <2>2. ASSUME NEW c \in Caller PROVE owed'[c] = 0
    <3> DEFINE old == work[c].old \/ caller[c] = "allowed"
    <3>1. work'[c] = [work[c] EXCEPT !.old = old]
      BY <2>1
    <3>2. old \in BOOLEAN
      OBVIOUS
    <3>3. old \/ caller[c] # "allowed"
      OBVIOUS
    <3>4. caller[c] = "open" /\ work[c].at # "none" => old
      BY <1>1
    <3> HIDE DEF old
    <3>5. work'[c].old = old /\ work'[c].at = work[c].at
      BY <1>1, <3>1, <3>2 DEF WorkRecord
    <3>6. CASE old
      BY <1>6, <1>8, <3>5, <3>6
    <3>7. CASE ~old
      BY <1>6, <2>1, <3>3, <3>4, <3>5, <3>7 DEF Due
    <3> QED BY <3>6, <3>7
  <2>3. Debts(owed') = {}
    BY <1>5, <2>2 DEF Debts
  <2>4. Cardinality(Debts(owed')) = 0
    BY <2>3, FS_EmptySet
  <2>5. Debts(owed)' = Debts(owed') /\ PerCall' = PerCall
    BY DEF Debts, PerCall
  <2>6. 0 + 0 <= 0 * PerCall
    BY <1>5
  <2> QED BY <2>1, <2>4, <2>5, <2>6 DEF BudgetInv
<1>21. CASE UNCHANGED ingestionVars
  <2>1. UNCHANGED <<sent, admitted, work, caller>>
    BY <1>21 DEF ingestionVars, vars, filingVars
  <2>2. \A d \in Caller : owed'[d] <= owed[d]
    BY <1>6, <1>7, <2>1
  <2> QED BY <1>1, <1>2, <1>3, <1>4, <2>1, <2>2, BudgetKeeps
<1> QED
  BY <1>11, <1>13, <1>14, <1>15, <1>16, <1>17, <1>18, <1>19, <1>20, <1>21
     DEF IngestionNext, Working

LEMMA IngestionStarts == IngestionInit => IngestionInv
<1> SUFFICES ASSUME IngestionInit PROVE IngestionInv
  OBVIOUS
<1>1. LimiterInv
  <2>1. count = 0 /\ expires = FALSE /\ admitted = 0 /\ cut = FALSE
        /\ caller = [c \in Caller |-> "idle"]
    BY DEF IngestionInit, Init
  <2>2. \A c \in Caller : caller[c] # "first"
    BY <2>1
  <2>3. Pending = 0
    BY <2>2 DEF Pending
  <2>6. count \in 0..MaxCount /\ admitted \in 0..MaxCount
    BY <2>1, LimiterAssumption
  <2>7. expires \in BOOLEAN /\ cut \in BOOLEAN
    BY <2>1
  <2>4. TypeOK
    BY <2>1, <2>6, <2>7 DEF TypeOK
  <2>5. 0 + 0 <= 0 /\ 0 + 0 <= MaxCalls
    BY LimiterAssumption
  <2> QED BY <2>1, <2>2, <2>3, <2>4, <2>5 DEF LimiterInv
<1>2. \A c \in Caller : work[c] = NoWork /\ NoWork \in WorkRecord /\ Len(NoWork.list) = 0
                        /\ NoWork.at = "none"
  BY DEF IngestionInit, NoWork, WorkRecord
<1>3. WorkTyped
  BY <1>2, FilingAssumption DEF IngestionInit, WorkTyped, Filings
<1>4. CopyInv
  BY <1>2 DEF IngestionInit, CopyInv, Filings, Between
<1>5. BudgetInv
  <2>1. \A c \in Caller : owed[c] = 0
    BY <1>2 DEF owed, Due, IngestionInit, Init
  <2>2. Debts(owed) = {}
    BY <2>1, FilingAssumption DEF Debts, PerCall
  <2>3. Cardinality(Debts(owed)) = 0
    BY <2>2, FS_EmptySet
  <2>4. sent = 0 /\ admitted = 0
    BY DEF IngestionInit, Init
  <2>5. 0 + 0 <= 0 * PerCall
    BY FilingAssumption DEF PerCall
  <2> QED BY <2>3, <2>4, <2>5 DEF BudgetInv
<1> QED BY <1>1, <1>3, <1>4, <1>5 DEF IngestionInv

LEMMA IngestionGoesOn ==
  ASSUME IngestionInv, [IngestionNext]_ingestionVars
  PROVE  IngestionInv'
BY LimiterKeeps, WorkTypedStep, CopyStep, BudgetStep DEF IngestionInv

LEMMA IngestionIsInvariant == IngestionSpec => []IngestionInv
BY IngestionStarts, IngestionGoesOn, PTL DEF IngestionSpec

\* One life of the limiter's key admits max_calls calls at most, whatever
\* interrupts a caller between its two commands, and these send the BSE no
\* more requests than 2 + max_results each.
THEOREM WindowIsBounded == IngestionSpec => []WindowBoundsRequests
<1>1. IngestionInv => WindowBoundsRequests
  <2> SUFFICES ASSUME IngestionInv PROVE WindowKeepsLimit /\ AdmissionsBoundRequests
    BY DEF WindowBoundsRequests
  <2>1. WindowKeepsLimit
    BY PendingIsCounted DEF IngestionInv, LimiterInv, WindowKeepsLimit
  <2>2. AdmissionsBoundRequests
    <3>1. owed \in [Caller -> 0..PerCall]
      BY OwedIsTyped DEF IngestionInv
    <3>2. Cardinality(Debts(owed)) \in Nat
      BY <3>1, DebtsAreFinite
    <3>3. admitted \in Nat /\ sent \in Nat /\ PerCall \in Nat /\ admitted * PerCall \in Nat
      BY FilingAssumption DEF IngestionInv, LimiterInv, TypeOK, WorkTyped, PerCall
    <3>4. sent + Cardinality(Debts(owed)) <= admitted * PerCall
      BY DEF IngestionInv, BudgetInv
    <3>5. sent <= admitted * PerCall
      BY <3>2, <3>3, <3>4
    <3> QED BY <3>5 DEF AdmissionsBoundRequests, PerCall
  <2> QED BY <2>1, <2>2
<1> QED BY <1>1, IngestionIsInvariant, PTL

\* No filing is in the table twice unless two ingestions were between looking
\* for it and committing it at the same time.
THEOREM CopiesComeFromOverlap == IngestionSpec => []SecondCopyIsOverlap
<1>1. IngestionInv => SecondCopyIsOverlap
  BY DEF IngestionInv, WorkTyped, CopyInv, SecondCopyIsOverlap
<1> QED BY <1>1, IngestionIsInvariant, PTL

-----------------------------------------------------------------------------
(***************************************************************************)
(* The articles.  What a request was given is unchecked, to be inserted,   *)
(* or in the table already; what it marks is in the table.                 *)
(***************************************************************************)

NewsInv ==
  /\ NewsTypeOK
  /\ SeenIsStored
  /\ \A r \in Refresh :
       /\ refresh[r].at # "idle" => refresh[r].place \in Places
       /\ refresh[r].at = "check" =>
            \A u \in refresh[r].got :
              u \in refresh[r].feed \/ u \in refresh[r].todo \/ article[u] # 0
       /\ refresh[r].at = "insert" =>
            \A u \in refresh[r].got : u \in refresh[r].todo \/ article[u] # 0
       /\ refresh[r].at = "mark" =>
            \A u \in refresh[r].got \cup refresh[r].todo : article[u] # 0

NewsRecord == [at : {"idle", "fetch", "check", "insert", "mark"}, place : 0..Active,
               got : SUBSET Url, feed : SUBSET Url, todo : SUBSET Url]

\* What a request may be in the middle of, given the articles of the table.
Sound(x) ==
  /\ x.at # "idle" => x.place \in Places
  /\ x.at = "check" => \A u \in x.got : u \in x.feed \/ u \in x.todo \/ article[u] # 0
  /\ x.at = "insert" => \A u \in x.got : u \in x.todo \/ article[u] # 0
  /\ x.at = "mark" => \A u \in x.got \cup x.todo : article[u] # 0

\* A request that moves to a sound place keeps the invariant.
LEMMA NewsMoves ==
  ASSUME NewsInv, NEW r \in Refresh, NEW new \in NewsRecord, Moves(r, new),
         UNCHANGED article, seen' \subseteq Url, \A u \in seen' : article[u] # 0,
         Sound(new)
  PROVE  NewsInv'
BY DEF NewsInv, NewsTypeOK, SeenIsStored, Moves, NewsRecord, Sound

\* The next ticker of a request is one of the query, and it has nothing yet.
LEMMA TurnIsSound ==
  ASSUME NewsInv, NEW r \in Refresh
  PROVE  Turn(r) \in NewsRecord /\ Sound(Turn(r)) /\ Turn(r).at \in {"idle", "fetch"}
<1>1. refresh[r] \in NewsRecord
  BY DEF NewsInv, NewsTypeOK, NewsRecord
<1>2. Resting \in NewsRecord /\ Resting.at = "idle"
  BY NewsAssumption DEF Resting, NewsRecord
<1>3. CASE refresh[r].place = Active
  BY <1>2, <1>3 DEF Turn, Sound
<1>4. CASE refresh[r].place # Active
  <2> DEFINE new == [Resting EXCEPT !.at = "fetch", !.place = refresh[r].place + 1]
  <2>0. refresh[r].place \in 0..Active
    BY <1>1 DEF NewsRecord
  <2>1. refresh[r].place + 1 \in Places
    BY <1>4, <2>0, NewsAssumption DEF Places
  <2>2. new \in NewsRecord /\ new.at = "fetch" /\ new.place = refresh[r].place + 1
    <3>1. refresh[r].place + 1 \in 0..Active
      BY <2>1, NewsAssumption DEF Places
    <3> QED BY <1>2, <3>1 DEF NewsRecord
  <2>3. Turn(r) = new
    BY <1>4 DEF Turn
  <2> HIDE DEF new
  <2> QED BY <2>1, <2>2, <2>3 DEF Sound
<1> QED BY <1>3, <1>4

LEMMA NewsGoesOn ==
  ASSUME NewsInv, [NewsNext]_newsVars
  PROVE  NewsInv' /\ (\A u \in Url : article[u] # 0 => article'[u] = article[u])
<1> USE NewsAssumption
<1>1. \A r \in Refresh : refresh[r] \in NewsRecord /\ Sound(refresh[r])
  BY DEF NewsInv, NewsTypeOK, NewsRecord, Sound
<1>2. article \in [Url -> 0..Active] /\ seen \subseteq Url /\ \A u \in seen : article[u] # 0
  BY DEF NewsInv, NewsTypeOK, SeenIsStored
<1>3. ASSUME NEW r \in Refresh, Post(r) \/ Checked(r) \/ Marked(r), Moves(r, Turn(r))
      PROVE  NewsInv' /\ UNCHANGED article
  BY <1>2, <1>3, TurnIsSound, NewsMoves DEF Post, Checked, Marked
<1>4. ASSUME NEW r \in Refresh, InsertFails(r) \/ NewsCrash(r)
      PROVE  NewsInv' /\ UNCHANGED article
  <2>1. Resting \in NewsRecord /\ Sound(Resting)
    BY DEF Resting, NewsRecord, Sound
  <2> QED BY <1>2, <1>4, <2>1, NewsMoves DEF InsertFails, NewsCrash
<1>5. ASSUME NEW r \in Refresh, Fetch(r) PROVE NewsInv' /\ UNCHANGED article
  <2>1. PICK F \in SUBSET Url :
          Moves(r, IF F = {} THEN Turn(r)
                   ELSE [refresh[r] EXCEPT !.at = "check", !.got = F, !.feed = F])
    BY <1>5 DEF Fetch, Feed
  <2>2. UNCHANGED <<article, seen>> /\ refresh[r].at = "fetch"
    BY <1>5 DEF Fetch
  <2>3. CASE F = {}
    BY <1>2, <2>1, <2>2, <2>3, TurnIsSound, NewsMoves
  <2>4. CASE F # {}
    <3> DEFINE new == [refresh[r] EXCEPT !.at = "check", !.got = F, !.feed = F]
    <3>1. new \in NewsRecord /\ new.at = "check" /\ new.got = F /\ new.feed = F
          /\ new.place = refresh[r].place
      BY <1>1 DEF NewsRecord
    <3>2. Moves(r, new)
      BY <2>1, <2>4
    <3> HIDE DEF new
    <3>3. Sound(new)
      BY <1>1, <2>2, <3>1 DEF Sound
    <3> QED BY <1>2, <2>2, <3>1, <3>2, <3>3, NewsMoves
  <2> QED BY <2>3, <2>4
<1>6. ASSUME NEW r \in Refresh, CheckSeen(r) PROVE NewsInv' /\ UNCHANGED article
  <2>1. PICK u \in refresh[r].feed :
          \E found \in {u \in seen} \cup {FALSE : f \in NewsFaults \cap {"redis"}} :
            Moves(r, [refresh[r] EXCEPT !.feed = @ \ {u},
                                        !.todo = IF found THEN @ ELSE @ \cup {u}])
    BY <1>6 DEF CheckSeen
  <2>2. PICK T \in {refresh[r].todo, refresh[r].todo \cup {u}} :
          /\ Moves(r, [refresh[r] EXCEPT !.feed = @ \ {u}, !.todo = T])
          /\ u \in T \/ u \in seen
    BY <2>1
  <2>3. UNCHANGED <<article, seen>> /\ refresh[r].at = "check"
    BY <1>6 DEF CheckSeen
  <2> DEFINE new == [refresh[r] EXCEPT !.feed = @ \ {u}, !.todo = T]
  <2>4. T \in SUBSET Url /\ refresh[r].todo \subseteq T
    BY <1>1, <2>1, <2>2 DEF NewsRecord
  <2>5. new \in NewsRecord /\ new.at = "check" /\ new.got = refresh[r].got
        /\ new.feed = refresh[r].feed \ {u} /\ new.todo = T /\ new.place = refresh[r].place
    BY <1>1, <2>3, <2>4 DEF NewsRecord
  <2>6. Moves(r, new)
    BY <2>2
  <2> HIDE DEF new
  <2>7. Sound(new)
    BY <1>1, <1>2, <2>2, <2>3, <2>4, <2>5 DEF Sound
  <2> QED BY <1>2, <2>3, <2>5, <2>6, <2>7, NewsMoves
<1>7. ASSUME NEW r \in Refresh, Checked(r) PROVE NewsInv' /\ UNCHANGED article
  <2>1. CASE refresh[r].todo = {}
    BY <1>3, <1>7, <2>1 DEF Checked
  <2>2. CASE refresh[r].todo # {}
    <3> DEFINE new == [refresh[r] EXCEPT !.at = "insert"]
    <3>1. new \in NewsRecord /\ new.at = "insert" /\ new.got = refresh[r].got
          /\ new.todo = refresh[r].todo /\ new.place = refresh[r].place
      BY <1>1 DEF NewsRecord
    <3>2. Moves(r, new) /\ refresh[r].at = "check" /\ refresh[r].feed = {}
          /\ UNCHANGED <<article, seen>>
      BY <1>7, <2>2 DEF Checked
    <3> HIDE DEF new
    <3>3. Sound(new)
      BY <1>1, <3>1, <3>2 DEF Sound
    <3> QED BY <1>2, <3>1, <3>2, <3>3, NewsMoves
  <2> QED BY <2>1, <2>2
<1>8. ASSUME NEW r \in Refresh, Insert(r)
      PROVE  NewsInv' /\ \A u \in Url : article[u] # 0 => article'[u] = article[u]
  <2>1. /\ article' = [u \in Url |-> IF u \in refresh[r].todo /\ article[u] = 0
                                     THEN refresh[r].place ELSE article[u]]
        /\ Moves(r, [refresh[r] EXCEPT !.at = "mark"])
        /\ UNCHANGED seen /\ refresh[r].at = "insert"
    BY <1>8 DEF Insert
  <2>2. refresh[r].place \in 1..Active
    BY <1>1, <2>1 DEF Sound, Places
  <2>3. /\ article' \in [Url -> 0..Active]
        /\ \A u \in Url : article[u] # 0 => article'[u] = article[u]
        /\ \A u \in refresh[r].todo : article'[u] # 0
    BY <1>1, <1>2, <2>1, <2>2 DEF NewsRecord
  <2> DEFINE new == [refresh[r] EXCEPT !.at = "mark"]
  <2>4. new \in NewsRecord /\ new.at = "mark" /\ new.got = refresh[r].got
        /\ new.todo = refresh[r].todo /\ new.place = refresh[r].place
    BY <1>1 DEF NewsRecord
  <2>5. refresh' = [refresh EXCEPT ![r] = new]
    BY <2>1 DEF Moves
  <2> HIDE DEF new
  <2>6. ASSUME NEW q \in Refresh
        PROVE  refresh'[q] \in NewsRecord /\ Sound(refresh[q])
               /\ (q # r => refresh'[q] = refresh[q])
    BY <1>1, <2>4, <2>5 DEF NewsInv, NewsTypeOK
  <2>7. refresh'[r] = new /\ refresh' \in [Refresh -> NewsRecord]
    BY <1>1, <2>4, <2>5 DEF NewsInv, NewsTypeOK, NewsRecord
  <2>8. \A u \in seen' : article'[u] # 0
    BY <1>2, <2>1, <2>3
  <2>9. ASSUME NEW q \in Refresh PROVE Sound(refresh[q])'
    <3>1. CASE q = r
      <4>1. \A u \in new.got \cup new.todo : article'[u] # 0
        BY <1>1, <2>1, <2>3, <2>4 DEF Sound, NewsRecord
      <4> QED BY <2>2, <2>4, <2>7, <3>1, <4>1 DEF Sound, Places
    <3>2. CASE q # r
      BY <1>1, <2>3, <2>6, <3>2 DEF Sound, NewsRecord
    <3> QED BY <3>1, <3>2
  <2> QED BY <1>2, <2>1, <2>3, <2>7, <2>8, <2>9 DEF NewsInv, NewsTypeOK, NewsRecord, SeenIsStored, Sound
<1>9. ASSUME NEW r \in Refresh, Mark(r) PROVE NewsInv' /\ UNCHANGED article
  <2>1. PICK u \in refresh[r].todo :
          /\ seen' \in {seen \cup {u}} \cup {seen : f \in NewsFaults \cap {"redis"}}
          /\ Moves(r, [refresh[r] EXCEPT !.todo = @ \ {u}])
    BY <1>9 DEF Mark
  <2>2. refresh[r].at = "mark" /\ UNCHANGED article
    BY <1>9 DEF Mark
  <2> DEFINE new == [refresh[r] EXCEPT !.todo = @ \ {u}]
  <2>3. new \in NewsRecord /\ new.at = "mark" /\ new.got = refresh[r].got
        /\ new.todo = refresh[r].todo \ {u} /\ new.place = refresh[r].place
    BY <1>1, <2>2 DEF NewsRecord
  <2>4. Moves(r, new)
    BY <2>1
  <2> HIDE DEF new
  <2>5. Sound(new) /\ article[u] # 0 /\ u \in Url
    BY <1>1, <2>2, <2>3 DEF Sound, NewsRecord
  <2>6. seen' \subseteq seen \cup {u}
    BY <2>1
  <2> QED BY <1>2, <2>2, <2>3, <2>4, <2>5, <2>6, NewsMoves
<1>10. ASSUME NEW u \in Url, Forget(u) PROVE NewsInv' /\ UNCHANGED article
  BY <1>10 DEF Forget, NewsInv, NewsTypeOK, SeenIsStored
<1>11. ASSUME UNCHANGED newsVars PROVE NewsInv' /\ UNCHANGED article
  BY <1>11 DEF newsVars, NewsInv, NewsTypeOK, SeenIsStored
<1>12. ASSUME NEW r \in Refresh, Post(r) \/ Marked(r) PROVE NewsInv' /\ UNCHANGED article
  BY <1>3, <1>12 DEF Post, Marked
<1> QED
  BY <1>4, <1>5, <1>6, <1>7, <1>8, <1>9, <1>10, <1>11, <1>12 DEF NewsNext

\* A request goes on from a ticker with each of its articles in the table.
LEMMA NothingLeft ==
  ASSUME NewsInv, NEW r \in Refresh, Checked(r) \/ Marked(r), refresh'[r].at # "insert",
         NEW u \in refresh[r].got
  PROVE  article[u] # 0
<1>1. CASE Marked(r)
  BY <1>1 DEF Marked, NewsInv
<1>2. CASE Checked(r)
  <2>1. refresh[r] \in NewsRecord /\ refresh \in [Refresh -> NewsRecord]
    BY DEF NewsInv, NewsTypeOK, NewsRecord
  <2>2. refresh[r].todo # {} => refresh'[r].at = "insert"
    BY <1>2, <2>1 DEF Checked, Moves, NewsRecord
  <2> QED BY <1>2, <2>2 DEF Checked, NewsInv
<1> QED BY <1>1, <1>2

\* What the requests have read, inserted and marked goes together at all times.
LEMMA NewsIsInvariant == NewsSpec => []NewsInv
<1>1. NewsInit => NewsInv
  BY NewsAssumption DEF NewsInit, NewsInv, NewsTypeOK, SeenIsStored, Resting, Places
<1> QED BY <1>1, NewsGoesOn, PTL DEF NewsSpec

\* No article that is marked as seen is missing from the table, none changes
\* its ticker, and no request goes on while one of its articles is missing:
\* with any number of requests, tickers and articles, and every fault.
THEOREM NewsIsKept == NewsSpec => ArticlesAreKept
<1>3. NewsInv => SeenIsStored
  BY DEF NewsInv
<1>4. NewsInv /\ [NewsNext]_newsVars =>
        [\A u \in Url : article[u] # 0 => article'[u] = article[u]]_newsVars
  BY NewsGoesOn
<1>5. NewsInv /\ [NewsNext]_newsVars =>
        [\A r \in Refresh :
           (Checked(r) \/ Marked(r)) /\ refresh'[r].at # "insert"
             => \A u \in refresh[r].got : article[u] # 0]_newsVars
  BY NothingLeft
<1> QED
  BY <1>3, <1>4, <1>5, NewsIsInvariant, PTL
     DEF NewsSpec, ArticlesAreKept, FirstTickerKeeps, NothingIsLeftOut

-----------------------------------------------------------------------------
(***************************************************************************)
(* The chunks.  The words up to the end of the last chunk are covered, and *)
(* while the loop goes on the next chunk begins there or before, and ends  *)
(* behind it.                                                              *)
(***************************************************************************)

Last == IF Len(chunks) = 0 THEN 0 ELSE chunks[Len(chunks)].end

ChunksInv ==
  /\ words \in Nat /\ start \in Nat /\ cutting \in BOOLEAN
  /\ chunks \in Seq([from : Nat, end : Nat])
  /\ \A w \in 0..(Last - 1) : \E i \in 1..Len(chunks) : chunks[i].from <= w /\ w < chunks[i].end
  /\ EveryChunkIsNew
  /\ cutting => start <= Last /\ Last < words /\ Last < start + words_per_chunk
  /\ ~cutting => Last = words

\* One round of the loop.
LEMMA ChunksGoOn ==
  ASSUME ChunksInv, CutChunk
  PROVE  ChunksInv'
<1>1. words_per_chunk \in Nat /\ overlap_words \in Nat /\ overlap_words < words_per_chunk
  BY ChunksAssumption DEF words_per_chunk, overlap_words
<1>2. PICK n \in Nat : n = Len(chunks)
  BY DEF ChunksInv
<1>3. /\ chunks \in Seq([from : Nat, end : Nat])
      /\ \A i \in 1..n : chunks[i] \in [from : Nat, end : Nat]
      /\ Last = IF n = 0 THEN 0 ELSE chunks[n].end
      /\ \A w \in 0..(Last - 1) : \E i \in 1..n : chunks[i].from <= w /\ w < chunks[i].end
      /\ \A i \in 1..n : \A j \in 1..(i - 1) : chunks[j].end < chunks[i].end
  <2>1. chunks \in Seq([from : Nat, end : Nat])
    BY DEF ChunksInv
  <2>2. \A i \in 1..n : chunks[i] \in [from : Nat, end : Nat]
    <3> DEFINE Span == [from : Nat, end : Nat]
    <3>1. chunks \in Seq(Span)
      BY <2>1
    <3> HIDE DEF Span
    <3>2. \A i \in 1..n : chunks[i] \in Span
      BY <1>2, <3>1
    <3> QED BY <3>2 DEF Span
  <2>3. Last = IF n = 0 THEN 0 ELSE chunks[n].end
    BY <1>2 DEF Last
  <2>4. \A w \in 0..(Last - 1) : \E i \in 1..n : chunks[i].from <= w /\ w < chunks[i].end
    BY <1>2 DEF ChunksInv
  <2>5. \A i \in 1..n : \A j \in 1..(i - 1) : chunks[j].end < chunks[i].end
    <3>1. EveryChunkIsNew
      BY DEF ChunksInv
    <3> QED BY <1>2, <3>1 DEF EveryChunkIsNew
  <2> QED BY <2>1, <2>2, <2>3, <2>4, <2>5
<1>4. Last \in Nat
  BY <1>3
<1>5. /\ words \in Nat /\ start \in Nat
      /\ start <= Last /\ Last < words /\ Last < start + words_per_chunk
  BY DEF ChunksInv, CutChunk
<1>6. PICK e \in Nat : e = IF start + words_per_chunk < words THEN start + words_per_chunk ELSE words
  BY <1>1, <1>5
<1>7. /\ Last < e /\ e <= words /\ Chunk = [from |-> start, end |-> e]
      /\ Chunk \in [from : Nat, end : Nat]
  BY <1>1, <1>4, <1>5, <1>6 DEF Chunk
<1>8. /\ chunks' = Append(chunks, Chunk) /\ words' = words
      /\ cutting' = (start + words_per_chunk < words)
      /\ start' = IF cutting' THEN start + words_per_chunk - overlap_words ELSE start
  BY DEF CutChunk
<1>9. /\ chunks' \in Seq([from : Nat, end : Nat]) /\ Len(chunks') = n + 1
      /\ chunks'[n + 1] = Chunk /\ \A i \in 1..n : chunks'[i] = chunks[i]
  BY <1>2, <1>3, <1>7, <1>8
<1>10. Last' = e
  <2>1. Last' = IF Len(chunks') = 0 THEN 0 ELSE chunks'[Len(chunks')].end
    BY DEF Last
  <2> QED BY <1>7, <1>9, <2>1
<1>11. \A w \in 0..(e - 1) : \E i \in 1..(n + 1) : chunks'[i].from <= w /\ w < chunks'[i].end
  <2> SUFFICES ASSUME NEW w \in 0..(e - 1)
               PROVE  \E i \in 1..(n + 1) : chunks'[i].from <= w /\ w < chunks'[i].end
    OBVIOUS
  <2>1. CASE w < Last
    <3>0. w \in 0..(Last - 1)
      BY <1>4, <2>1
    <3>1. PICK i \in 1..n : chunks[i].from <= w /\ w < chunks[i].end
      BY <1>3, <3>0
    <3>2. i \in 1..(n + 1) /\ chunks'[i] = chunks[i]
      BY <1>9
    <3> QED BY <3>1, <3>2
  <2>2. CASE ~(w < Last)
    <3>1. start <= w /\ w < e /\ n + 1 \in 1..(n + 1)
      BY <1>4, <1>5, <2>2
    <3>2. chunks'[n + 1].from = start /\ chunks'[n + 1].end = e
      BY <1>7, <1>9
    <3> QED BY <3>1, <3>2
  <2> QED BY <2>1, <2>2
<1>12. \A j \in 1..n : chunks[j].end \in Nat /\ chunks[j].end <= Last
  <2> SUFFICES ASSUME NEW j \in 1..n PROVE chunks[j].end \in Nat /\ chunks[j].end <= Last
    OBVIOUS
  <2>1. n \in 1..n /\ Last = chunks[n].end /\ chunks[j].end \in Nat
    BY <1>3
  <2>2. CASE j = n
    BY <1>4, <2>1, <2>2
  <2>3. CASE j # n
    <3>1. j \in 1..(n - 1)
      BY <2>3
    <3>2. chunks[j].end < chunks[n].end
      BY <1>3, <2>1, <3>1
    <3> QED BY <1>4, <2>1, <3>2
  <2> QED BY <2>2, <2>3
<1>13. \A i \in 1..(n + 1) : \A j \in 1..(i - 1) : chunks'[j].end < chunks'[i].end
  <2> SUFFICES ASSUME NEW i \in 1..(n + 1), NEW j \in 1..(i - 1)
               PROVE  chunks'[j].end < chunks'[i].end
    OBVIOUS
  <2>1. j \in 1..n /\ chunks'[j] = chunks[j]
    BY <1>9
  <2>2. CASE i \in 1..n
    <3>1. chunks[j].end < chunks[i].end
      BY <1>3, <2>2
    <3> QED BY <1>9, <2>1, <2>2, <3>1
  <2>3. CASE i = n + 1
    <3>1. chunks'[i].end = e
      BY <1>7, <1>9, <2>3
    <3> QED BY <1>4, <1>7, <1>12, <2>1, <3>1
  <2> QED BY <2>2, <2>3
<1>14. cutting' => start' <= e /\ e < words' /\ e < start' + words_per_chunk /\ start' \in Nat
  <2> SUFFICES ASSUME cutting'
               PROVE  start' <= e /\ e < words' /\ e < start' + words_per_chunk /\ start' \in Nat
    OBVIOUS
  <2>1. start + words_per_chunk < words /\ start' = start + words_per_chunk - overlap_words
    BY <1>8
  <2>2. e = start + words_per_chunk /\ words' = words
    BY <1>6, <1>8, <2>1
  <2> QED BY <1>1, <1>5, <2>1, <2>2
<1>15. ~cutting' => e = words' /\ start' \in Nat
  <2> SUFFICES ASSUME ~cutting' PROVE e = words' /\ start' \in Nat
    OBVIOUS
  <2>1. ~(start + words_per_chunk < words) /\ start' = start /\ words' = words
    BY <1>8
  <2> QED BY <1>5, <1>6, <2>1
<1>16. words' \in Nat /\ cutting' \in BOOLEAN
  BY <1>5, <1>8
<1> QED
  <2>1. words_per_chunk' = words_per_chunk
    BY DEF words_per_chunk
  <2>2. EveryChunkIsNew'
    BY <1>9, <1>13 DEF EveryChunkIsNew
  <2> QED BY <1>9, <1>10, <1>11, <1>14, <1>15, <1>16, <2>1, <2>2 DEF ChunksInv

\* Up to the end of the last chunk a text is covered at all times.
LEMMA ChunksAreInvariant == ChunksSpec => []ChunksInv
<1>1. ChunksInit => ChunksInv
  <2>1. words_per_chunk \in Nat /\ overlap_words \in Nat /\ overlap_words < words_per_chunk
        /\ MaxWords \in Nat
    BY ChunksAssumption DEF words_per_chunk, overlap_words
  <2> SUFFICES ASSUME ChunksInit PROVE ChunksInv
    OBVIOUS
  <2>2. /\ chunks = << >> /\ Len(chunks) = 0 /\ Last = 0
        /\ words \in Nat /\ start = 0 /\ cutting = (words > 0)
    BY <2>1 DEF ChunksInit, Last
  <2>3. chunks \in Seq([from : Nat, end : Nat]) /\ cutting \in BOOLEAN
    BY <2>2
  <2>4. cutting => start <= Last /\ Last < words /\ Last < start + words_per_chunk
    <3>1. cutting => words > 0
      BY <2>2
    <3>2. words > 0 => start <= Last /\ Last < words /\ Last < start + words_per_chunk
      BY <2>1, <2>2
    <3> QED BY <3>1, <3>2
  <2>5. ~cutting => Last = words
    <3>1. ~cutting => ~(words > 0)
      BY <2>2
    <3>2. ~(words > 0) => Last = words
      BY <2>2
    <3> QED BY <3>1, <3>2
  <2>6. EveryChunkIsNew
    BY <2>2 DEF EveryChunkIsNew
  <2>7. \A w \in 0..(Last - 1) : FALSE
    BY <2>2
  <2>8. start \in Nat
    BY <2>2
  <2> QED BY <2>2, <2>3, <2>4, <2>5, <2>6, <2>7, <2>8 DEF ChunksInv
<1>2. ChunksInv /\ [ChunksNext]_chunksVars => ChunksInv'
  <2>1. ASSUME ChunksInv, UNCHANGED chunksVars PROVE ChunksInv'
    BY <2>1 DEF chunksVars, ChunksInv, Last, EveryChunkIsNew
  <2> QED BY <2>1, ChunksGoOn DEF ChunksNext
<1> QED BY <1>1, <1>2, PTL DEF ChunksSpec

\* Every word of a text is in a chunk, and no chunk is a tail of one before it,
\* for every text, chunk size and overlap that leaves words to go on by.
THEOREM TextIsCovered == ChunksSpec => []ChunksCoverText
<1>1. ChunksInv => ChunksCoverText
  <2> SUFFICES ASSUME ChunksInv PROVE EveryWordIsKept /\ EveryChunkIsNew
    BY DEF ChunksCoverText
  <2>1. EveryChunkIsNew
    BY DEF ChunksInv
  <2>2. EveryWordIsKept
    BY DEF ChunksInv, EveryWordIsKept
  <2> QED BY <2>1, <2>2
<1> QED BY <1>1, ChunksAreInvariant, PTL

-----------------------------------------------------------------------------
(***************************************************************************)
(* The search at EDGAR.  The waits are bounded by a power of two, which is *)
(* a recursive function: what it returns is shown by the least number for  *)
(* which it would not.                                                     *)
(***************************************************************************)

\* A set of numbers up to n has a least one: the initial segments that end with
\* its members are well-founded by inclusion.
LEMMA Least ==
  ASSUME NEW n \in Nat, NEW B, B \subseteq 0..n, B # {}
  PROVE  \E m \in B : \A k \in B : m <= k
<1> DEFINE T == {0..k : k \in B}
<1>1. IsWellFoundedOn(StrictSubsetOrdering(0..n), SUBSET (0..n))
  <2>1. IsFiniteSet(0..n)
    <3>1. 0 \in Int /\ n \in Int
      OBVIOUS
    <3> QED
      BY <3>1, FS_Interval
  <2> DEFINE S == 0..n
  <2> HIDE DEF S
  <2>2. IsFiniteSet(S)
    BY <2>1 DEF S
  <2>3. IsWellFoundedOn(StrictSubsetOrdering(S), SUBSET S)
    BY <2>2, FS_StrictSubsetOrderingWellFounded, FS_FiniteSubsetsOfFinite
  <2> QED
    BY <2>3 DEF S
<1>2. T \subseteq SUBSET (0..n) /\ T # {}
  <2>1. PICK k \in B : TRUE
    OBVIOUS
  <2>2. 0..k \in T
    OBVIOUS
  <2> QED
    BY <2>2
<1>3. PICK t \in T : \A s \in T : ~ (<<s, t>> \in StrictSubsetOrdering(0..n))
  <2> HIDE DEF T
  <2> QED
    BY <1>1, <1>2, WFMin
<1>4. PICK m \in B : t = 0..m
  OBVIOUS
<1>5. ASSUME NEW k \in B, k < m PROVE FALSE
  <2>1. 0..k \in T /\ 0..k \subseteq 0..m /\ m \in 0..m /\ m \notin 0..k /\ 0..k \in SUBSET (0..n)
        /\ 0..m \in SUBSET (0..n)
    BY <1>5
  <2>2. 0..k # 0..m
    BY <2>1
  <2> QED
    BY <1>3, <1>4, <2>1, <2>2 DEF StrictSubsetOrdering
<1> QED
  BY <1>5

\* The equation of Doubled, up to n.
IsDoubled(g, n) == g = [i \in 0..n |-> IF i = 0 THEN 1 ELSE 2 * g[i - 1]]

\* There is one, up to every number.
LEMMA DoubledExists ==
  ASSUME NEW n \in Nat
  PROVE  \E g : IsDoubled(g, n) /\ g \in [0..n -> Nat \ {0}]
<1> DEFINE Bad == {k \in 0..n : ~ \E g : IsDoubled(g, k) /\ g \in [0..k -> Nat \ {0}]}
<1>1. SUFFICES ASSUME Bad # {} PROVE FALSE
  BY n \in 0..n
<1>2. PICK m \in Bad : \A k \in Bad : m <= k
  <2>1. Bad \subseteq 0..n
    OBVIOUS
  <2> HIDE DEF Bad
  <2> QED
    BY <1>1, <2>1, Least
<1>3. CASE m = 0
  <2> DEFINE g == [i \in 0..0 |-> 1]
  <2>1. IsDoubled(g, 0) /\ g \in [0..0 -> Nat \ {0}]
    BY DEF IsDoubled
  <2> QED
    BY <1>2, <1>3, <2>1
<1>4. CASE m # 0
  <2>1. m - 1 \in 0..n /\ m - 1 \notin Bad
    BY <1>2, <1>4
  <2>2. PICK h : IsDoubled(h, m - 1) /\ h \in [0..(m - 1) -> Nat \ {0}]
    BY <2>1
  <2> DEFINE g == [i \in 0..m |-> IF i = m THEN 2 * h[m - 1] ELSE h[i]]
  <2>3. g \in [0..m -> Nat \ {0}]
    BY <2>2, <1>4
  <2>4. ASSUME NEW i \in 0..m
        PROVE  g[i] = IF i = 0 THEN 1 ELSE 2 * g[i - 1]
    BY <2>2, <1>4 DEF IsDoubled
  <2>5. g = [i \in 0..m |-> IF i = 0 THEN 1 ELSE 2 * g[i - 1]]
    <3> DEFINE v(i) == IF i = 0 THEN 1 ELSE 2 * g[i - 1]
    <3>1. \A i \in 0..m : g[i] = v(i)
      BY <2>4
    <3>2. g = [i \in 0..m |-> g[i]]
      OBVIOUS
    <3> HIDE DEF g, v
    <3>3. g = [i \in 0..m |-> v(i)]
      BY <3>1, <3>2
    <3> QED
      BY <3>3 DEF v
  <2>6. IsDoubled(g, m)
    BY <2>5 DEF IsDoubled
  <2> HIDE DEF g
  <2> QED
    BY <1>2, <2>3, <2>6
<1> QED
  BY <1>3, <1>4

\* What the recursive definition of Doubled says.
LEMMA DoublesUp ==
  /\ Doubled[0] = 1
  /\ \A n \in 0..EdgarRetries : Doubled[n] \in Nat \ {0}
  /\ \A n \in 1..EdgarRetries : Doubled[n] = 2 * Doubled[n - 1]
<1>1. EdgarRetries \in Nat
  BY EdgarAssumption
<1>2. IsDoubled(Doubled, EdgarRetries)
  <2>1. \E g : g = [n \in 0..EdgarRetries |-> IF n = 0 THEN 1 ELSE 2 * g[n - 1]]
    BY <1>1, DoubledExists DEF IsDoubled
  <2> QED
    BY <2>1 DEF IsDoubled, Doubled
<1>3. \A n \in 0..EdgarRetries : Doubled[n] = IF n = 0 THEN 1 ELSE 2 * Doubled[n - 1]
  BY <1>2 DEF IsDoubled
<1> DEFINE Bad == {k \in 0..EdgarRetries : Doubled[k] \notin Nat \ {0}}
<1>4. Bad = {}
  <2> SUFFICES ASSUME Bad # {} PROVE FALSE
    OBVIOUS
  <2>1. PICK m \in Bad : \A k \in Bad : m <= k
    <3>1. Bad \subseteq 0..EdgarRetries
      OBVIOUS
    <3> HIDE DEF Bad
    <3> QED
      BY <1>1, <3>1, Least
  <2>2. CASE m = 0
    BY <1>3, <2>1, <2>2
  <2>3. CASE m # 0
    <3>1. m - 1 \in 0..EdgarRetries /\ m - 1 \notin Bad
      BY <1>1, <2>1, <2>3
    <3> QED
      BY <1>3, <2>1, <2>3, <3>1
  <2> QED
    BY <2>2, <2>3
<1> QED
  BY <1>1, <1>3, <1>4

\* What so many form types may wait in all.
AllForms(f) == f * PerForm

\* An attempt begins with the wait of its number: on its form type was waited
\* one second less, and each form type before it was paid for.
EdgarInv ==
  /\ EdgarTypeOK
  /\ results <= MaxFilings
  /\ search.at \in {"ask", "wait"} =>
       /\ delay.next = Second * Doubled[search.attempt]
       /\ search.form \in 1..Forms
       /\ delay.waited <= AllForms(search.form - 1) + Second * (Doubled[search.attempt] - 1)
  /\ search.at = "wait" => search.attempt < EdgarRetries
  /\ search.at \in {"next", "done", "raised"} => delay.waited <= AllForms(search.form)
  /\ search.at = "done" => results = MaxFilings \/ search.form = Forms

\* No power of two is above the last.
LEMMA DoubledGrows ==
  ASSUME NEW n \in 0..EdgarRetries
  PROVE  Doubled[n] <= Doubled[EdgarRetries]
<1>1. EdgarRetries \in Nat
  BY EdgarAssumption
<1>2. /\ \A k \in 0..EdgarRetries : Doubled[k] \in Nat \ {0}
      /\ \A k \in 1..EdgarRetries : Doubled[k] = 2 * Doubled[k - 1]
  BY DoublesUp
<1> DEFINE Bad == {k \in 0..EdgarRetries : ~ (Doubled[EdgarRetries - k] <= Doubled[EdgarRetries])}
<1>3. Bad = {}
  <2> SUFFICES ASSUME Bad # {} PROVE FALSE
    OBVIOUS
  <2>1. PICK m \in Bad : \A k \in Bad : m <= k
    <3>1. Bad \subseteq 0..EdgarRetries
      OBVIOUS
    <3> HIDE DEF Bad
    <3> QED
      BY <1>1, <3>1, Least
  <2>2. m # 0
    BY <1>1, <1>2, <2>1
  <2>3. m - 1 \in 0..EdgarRetries /\ m - 1 \notin Bad
    BY <1>1, <2>1, <2>2
  <2>4. Doubled[EdgarRetries - m] <= Doubled[EdgarRetries - (m - 1)]
    <3>1. EdgarRetries - (m - 1) \in 1..EdgarRetries
          /\ EdgarRetries - (m - 1) - 1 = EdgarRetries - m
          /\ EdgarRetries - m \in 0..EdgarRetries
      BY <1>1, <2>1, <2>2
    <3> QED
      BY <1>2, <3>1
  <2>5. /\ EdgarRetries - (m - 1) \in 0..EdgarRetries /\ EdgarRetries - m \in 0..EdgarRetries
        /\ EdgarRetries \in 0..EdgarRetries
    BY <1>1, <2>1, <2>2
  <2> QED
    BY <1>2, <2>1, <2>3, <2>4, <2>5
<1>4. EdgarRetries - n \notin Bad /\ EdgarRetries - n \in 0..EdgarRetries
  BY <1>1, <1>3
<1> QED
  BY <1>1, <1>4

\* A form type may wait a whole number of tenths, and one form type more may
\* wait that much more.
LEMMA FormsAddUp ==
  /\ PerForm \in Nat /\ PerForm = Second * (Doubled[EdgarRetries] - 1) + Pause
  /\ AllForms(0) = 0
  /\ \A f \in 0..Forms : AllForms(f) \in Nat
  /\ \A f \in 1..Forms : AllForms(f) = AllForms(f - 1) + PerForm
<1> USE EdgarAssumption
<1>1. PICK d \in Nat \ {0} : d = Doubled[EdgarRetries]
  <2>1. EdgarRetries \in 0..EdgarRetries
    OBVIOUS
  <2> QED
    BY <2>1, DoublesUp
<1>2. PerForm \in Nat /\ PerForm = Second * (Doubled[EdgarRetries] - 1) + Pause
  BY <1>1 DEF PerForm, Second, Pause
<1>3. PICK p \in Nat : p = PerForm
  BY <1>2
<1>4. 0 * p = 0 /\ \A f \in Nat : f * p \in Nat
  OBVIOUS
<1>5. \A f \in 1..Forms : f * p = (f - 1) * p + p
  OBVIOUS
<1>6. \A f \in 0..Forms : f \in Nat
  OBVIOUS
<1> QED
  BY <1>2, <1>3, <1>4, <1>5, <1>6 DEF AllForms

\* While a form type is asked for, its pause can still be paid.
LEMMA PauseIsPaid ==
  ASSUME EdgarInv, search.at \in {"ask", "wait"}
  PROVE  delay.waited + Pause <= AllForms(search.form) /\ AllForms(search.form) \in Nat
<1> USE EdgarAssumption
<1>1. /\ search.form \in 1..Forms /\ search.attempt \in 0..EdgarRetries
      /\ delay \in [next : Nat, waited : Nat]
      /\ delay.waited <= AllForms(search.form - 1) + Second * (Doubled[search.attempt] - 1)
  BY DEF EdgarInv, EdgarTypeOK
<1>2. PICK d \in Nat, e \in Nat :
        d = Doubled[search.attempt] /\ e = Doubled[EdgarRetries] /\ d <= e
  <2>1. EdgarRetries \in 0..EdgarRetries
    OBVIOUS
  <2> QED
    BY <1>1, <2>1, DoublesUp, DoubledGrows
<1>3. PICK a \in Nat : a = AllForms(search.form - 1)
  <2>1. search.form - 1 \in 0..Forms
    BY <1>1
  <2> QED
    BY <2>1, FormsAddUp
<1>4. AllForms(search.form) = a + 10 * (e - 1) + 1
  BY <1>1, <1>2, <1>3, FormsAddUp DEF Second, Pause
<1>5. AllForms(search.form) \in Nat
  <2>1. search.form \in 0..Forms
    BY <1>1
  <2> QED
    BY <2>1, FormsAddUp
<1>6. delay.waited <= a + 10 * (d - 1)
  BY <1>1, <1>2, <1>3 DEF Second
<1> QED
  BY <1>1, <1>2, <1>3, <1>4, <1>5, <1>6 DEF Pause

\* Each step of a search keeps the invariant.
LEMMA EdgarGoesOn == EdgarInv /\ [EdgarNext]_edgarVars => EdgarInv'
<1> SUFFICES ASSUME EdgarInv, [EdgarNext]_edgarVars PROVE EdgarInv'
  OBVIOUS
<1> USE EdgarAssumption
<1> DEFINE Search == [at : {"ask", "wait", "next", "done", "raised"}, form : 0..Forms,
                      attempt : 0..EdgarRetries]
<1>1. search \in Search /\ delay \in [next : Nat, waited : Nat] /\ results \in Nat
      /\ results <= MaxFilings
  BY DEF EdgarInv, EdgarTypeOK
<1>2. /\ Doubled[0] = 1
      /\ \A n \in 0..EdgarRetries : Doubled[n] \in Nat \ {0}
      /\ \A n \in 1..EdgarRetries : Doubled[n] = 2 * Doubled[n - 1]
  BY DoublesUp
<1>3. CASE NextForm
  <2>1. /\ delay' = [next |-> Second, waited |-> delay.waited] /\ results' = results
        /\ delay' \in [next : Nat, waited : Nat]
        /\ delay.waited <= AllForms(search.form) /\ search.form \in 0..Forms
    BY <1>1, <1>3 DEF NextForm, Second, EdgarInv
  <2>2. CASE results >= MaxFilings \/ search.form = Forms
    <3>1. search' = [search EXCEPT !.at = "done"]
      BY <1>3, <2>2 DEF NextForm
    <3> QED
      BY <1>1, <2>1, <2>2, <3>1 DEF EdgarInv, EdgarTypeOK
  <2>3. CASE ~ (results >= MaxFilings \/ search.form = Forms)
    <3>1. search' = [at |-> "ask", form |-> search.form + 1, attempt |-> 0]
      BY <1>3, <2>3 DEF NextForm
    <3>2. PICK f \in 1..Forms : f = search.form + 1 /\ f - 1 = search.form
      BY <1>1, <2>1, <2>3
    <3>3. search' = [at |-> "ask", form |-> f, attempt |-> 0] /\ search' \in Search
      BY <1>1, <3>1, <3>2
    <3>4. Second = Second * 1 /\ Second * (1 - 1) = 0
      BY DEF Second
    <3>5. delay'.waited <= AllForms(f - 1) + Second * (Doubled[0] - 1)
      <4>1. PICK a \in Nat : a = AllForms(search.form)
        BY <2>1, FormsAddUp
      <4> QED
        BY <1>1, <1>2, <2>1, <3>2, <3>4, <4>1
    <3>6. delay'.next = Second * Doubled[0]
      BY <1>2, <2>1, <3>4
    <3> QED
      BY <1>1, <2>1, <3>3, <3>5, <3>6 DEF EdgarInv, EdgarTypeOK
  <2> QED
    BY <2>2, <2>3
<1>pause. ASSUME search.at = "ask", Pauses
      PROVE  delay' \in [next : Nat, waited : Nat] /\ delay'.waited <= AllForms(search.form)
  BY <1>1, <1>pause, PauseIsPaid DEF Pauses, Pause
<1>4. CASE Answered
  <2>1. search.at = "ask" /\ Pauses /\ search' = [search EXCEPT !.at = "next"]
    BY <1>4 DEF Answered
  <2>2. results' \in Nat /\ results' <= MaxFilings
    BY <1>1, <1>4 DEF Answered
  <2>3. search' \in Search /\ search'.at = "next" /\ search'.form = search.form
    BY <1>1, <2>1
  <2> QED
    BY <1>pause, <2>1, <2>2, <2>3 DEF EdgarInv, EdgarTypeOK
<1>5. ASSUME search.at = "ask", SkipForm, UNCHANGED results PROVE EdgarInv'
  <2>1. Pauses /\ search' = [search EXCEPT !.at = "next"]
    BY <1>5 DEF SkipForm
  <2>2. search' \in Search /\ search'.at = "next" /\ search'.form = search.form
    BY <1>1, <2>1
  <2> QED
    BY <1>1, <1>pause, <1>5, <2>1, <2>2 DEF EdgarInv, EdgarTypeOK
<1>6. CASE Malformed
  <2>1. /\ search.at = "ask" /\ search' = [search EXCEPT !.at = "raised"]
        /\ UNCHANGED <<delay, results>>
    BY <1>6 DEF Malformed
  <2>2. search' \in Search /\ search'.at = "raised" /\ search'.form = search.form
    BY <1>1, <2>1
  <2>3. delay.waited <= AllForms(search.form)
    BY <1>1, <2>1, PauseIsPaid DEF Pause
  <2> QED
    BY <1>1, <2>1, <2>2, <2>3 DEF EdgarInv, EdgarTypeOK
<1>7. CASE TurnedAway
  <2>1. CASE search.attempt = EdgarRetries
    BY <1>5, <1>7, <2>1 DEF TurnedAway
  <2>2. CASE search.attempt # EdgarRetries
    <3>1. /\ search.at = "ask" /\ search' = [search EXCEPT !.at = "wait"]
          /\ UNCHANGED <<delay, results>>
      BY <1>7, <2>2 DEF TurnedAway
    <3>2. /\ search' \in Search /\ search'.at = "wait" /\ search'.form = search.form
          /\ search'.attempt = search.attempt /\ search.attempt < EdgarRetries
      BY <1>1, <2>2, <3>1
    <3> QED
      BY <1>1, <3>1, <3>2 DEF EdgarInv, EdgarTypeOK
  <2> QED
    BY <2>1, <2>2
<1>8. CASE BadStatus
  BY <1>5, <1>8 DEF BadStatus
<1>9. CASE Waited
  <2>1. /\ search.at = "wait" /\ results' = results
        /\ search' = [search EXCEPT !.at = "ask", !.attempt = search.attempt + 1]
        /\ delay' = [next |-> 2 * delay.next, waited |-> delay.waited + delay.next]
    BY <1>9 DEF Waited
  <2>2. PICK k \in 0..(EdgarRetries - 1) : k = search.attempt
    BY <1>1, <2>1 DEF EdgarInv
  <2>3. /\ delay.next = Second * Doubled[k] /\ search.form \in 1..Forms
        /\ delay.waited <= AllForms(search.form - 1) + Second * (Doubled[k] - 1)
    BY <2>1, <2>2 DEF EdgarInv
  <2>4. k + 1 \in 1..EdgarRetries /\ k + 1 \in 0..EdgarRetries /\ k \in 0..EdgarRetries
        /\ (k + 1) - 1 = k
    BY <2>2
  <2>5. PICK d \in Nat : d = Doubled[k] /\ Doubled[k + 1] = 2 * d
    BY <1>2, <2>4
  <2>6. PICK a \in Nat : a = AllForms(search.form - 1)
    <3>1. search.form - 1 \in 0..Forms
      BY <2>3
    <3> QED
      BY <3>1, FormsAddUp
  <2>7. PICK w \in Nat : w = delay.waited /\ w <= a + 10 * (d - 1)
    BY <1>1, <2>3, <2>5, <2>6 DEF Second
  <2>8. delay.next = 10 * d
    BY <2>3, <2>5 DEF Second
  <2>9. delay' = [next |-> 20 * d, waited |-> w + 10 * d]
    BY <2>1, <2>7, <2>8
  <2>10. /\ search' = [search EXCEPT !.at = "ask", !.attempt = k + 1] /\ search' \in Search
    <3>1. search' = [search EXCEPT !.at = "ask", !.attempt = k + 1]
      BY <2>1, <2>2
    <3> QED
      BY <1>1, <2>4, <3>1
  <2>11. search'.at = "ask" /\ search'.attempt = k + 1 /\ search'.form = search.form
    BY <1>1, <2>10
  <2>12. /\ delay' \in [next : Nat, waited : Nat]
         /\ delay'.next = Second * Doubled[k + 1]
         /\ delay'.waited <= AllForms(search.form - 1) + Second * (Doubled[k + 1] - 1)
    BY <2>5, <2>6, <2>7, <2>9 DEF Second
  <2> QED
    BY <1>1, <2>1, <2>3, <2>10, <2>11, <2>12 DEF EdgarInv, EdgarTypeOK
<1>10. CASE UNCHANGED edgarVars
  BY <1>10 DEF edgarVars, EdgarInv, EdgarTypeOK
<1> QED
  BY <1>3, <1>4, <1>6, <1>7, <1>8, <1>9, <1>10 DEF EdgarNext

\* For every number of form types, retries and hits and every fault, a search
\* waits no more than the doublings and the pause of each form type it asked
\* for, and ends with enough filings or after its last form type.
THEOREM SearchKeepsBounds == EdgarSpec => [](EdgarTypeOK /\ SearchIsBounded)
<1>1. EdgarInit => EdgarInv
  <2> SUFFICES ASSUME EdgarInit PROVE EdgarInv
    OBVIOUS
  <2>1. AllForms(0) = 0
    BY FormsAddUp
  <2> QED
    BY <2>1, EdgarAssumption DEF EdgarInit, EdgarInv, EdgarTypeOK, Second
<1>2. EdgarInv => EdgarTypeOK /\ SearchIsBounded
  <2> SUFFICES ASSUME EdgarInv PROVE EdgarTypeOK /\ SearchIsBounded
    OBVIOUS
  <2> USE EdgarAssumption
  <2>1. EdgarTypeOK /\ FormsAreIndependent
    BY DEF EdgarInv, FormsAreIndependent
  <2>2. delay.waited <= AllForms(search.form)
    <3>1. CASE search.at \in {"ask", "wait"}
      BY <3>1, PauseIsPaid DEF Pause, EdgarInv, EdgarTypeOK
    <3>2. CASE search.at \in {"next", "done", "raised"}
      BY <3>2 DEF EdgarInv
    <3> QED
      BY <3>1, <3>2 DEF EdgarInv, EdgarTypeOK
  <2> QED
    BY <2>1, <2>2 DEF SearchIsBounded, WaitsAreBounded, AllForms
<1> QED
  BY <1>1, <1>2, EdgarGoesOn, PTL DEF EdgarSpec

-----------------------------------------------------------------------------
(***************************************************************************)
(* The types of MCIngestion, with the bounds that they state.              *)
(***************************************************************************)

\* The chunks are spans of the words of the text.
ChunkBounds ==
  /\ words \in 0..MaxWords
  /\ chunks \in Seq([from : 0..(words - 1), end : 1..words])

\* One round of the loop cuts such a span.
LEMMA ChunksStayBounded ==
  ASSUME ChunksInv, ChunkBounds, [ChunksNext]_chunksVars
  PROVE  ChunkBounds'
<1>1. CASE CutChunk
  <2>1. words_per_chunk \in Nat /\ overlap_words \in Nat /\ overlap_words < words_per_chunk
        /\ MaxWords \in Nat
    BY ChunksAssumption DEF words_per_chunk, overlap_words
  <2>2. /\ words \in 0..MaxWords /\ start \in Nat /\ Last \in Int
        /\ start <= Last /\ Last < words /\ Last < start + words_per_chunk
    <3>1. Last \in Int
      <4>1. PICK n \in Nat : n = Len(chunks)
        BY DEF ChunksInv
      <4>2. CASE n = 0
        BY <4>1, <4>2 DEF Last
      <4>3. CASE n # 0
        <5> DEFINE Span == [from : Nat, end : Nat]
        <5>1. chunks \in Seq(Span)
          BY DEF ChunksInv
        <5> HIDE DEF Span
        <5>2. chunks[n] \in Span
          BY <4>1, <4>3, <5>1
        <5> QED BY <4>1, <4>3, <5>2 DEF Last, Span
      <4> QED BY <4>2, <4>3
    <3> QED BY <1>1, <3>1 DEF ChunksInv, ChunkBounds, CutChunk
  <2>3. PICK e \in Nat :
          e = IF start + words_per_chunk < words THEN start + words_per_chunk ELSE words
    BY <2>1, <2>2
  <2>4. Chunk = [from |-> start, end |-> e] /\ e \in 1..words /\ start \in 0..(words - 1)
    BY <2>1, <2>2, <2>3 DEF Chunk
  <2> DEFINE Span == [from : 0..(words - 1), end : 1..words]
  <2>5. Chunk \in Span
    BY <2>4
  <2>6. chunks \in Seq(Span)
    BY DEF ChunkBounds
  <2>7. chunks' = Append(chunks, Chunk) /\ words' = words
    BY <1>1 DEF CutChunk
  <2>8. chunks' \in Seq(Span)
    <3> HIDE DEF Span
    <3> QED BY <2>5, <2>6, <2>7
  <2> QED BY <2>2, <2>7, <2>8 DEF ChunkBounds
<1>2. CASE UNCHANGED chunksVars
  BY <1>2 DEF chunksVars, ChunkBounds
<1> QED BY <1>1, <1>2 DEF ChunksNext

\* Each chunk begins before the end of the text and ends with it at the latest.
THEOREM ChunksAreTyped == ChunksSpec => []ChunksTypeOK
<1>1. ChunksInit => ChunkBounds
  <2> SUFFICES ASSUME ChunksInit PROVE ChunkBounds
    OBVIOUS
  <2>1. words \in 0..MaxWords /\ chunks = << >>
    BY DEF ChunksInit
  <2> QED BY <2>1 DEF ChunkBounds
<1>2. ChunksInv /\ ChunkBounds => ChunksTypeOK
  BY DEF ChunksInv, ChunkBounds, ChunksTypeOK
<1> QED BY <1>1, <1>2, ChunksStayBounded, ChunksAreInvariant, PTL DEF ChunksSpec

\* An ingestion keeps its types: no more announcements in hand than
\* max_results, no more requests than the counter's bound pays for.
THEOREM FilingsAreTyped == IngestionSpec => [](TypeOK /\ FilingTypeOK)
<1>1. IngestionInv => TypeOK /\ FilingTypeOK
  <2> SUFFICES ASSUME IngestionInv PROVE TypeOK /\ FilingTypeOK
    OBVIOUS
  <2>1. TypeOK
    BY DEF IngestionInv, LimiterInv
  <2>2. copies \in [{Filing[k] : k \in 1..Len(Filing)} -> 0..MaxCopies]
    BY DEF IngestionInv, WorkTyped, Filings
  <2>3. \A c \in Caller : /\ work[c].at \in {"none", "lookup", "list", "pdf", "look", "commit"}
                          /\ Len(work[c].list) <= MaxResults
    BY DEF IngestionInv, WorkTyped, WorkRecord
  <2>4. sent \in 0..(MaxCount * (2 + MaxResults))
    <3>1. Cardinality(Debts(owed)) \in Nat
      BY OwedIsTyped, DebtsAreFinite DEF IngestionInv
    <3>2. PICK b \in Nat, a \in Nat, m \in Nat :
            b = 2 + MaxResults /\ a = admitted /\ m = MaxCount /\ a <= m
      BY LimiterAssumption, FilingAssumption DEF IngestionInv, LimiterInv, TypeOK
    <3>3. sent \in Nat /\ sent <= a * b
      <4>1. sent \in Nat /\ sent + Cardinality(Debts(owed)) <= a * b
        BY <3>2 DEF IngestionInv, WorkTyped, BudgetInv, PerCall
      <4>2. a * b \in Nat
        BY <3>2
      <4> QED BY <3>1, <4>1, <4>2
    <3>4. a * b <= m * b /\ m * b \in Nat
      <4>1. PICK d \in Nat : m = a + d
        BY <3>2
      <4>2. m * b = a * b + d * b /\ d * b \in Nat /\ a * b \in Nat
        BY <3>2, <4>1
      <4> QED BY <4>2
    <3>5. m * b = MaxCount * (2 + MaxResults) /\ a * b \in Nat
      BY <3>2
    <3> QED BY <3>3, <3>4, <3>5
  <2> QED BY <2>1, <2>2, <2>3, <2>4 DEF FilingTypeOK
<1> QED BY <1>1, IngestionIsInvariant, PTL

\* Each behaviour of MCIngestion is one of every part: of its subject, and of
\* the others, which stutter.
LEMMA MCIsEachSource ==
  MCSpec => /\ IngestionSpec /\ NewsSpec /\ ChunksSpec
            /\ EdgarSpec /\ MarketSpec /\ ResearchSpec
<1>1. MCInit => /\ IngestionInit /\ NewsInit /\ ChunksInit
                /\ EdgarInit /\ MarketInit /\ ResearchInit
  BY DEF MCInit
<1>2. [MCNext]_<<subject, ingestionVars, newsVars, chunksVars, edgarVars, marketVars, researchVars>>
      => /\ [IngestionNext]_ingestionVars /\ [NewsNext]_newsVars /\ [ChunksNext]_chunksVars
         /\ [EdgarNext]_edgarVars /\ [MarketNext]_marketVars /\ [ResearchNext]_researchVars
  BY DEF MCNext, Stays
<1> QED
  BY <1>1, <1>2, PTL
     DEF MCSpec, IngestionSpec, NewsSpec, ChunksSpec, EdgarSpec, MarketSpec, ResearchSpec

\* The variables of every source keep their types, the bounds of the limiter,
\* the budget of requests, the retries and the chunks among them.
THEOREM IngestionIsTyped == MCSpec => []IngestionTypeOK
<1>1. NewsInv => NewsTypeOK
  BY DEF NewsInv
<1> QED
  BY <1>1, MCIsEachSource, FilingsAreTyped, NewsIsInvariant, ChunksAreTyped, SearchKeepsBounds,
     MarketIsTyped, ResearchIsTyped, PTL DEF IngestionTypeOK

\* The composition, which is what the runs check, keeps every source's
\* properties: windows, copies, articles, chunks, the search, price history
\* and attempts.
THEOREM SourcesKeepPromises ==
  MCSpec => /\ []WindowBoundsRequests
            /\ []SecondCopyIsOverlap
            /\ ArticlesAreKept
            /\ []ChunksCoverText
            /\ []SearchIsBounded
            /\ []QuantAnswersAreFounded
            /\ []AttemptsAreAccounted
<1>1. EdgarSpec => []SearchIsBounded
  BY SearchKeepsBounds, PTL
<1> QED
  BY <1>1, MCIsEachSource, WindowIsBounded, CopiesComeFromOverlap, NewsIsKept,
     TextIsCovered, QuantAnswersHaveGrounds, AttemptsAreCounted
================================================================================
