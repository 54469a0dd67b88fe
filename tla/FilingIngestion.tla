---------------------------- MODULE FilingIngestion ----------------------------
(***************************************************************************)
(* ingest_bse_announcements and ingest_filing of app/tools/embedder.py,    *)
(* with app/tools/bse_nse_fetcher.py: behind one check of the limiter of   *)
(* "bse" (RateLimiter.tla) an ingestion looks up the code of a ticker,     *)
(* lists its announcements, downloads each PDF and, unless a row has its   *)
(* accession number, commits the chunks of its text.                       *)
(*                                                                         *)
(* An ingestion is a caller of the limiter.  One ticker; a filing is known *)
(* by its accession number, the hash of its URL.  The BSE is external.     *)
(***************************************************************************)
EXTENDS RateLimiter, Sequences

CONSTANTS
  Filing,       \* announcements with a document, in the order of the BSE
  MaxResults,   \* max_results (5 in the code)
  MaxCopies,    \* bound on the times a filing is committed
  FilingFaults  \* the faults of the surroundings a run explores

ASSUME FilingAssumption ==
  /\ MaxResults \in Nat /\ MaxCopies \in Nat
  /\ FilingFaults \subseteq {"bse", "pdf", "db"}

VARIABLES
  copies,       \* copies[f]: how often the chunks of f are in filing_chunks
  work,         \* work[c]: how far the ingestion of caller c has come
  sent,         \* history: BSE requests of ingestions admitted by the present key
  overlapped    \* history: filings two ingestions were between look and commit of

filingVars == <<copies, work, sent, overlapped>>
ingestionVars == <<vars, filingVars>>

NoWork == [at |-> "none", list |-> <<>>, old |-> FALSE]

FilingTypeOK ==
  /\ copies \in [{Filing[k] : k \in 1..Len(Filing)} -> 0..MaxCopies]
  /\ \A c \in Caller : /\ work[c].at \in {"none", "lookup", "list", "pdf", "look", "commit"}
                       /\ Len(work[c].list) <= MaxResults
  /\ sent \in 0..(MaxCount * (2 + MaxResults))

IngestionInit ==
  /\ Init
  /\ copies = [f \in {Filing[k] : k \in 1..Len(Filing)} |-> 0]
  /\ work = [c \in Caller |-> NoWork]
  /\ sent = 0
  /\ overlapped = {}

-----------------------------------------------------------------------------
\* An operator <definition>_<change> is a mutated form of the one after it.

WorksOn(c, new) == work' = [work EXCEPT ![c] = new]

\* A request of the BSE in the window of the present key.
Asks(c) == sent' = IF work[c].old THEN sent ELSE sent + 1

\* The ingestion is over, well or with an error: the caller may call again.
Quits(c) ==
  /\ WorksOn(c, NoWork)
  /\ caller' = [caller EXCEPT ![c] = "idle"]

\* check_rate_limit let the ingestion pass.  One that passed because Redis
\* failed is not counted against a key.
Begin(c) ==
  /\ caller[c] \in {"allowed", "open"} /\ work[c].at = "none"
  /\ WorksOn(c, [work[c] EXCEPT !.at = "lookup", !.old = @ \/ caller[c] = "open"])
  /\ UNCHANGED <<vars, copies, sent, overlapped>>

\* _lookup_bse_numeric_code; an error or no code gives an empty list.
LookupCode(c) ==
  /\ work[c].at = "lookup"
  /\ Asks(c)
  /\ WorksOn(c, [work[c] EXCEPT !.at = "list"])
  /\ UNCHANGED <<vars, copies, overlapped>>

\* The announcements, cut off at max_results.
List(c) ==
  /\ work[c].at = "list"
  /\ Asks(c)
  /\ \E n \in 0..Len(Filing) :
       WorksOn(c, [work[c] EXCEPT !.at = "pdf",
                     !.list = SubSeq(Filing, 1, IF n < MaxResults THEN n ELSE MaxResults)])
  /\ UNCHANGED <<vars, copies, overlapped>>

BseFails(c) ==
  /\ "bse" \in FilingFaults
  /\ work[c].at \in {"lookup", "list"}
  /\ Asks(c)
  /\ Quits(c)
  /\ UNCHANGED <<count, expires, admitted, cut, copies, overlapped>>

\* fetch_filing_pdf of the next announcement; one without text is passed over.
Pdf(c) ==
  /\ work[c].at = "pdf" /\ work[c].list # <<>>
  /\ Asks(c)
  /\ \/ WorksOn(c, [work[c] EXCEPT !.at = "look"])
     \/ "pdf" \in FilingFaults /\ WorksOn(c, [work[c] EXCEPT !.list = Tail(@)])
  /\ UNCHANGED <<vars, copies, overlapped>>

Ends(c) ==
  /\ work[c].at = "pdf" /\ work[c].list = <<>>
  /\ Quits(c)
  /\ UNCHANGED <<count, expires, admitted, cut, copies, sent, overlapped>>

\* ingest_filing asks for a row of the accession number.  The chunks are cut
\* and embedded between the look and the commit.
Between(f) == {c \in Caller : work[c].at = "commit" /\ Head(work[c].list) = f}
Look_Never(c) ==
  /\ work[c].at = "look"
  /\ WorksOn(c, [work[c] EXCEPT !.at = "commit"])
  /\ UNCHANGED <<vars, copies, sent, overlapped>>
Look(c) ==
  /\ work[c].at = "look"
  /\ LET f == Head(work[c].list) IN
       IF copies[f] > 0
       THEN /\ WorksOn(c, [work[c] EXCEPT !.at = "pdf", !.list = Tail(@)])
            /\ UNCHANGED overlapped
       ELSE /\ WorksOn(c, [work[c] EXCEPT !.at = "commit"])
            /\ overlapped' = IF Between(f) = {} THEN overlapped ELSE overlapped \cup {f}
  /\ UNCHANGED <<vars, copies, sent>>

\* All the chunks are committed at once; no constraint forbids a second copy.
Commit(c) ==
  /\ work[c].at = "commit"
  /\ LET f == Head(work[c].list) IN
       copies[f] < MaxCopies /\ copies' = [copies EXCEPT ![f] = @ + 1]
  /\ WorksOn(c, [work[c] EXCEPT !.at = "pdf", !.list = Tail(@)])
  /\ UNCHANGED <<vars, sent, overlapped>>

CommitFails(c) ==
  /\ "db" \in FilingFaults
  /\ work[c].at \in {"look", "commit"}
  /\ Quits(c)
  /\ UNCHANGED <<count, expires, admitted, cut, copies, sent, overlapped>>

Working(c) ==
  \/ Begin(c) \/ LookupCode(c) \/ List(c) \/ BseFails(c) \/ Pdf(c) \/ Ends(c)
  \/ Look(c) \/ Commit(c) \/ CommitFails(c)

\* RateLimitError reaches the caller of the ingestion, or its process died.
Refused(c) == caller[c] \in {"denied", "dead"} /\ Again(c)

\* The key of the limiter expires: what goes on belongs to an old key.
NewWindow ==
  /\ Elapse
  /\ sent' = 0
  /\ work' = [c \in Caller |-> [work[c] EXCEPT !.old = @ \/ caller[c] = "allowed"]]
  /\ UNCHANGED <<copies, overlapped>>

IngestionNext ==
  \/ \E c \in Caller :
       \/ /\ Incr(c) \/ IncrFails(c) \/ Expire(c) \/ ExpireFails(c) \/ Crash(c) \/ Refused(c)
          /\ UNCHANGED filingVars
       \/ Working(c)
  \/ NewWindow

IngestionSpec == IngestionInit /\ [][IngestionNext]_ingestionVars

-----------------------------------------------------------------------------
(***************************************************************************)
(* Properties.                                                             *)
(***************************************************************************)

\* A filing is stored twice only when two ingestions were between looking for
\* it and committing it at the same time.
SecondCopyIsOverlap ==
  \A f \in DOMAIN copies : copies[f] > 1 => f \in overlapped

\* A call that the limiter admits stands for as many requests as an ingestion
\* makes, not for one: the limit of 5 calls a minute is one of 35 requests.
AdmissionsBoundRequests == sent <= admitted * (2 + MaxResults)

\* What one life of the limiter's key lets through.
WindowBoundsRequests == WindowKeepsLimit /\ AdmissionsBoundRequests
===============================================================================
