------------------------------ MODULE MCIngestion ------------------------------
(***************************************************************************)
(* What the agents know, for TLC: the ingestions of news and filings, the  *)
(* chunks of a text, the search at EDGAR, the price history, the research  *)
(* task.  They share no state here: a behaviour is one of one of them.     *)
(***************************************************************************)
EXTENDS FilingIngestion, NewsIngestion, TextChunks, EdgarSearch,
        MarketData, ResearchTask

MCOwnUrl == <<{"a"}, {"b"}>>
MCFiling == <<"f1", "f2", "f3">>

VARIABLE subject

MCInit ==
  /\ subject \in {"filings", "news", "chunks", "edgar", "market", "research"}
  /\ IngestionInit /\ NewsInit /\ ChunksInit /\ EdgarInit
  /\ MarketInit /\ ResearchInit
  /\ subject = "chunks" \/ words = 0
  /\ subject = "market" \/ history = 120

\* All but the subject's own variables stay.
Stays(s, v) == IF subject = s THEN TRUE ELSE UNCHANGED v

MCNext ==
  /\ UNCHANGED subject
  /\ \/ subject = "filings" /\ IngestionNext
     \/ subject = "news" /\ NewsNext
     \/ subject = "chunks" /\ ChunksNext
     \/ subject = "edgar" /\ EdgarNext
     \/ subject = "market" /\ MarketNext
     \/ subject = "research" /\ ResearchNext
  /\ Stays("filings", ingestionVars)
  /\ Stays("news", newsVars)
  /\ Stays("chunks", chunksVars)
  /\ Stays("edgar", edgarVars)
  /\ Stays("market", marketVars)
  /\ Stays("research", researchVars)

MCSpec ==
  MCInit /\ [][MCNext]_<<subject, ingestionVars, newsVars, chunksVars, edgarVars, marketVars,
                          researchVars>>

\* Redis answers or refuses, and a time to live runs out (RateLimiter!FairSpec).
MCFairSpec ==
  /\ MCSpec
  /\ \A c \in Caller : WF_vars(Expire(c) \/ ExpireFails(c) \/ Crash(c))
  /\ WF_vars(Elapse)

\* The variables of every source keep their types.
IngestionTypeOK ==
  /\ TypeOK /\ FilingTypeOK /\ NewsTypeOK /\ ChunksTypeOK /\ EdgarTypeOK
  /\ MarketTypeOK /\ ResearchTypeOK
===============================================================================
