----------------------------- MODULE NewsIngestion -----------------------------
(***************************************************************************)
(* ingest_news of app/tools/news_fetcher.py, which POST /news/refresh of   *)
(* app/api/routes/news.py runs for every active ticker, one after the      *)
(* other: the articles of four feeds are read, those marked in Redis as    *)
(* seen are left out, the rest is inserted with ON CONFLICT (url) DO       *)
(* NOTHING and then marked.  Three of the feeds give the same articles to  *)
(* every ticker.  The feeds are external.                                  *)
(***************************************************************************)
EXTENDS Integers

CONSTANTS
  Refresh,      \* concurrent POST /news/refresh requests
  Active,       \* number of the active tickers, known by their places in the query
  Url,          \* articles
  OwnUrl,       \* OwnUrl[p]: articles that only the feed of ticker p has
  NewsFaults    \* the faults of the surroundings a run explores

ASSUME NewsAssumption ==
  /\ Active \in Nat
  /\ OwnUrl \in [1..Active -> SUBSET Url]
  /\ NewsFaults \subseteq {"feed", "redis", "db", "crash"}

VARIABLES
  article,      \* article[u]: the ticker of the row of article u, 0 without one
  seen,         \* articles with a news:seen:<hash> key
  refresh       \* refresh[r]: how far a request has come: its ticker, what the
                \* feeds gave, what of it is unchecked, and what is to be inserted

newsVars == <<article, seen, refresh>>

Places == 1..Active
Resting == [at |-> "idle", place |-> 0, got |-> {}, feed |-> {}, todo |-> {}]

NewsTypeOK ==
  /\ article \in [Url -> 0..Active]
  /\ seen \subseteq Url
  /\ refresh \in [Refresh -> [at : {"idle", "fetch", "check", "insert", "mark"},
                              place : 0..Active, got : SUBSET Url,
                              feed : SUBSET Url, todo : SUBSET Url]]

NewsInit ==
  /\ article = [u \in Url |-> 0]
  /\ seen = {}
  /\ refresh = [r \in Refresh |-> Resting]

-----------------------------------------------------------------------------
\* An operator <definition>_<change> is a mutated form of the one after it.

Moves(r, new) == refresh' = [refresh EXCEPT ![r] = new]

\* The articles that the feeds of the ticker in place p have.
Feed(p) == Url \ UNION {OwnUrl[q] : q \in Places \ {p}}

\* The next ticker, or the end of the request.
Turn(r) ==
  IF refresh[r].place = Active THEN Resting
  ELSE [Resting EXCEPT !.at = "fetch", !.place = refresh[r].place + 1]

Post(r) ==
  /\ refresh[r].at = "idle"
  /\ Moves(r, Turn(r))
  /\ UNCHANGED <<article, seen>>

\* fetch_news_india: a feed that fails is left out.  Nothing fetched, nothing done.
Fetch(r) ==
  /\ refresh[r].at = "fetch"
  /\ \E F \in IF "feed" \in NewsFaults THEN SUBSET Feed(refresh[r].place)
              ELSE {Feed(refresh[r].place)} :
       Moves(r, IF F = {} THEN Turn(r)
                ELSE [refresh[r] EXCEPT !.at = "check", !.got = F, !.feed = F])
  /\ UNCHANGED <<article, seen>>

\* The key of an article is looked for; a read that fails finds none.
CheckSeen(r) ==
  /\ refresh[r].at = "check"
  /\ \E u \in refresh[r].feed :
       \E found \in {u \in seen} \cup {FALSE : f \in NewsFaults \cap {"redis"}} :
         Moves(r, [refresh[r] EXCEPT !.feed = @ \ {u},
                                     !.todo = IF found THEN @ ELSE @ \cup {u}])
  /\ UNCHANGED <<article, seen>>

Checked(r) ==
  /\ refresh[r].at = "check" /\ refresh[r].feed = {}
  /\ Moves(r, IF refresh[r].todo = {} THEN Turn(r) ELSE [refresh[r] EXCEPT !.at = "insert"])
  /\ UNCHANGED <<article, seen>>

\* One statement and its commit: a url that has a row keeps it.
Insert_Updates(r) ==
  /\ refresh[r].at = "insert"
  /\ article' = [u \in Url |-> IF u \in refresh[r].todo THEN refresh[r].place ELSE article[u]]
  /\ Moves(r, [refresh[r] EXCEPT !.at = "mark"])
  /\ UNCHANGED seen
Insert(r) ==
  /\ refresh[r].at = "insert"
  /\ article' = [u \in Url |-> IF u \in refresh[r].todo /\ article[u] = 0
                               THEN refresh[r].place ELSE article[u]]
  /\ Moves(r, [refresh[r] EXCEPT !.at = "mark"])
  /\ UNCHANGED seen

\* The statement fails and the request ends in an error.
InsertFails(r) ==
  /\ "db" \in NewsFaults
  /\ refresh[r].at = "insert"
  /\ Moves(r, Resting)
  /\ UNCHANGED <<article, seen>>

\* The articles are marked one by one; a write that fails is swallowed.
Mark(r) ==
  /\ refresh[r].at = "mark"
  /\ \E u \in refresh[r].todo :
       /\ seen' \in {seen \cup {u}} \cup {seen : f \in NewsFaults \cap {"redis"}}
       /\ Moves(r, [refresh[r] EXCEPT !.todo = @ \ {u}])
  /\ UNCHANGED article

Marked(r) ==
  /\ refresh[r].at = "mark" /\ refresh[r].todo = {}
  /\ Moves(r, Turn(r))
  /\ UNCHANGED <<article, seen>>

\* The process dies.
NewsCrash(r) ==
  /\ "crash" \in NewsFaults
  /\ refresh[r].at # "idle"
  /\ Moves(r, Resting)
  /\ UNCHANGED <<article, seen>>

\* _NEWS_DEDUP_TTL is over.
Forget(u) ==
  /\ u \in seen
  /\ seen' = seen \ {u}
  /\ UNCHANGED <<article, refresh>>

NewsNext ==
  \/ \E r \in Refresh : \/ Post(r) \/ Fetch(r) \/ CheckSeen(r) \/ Checked(r)
                        \/ Insert(r) \/ InsertFails(r) \/ Mark(r) \/ Marked(r) \/ NewsCrash(r)
  \/ \E u \in Url : Forget(u)

NewsSpec == NewsInit /\ [][NewsNext]_newsVars

-----------------------------------------------------------------------------
(***************************************************************************)
(* Properties.                                                             *)
(***************************************************************************)

\* An article marked as seen, which no ingestion will insert while the mark
\* lasts, is in the table: no failure or crash between the two stores, and no
\* order of two requests, loses one.
SeenIsStored == \A u \in seen : article[u] # 0

\* An article belongs to the ticker whose ingestion came first and stays with
\* it, however often and for whatever other ticker it is fetched again: an
\* article of the shared feeds is never seen under a second ticker.
FirstTickerKeeps ==
  [][\A u \in Url : article[u] # 0 => article'[u] = article[u]]_newsVars

\* A request goes on from a ticker only when each article that its feeds gave
\* is in the table, those it left out as seen by another request as well.
NothingIsLeftOut ==
  [][\A r \in Refresh :
       (Checked(r) \/ Marked(r)) /\ refresh'[r].at # "insert"
         => \A u \in refresh[r].got : article[u] # 0]_newsVars

\* What the two stores owe to one another.
ArticlesAreKept == []SeenIsStored /\ FirstTickerKeeps /\ NothingIsLeftOut
===============================================================================
