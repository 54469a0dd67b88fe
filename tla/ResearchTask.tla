----------------------------- MODULE ResearchTask -----------------------------
(***************************************************************************)
(* The task of the research agent (app/agents/research_agent.py) with the  *)
(* completions it asks of Groq (app/tools/llm.py, app/tools/rag.py), its   *)
(* retries, the audit row of each attempt, and what GET /runs              *)
(* (app/api/routes/runs.py) makes of the rows.  A delivery is one of the   *)
(* message, with the retries that follow it.                               *)
(*                                                                         *)
(* Groq is external: it answers, says it is asked too often, or fails.  So *)
(* is the client groq.AsyncGroq, which the code makes with the default     *)
(* number of retries: it sends a request again by itself after a 408, 409, *)
(* 429 or 5xx, a timeout or a lost connection, before it raises.           *)
(***************************************************************************)
EXTENDS Integers

CONSTANTS
  ResearchRetries, \* max_retries of the task
  MaxTries,        \* stop_after_attempt of groq_complete
  ClientRetries,   \* max_retries of the client, 2 unless it is told otherwise
  MaxDelivered,    \* bound on the deliveries of the message
  ResearchFaults   \* the faults of the surroundings a run explores

ASSUME ResearchAssumption ==
  /\ ResearchRetries \in Nat /\ MaxTries \in Nat \ {0}
  /\ ClientRetries \in Nat /\ MaxDelivered \in Nat \ {0}
  /\ ResearchFaults \subseteq {"groq", "limit", "text", "db", "connection"}

Delivered == 1..MaxDelivered
Attempted == 0..ResearchRetries

VARIABLES
  research,     \* research[d]: how far a delivery has come, and its attempt
  asked,        \* asked[d]: the completions the attempt asked for, and of the present
                \* one the tries, the client's retries of the try, and the requests so far
  sentiment,    \* sentiment[d]: what Groq said of the news, and how often it was asked
  audit         \* audit[d][n]: statuses of the rows of attempt n in agent_run_logs

researchVars == <<research, asked, sentiment, audit>>

Steps == {"news", "sentiment", "context", "rag", "summary", "output", "log_ok", "log_error",
          "ok", "error"}
Unasked == [completions |-> 0, tries |-> 0, again |-> 0, sent |-> 0]
NoSentiment == [label |-> "none", calls |-> 0]

ResearchTypeOK ==
  /\ research \in [Delivered -> [at : Steps \cup {"none", "waiting", "success", "failure", "lost"},
                                 attempt : Attempted]]
  /\ asked \in [Delivered -> [completions : 0..4, tries : 0..(MaxTries - 1),
                              again : 0..ClientRetries, sent : Nat]]
  /\ sentiment \in [Delivered -> [label : {"none", "given", "no_news", "unparsed", "shapeless"},
                                  calls : 0..2]]
  /\ audit \in [Delivered -> [Attempted -> SUBSET {"success", "error"}]]

ResearchInit ==
  /\ research = [d \in Delivered |-> [at |-> IF d = 1 THEN "waiting" ELSE "none", attempt |-> 0]]
  /\ asked = [d \in Delivered |-> Unasked]
  /\ sentiment = [d \in Delivered |-> NoSentiment]
  /\ audit = [d \in Delivered |-> [n \in Attempted |-> {}]]

-----------------------------------------------------------------------------
\* An operator <definition>_<change> is a mutated form of the one after it.

At(d, step) == research[d].at = step
GoesTo(d, step) == research' = [research EXCEPT ![d].at = step]
Feels(d, label, calls) == sentiment' = [sentiment EXCEPT ![d] = [label |-> label, calls |-> calls]]
May(fault) == fault \in ResearchFaults

\* _execute begins; fetch_news_india gives articles or none, and never raises.
BeginAttempt(d) ==
  /\ At(d, "waiting")
  /\ GoesTo(d, "news")
  /\ asked' = [asked EXCEPT ![d] = Unasked]
  /\ sentiment' = [sentiment EXCEPT ![d] = NoSentiment]
  /\ UNCHANGED audit

FetchNews(d) ==
  /\ At(d, "news")
  /\ \/ GoesTo(d, "sentiment") /\ UNCHANGED sentiment
     \/ GoesTo(d, "context") /\ Feels(d, "no_news", 0)
  /\ UNCHANGED <<asked, audit>>

\* retrieve_context reads the database.
Retrieve(d) ==
  /\ At(d, "context")
  /\ \/ GoesTo(d, "rag")
     \/ May("db") /\ GoesTo(d, "log_error")
  /\ UNCHANGED <<asked, sentiment, audit>>

\* groq_complete, in which the attempt asks for one of its completions, with a
\* request on its way; the next completion begins with none.
Asking(d) == research[d].at \in {"sentiment", "rag", "summary"}
Asked(d) == asked' = [asked EXCEPT ![d] = [Unasked EXCEPT !.completions = asked[d].completions + 1]]

\* The completion: groq_sentiment parses it, and asks a second time if it is no JSON.
Completed(d) ==
  /\ Asking(d)
  /\ Asked(d)
  /\ LET calls == sentiment[d].calls + 1 IN
       \/ At(d, "rag") /\ GoesTo(d, "summary") /\ UNCHANGED sentiment
       \/ At(d, "summary") /\ GoesTo(d, "output") /\ UNCHANGED sentiment
       \/ /\ At(d, "sentiment")
          /\ \/ GoesTo(d, "context") /\ Feels(d, "given", calls)
             \/ May("text") /\ GoesTo(d, "context") /\ Feels(d, "shapeless", calls)
             \/ May("text") /\ calls = 1 /\ UNCHANGED research /\ Feels(d, "none", calls)
             \/ May("text") /\ calls = 2 /\ GoesTo(d, "context") /\ Feels(d, "unparsed", calls)
  /\ UNCHANGED audit

\* The client sends the request again by itself, or ...
ClientRetry(d) ==
  /\ May("limit") \/ May("groq")
  /\ Asking(d)
  /\ asked[d].again < ClientRetries
  /\ asked' = [asked EXCEPT ![d].again = @ + 1, ![d].sent = @ + 1]
  /\ UNCHANGED <<research, sentiment, audit>>

\* ... raises RateLimitError, after which tenacity asks again until
\* stop_after_attempt, or ...
RateLimited_OnceMore(d) ==
  /\ May("limit")
  /\ Asking(d)
  /\ IF asked[d].tries < MaxTries
       THEN /\ asked' = [asked EXCEPT ![d].tries = @ + 1, ![d].again = 0, ![d].sent = @ + 1]
            /\ UNCHANGED research
       ELSE Asked(d) /\ GoesTo(d, "log_error")
  /\ UNCHANGED <<sentiment, audit>>
RateLimited(d) ==
  /\ May("limit")
  /\ Asking(d)
  /\ IF asked[d].tries + 1 < MaxTries
       THEN /\ asked' = [asked EXCEPT ![d].tries = @ + 1, ![d].again = 0, ![d].sent = @ + 1]
            /\ UNCHANGED research
       ELSE Asked(d) /\ GoesTo(d, "log_error")
  /\ UNCHANGED <<sentiment, audit>>

\* ... any other error, which tenacity does not retry.
GroqFails(d) ==
  /\ May("groq")
  /\ Asking(d)
  /\ Asked(d)
  /\ GoesTo(d, "log_error")
  /\ UNCHANGED <<sentiment, audit>>

\* ResearchOutput, whose fields cannot be taken from JSON of another shape.
BuildOutput(d) ==
  /\ At(d, "output")
  /\ GoesTo(d, IF sentiment[d].label = "shapeless" THEN "log_error" ELSE "log_ok")
  /\ UNCHANGED <<asked, sentiment, audit>>

\* _write_log, whose failure is swallowed ...
Logs(d, status) ==
  audit' \in {[audit EXCEPT ![d][research[d].attempt] = @ \cup {status}]}
               \cup {audit : f \in ResearchFaults \cap {"db"}}
WriteLog(d) ==
  /\ \/ At(d, "log_ok") /\ GoesTo(d, "ok") /\ Logs(d, "success")
     \/ At(d, "log_error") /\ GoesTo(d, "error") /\ Logs(d, "error")
  /\ UNCHANGED <<asked, sentiment>>

\* ... then the result is returned, or self.retry publishes the next attempt
\* or gives up.
Succeed(d) ==
  /\ At(d, "ok")
  /\ GoesTo(d, "success")
  /\ UNCHANGED <<asked, sentiment, audit>>

Retry(d) ==
  /\ At(d, "error")
  /\ IF research[d].attempt = ResearchRetries THEN GoesTo(d, "failure")
     ELSE research' = [research EXCEPT ![d] = [at |-> "waiting", attempt |-> @.attempt + 1]]
  /\ UNCHANGED <<asked, sentiment, audit>>

\* The message of an attempt that is not acknowledged goes back to its queue
\* (task_acks_late): the worker died, or it lost its connection and carries on
\* regardless, with the retries that follow.
RedeliverResearch(d) ==
  /\ May("connection")
  /\ d + 1 \in Delivered /\ At(d + 1, "none")
  /\ LET next == [at |-> "waiting", attempt |-> research[d].attempt] IN
       \/ /\ research[d].at \in Steps \cup {"success", "failure"}
          /\ research' = [research EXCEPT ![d + 1] = next]
       \/ /\ research[d].at \in Steps
          /\ research' = [research EXCEPT ![d + 1] = next, ![d].at = "lost"]
  /\ UNCHANGED <<asked, sentiment, audit>>

ResearchStep(d) ==
  \/ BeginAttempt(d) \/ FetchNews(d) \/ Retrieve(d)
  \/ Completed(d) \/ ClientRetry(d) \/ RateLimited(d) \/ GroqFails(d)
  \/ BuildOutput(d) \/ WriteLog(d) \/ Succeed(d) \/ Retry(d) \/ RedeliverResearch(d)

ResearchNext == \E d \in Delivered : ResearchStep(d)

ResearchSpec == ResearchInit /\ [][ResearchNext]_researchVars

-----------------------------------------------------------------------------
(***************************************************************************)
(* Properties.                                                             *)
(***************************************************************************)

\* An attempt makes at most four completions, two of them for the sentiment,
\* whatever Groq answers; and the two layers of retries multiply: a completion
\* takes up to MaxTries times 1 + ClientRetries requests, with the one that is
\* on its way.
RequestsAreBounded ==
  \A d \in Delivered :
    /\ Asking(d) => /\ asked[d].completions <= 3
                    /\ asked[d].sent < MaxTries * (1 + ClientRetries)
    /\ sentiment[d].label = "no_news" => asked[d].completions <= 2

\* JSON of another shape never becomes a result: the attempt that got it, and
\* went on with the other completions, is given up.
ResultsHaveShape ==
  \A d \in Delivered :
    At(d, "success") => sentiment[d].label \in {"given", "no_news", "unparsed"}

\* A row says what became of its attempt, and there is one at most for it in
\* each delivery: after a success no further attempt, after an error no result
\* of that attempt, whatever was retried, delivered again or not written.
RowsTellAttempts ==
  \A d \in Delivered : \A n \in Attempted :
    /\ "success" \in audit[d][n] => /\ audit[d][n] = {"success"} /\ research[d].attempt = n
                                    /\ research[d].at \in {"ok", "success", "lost"}
    /\ "error" \in audit[d][n] => \/ research[d].attempt > n
                                  \/ /\ research[d].attempt = n
                                     /\ research[d].at \in {"error", "failure", "lost"}

\* What an analysis costs and leaves behind.
AttemptsAreAccounted == RequestsAreBounded /\ ResultsHaveShape /\ RowsTellAttempts
===============================================================================
