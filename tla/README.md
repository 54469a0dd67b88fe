# Formal models of stock-market-ai

TLA+ models of the parts of this repository where several processes act on the
same query, order, position, counter, row or card, with the TLC runs that check them
on small instances and TLAPS proofs of their safety for every size. Paths are
relative to the repository; line numbers of every modelled definition are in
`PROJECT.json` (`map`).

## The system

A FastAPI process takes requests, Celery workers run agents, Redis holds
results, caches, counters and marks with a time to live, PostgreSQL holds rows,
Alpaca (or a paper, Upstox or Angel One broker) holds orders and positions, and a
React dashboard polls.

| Component | State it keeps | Operations | Talks to | Modules |
|---|---|---|---|---|
| Analysis API (`app/api/routes/analysis.py`), dashboard card (`frontend/.../WatchlistPanel.tsx`) | Redis `analysis:<id>:status`, `result:<id>`; the query the card polls | POST /analyze, GET /analysis/{id}; click, poll timer, callbacks | orchestrator queue, Redis | `AnalysisPolling` |
| Orchestrator (`app/agents/orchestrator.py`) | LangGraph state of a run, `signals` rows, result key | five nodes, a conditional edge, dispatch and wait per sub-agent | the four sub-agent queues, LLM, PostgreSQL, Redis | `AnalysisPromise`, `Orchestrator` |
| Research agent, LLM client (`research_agent.py`, `llm.py`, `rag.py`) | audit rows | an attempt with its completions and retries | Groq, news, vector store, PostgreSQL | `ResearchTask` |
| Quant agent, prices (`quant_agent.py`, `indicators.py`, `price_fetcher.py`) | Redis `ohlcv:...` | fetch with cache, indicators, signal; latest price | Yahoo, Redis | `MarketData` |
| Risk agent (`risk_agent.py`), portfolio tracker (`portfolio_tracker.py`) | Redis `portfolio:hwm`, daily audit row | guardrails, sizing; end-of-day log and mark | Alpaca account and positions, Redis | `RiskAgent` |
| Execution agent (`execution_agent.py`, `alpaca_client.py`) | `trades` rows | lookup, submit, poll, upsert | Alpaca, PostgreSQL | `ExecutionAgent` |
| Paper broker (`paper_broker.py`) | paper orders in Redis; cash and positions derived from `trades` | orders, positions, account | Redis, PostgreSQL, Yahoo | `PaperBroker` |
| Live brokers (`angel_client.py`, `upstox_client.py`, `broker.py`) | a session under a lock, symbol tokens | login, orders, positions, status | the broker over HTTP | `AngelSession`, `LiveOrders` |
| Manual trades (`api/routes/trades.py`) | none | POST /trade, list | execution queue | `ManualTrade` |
| Portfolio API (`api/routes/portfolio.py`) | Redis `portfolio:snapshot` | GET /portfolio | broker layer, Redis | `Portfolio` |
| Watchlist (`api/routes/watchlist.py`), scheduler (`scheduled_tasks.py`, `market_calendar.py`) | `stocks_watchlist` rows | add, remove, reactivate; daily dispatch | PostgreSQL, queues | `WatchlistPromise`, `Watchlist` |
| Rate limiter (`cache.py`, `rate_limiter.py`) | Redis counters | INCR, EXPIRE | every caller of an external API | `RateLimiter` |
| Filings, news (`embedder.py`, `bse_nse_fetcher.py`, `edgar_fetcher.py`, `news_fetcher.py`) | `filing_chunks`, `news_articles`, Redis `news:seen:...` | fetch, deduplicate, chunk, store | external sites, PostgreSQL, Redis | `FilingIngestion`, `TextChunks`, `EdgarSearch`, `NewsIngestion` |
| Dead letters and watchdog (`workers/dlq_consumer.py`) | `agent_run_logs`, alerts | consume a letter, look for stuck runs | PostgreSQL | `DeadLetters` |
| Tax (`tax_calculator.py`) | none | summary of a year | PostgreSQL | `TaxYear` |
| FII/DII, market overview, read-only routes, layout | caches | queries | | not modelled |

What makes it hard:

* messages are acknowledged late (`task_acks_late`), so a lost worker or a lost
  connection runs a task twice, possibly at the same time;
* every wait of the orchestrator has a timeout shorter than the retries of the
  task it waits for, so sub-agents answer runs that went on without them;
* orchestrator runs wait inside a worker slot for tasks that need a slot of the
  same worker;
* order submission is retried although it is not idempotent, and the record of
  an order is written after the order;
* the guardrails compare with account, positions and mark read one after the
  other, while other checks, fills and the end-of-day task go on;
* reads and the writes that rest on them are separate steps nearly everywhere:
  look and insert of a filing, mark and row of an article, the row of a watchlist
  request, the three readings of a portfolio, the clock and the lock of a login;
* pairs of Redis commands (INCR and EXPIRE, read and write of the mark, result
  and status key) are not atomic;
* retries nest: requests of the Groq client in a try, tries in a completion,
  completions in an attempt, attempts in a task, tasks in deliveries;
* one price entry serves callers with different needs, and times are compared
  with dates;
* the poll timer of a card does not wait for its last request.

What makes the components correct: a trade is made only in mode
`full_analysis` and for what the run's own risk task cleared; a result is shown
only after its row is committed; a run and a query end whatever agents do; one
order per query, and no order without a row; rows say what is true of the order;
no entry beyond 1 % risk, 5 % of the portfolio per ticker, the number of open
positions and 20 % drawdown; a window admits at most its limit and ends; a card
shows what became of its query and stops polling it; cash and positions agree
with the rows; one login at a time and no thread left out; a watchlist is a set
to concurrent requests; no article or filing is lost or doubled; every word of a
text is in a chunk; a signal has the history it needs; a sale is in the summary of
its own year and in no other.

## The modules

| Module | Models | Abstracts |
|---|---|---|
| `AnalysisPromise` | what a query's user is promised: accept, clear, trade, record, show | everything else; abstract specification |
| `Orchestrator` | the graph run, the dispatch and wait of each node, sub-agent attempts with retries, shared worker slots, redelivery, the row and the result key | agent results to what routing and payloads read of them |
| `ExecutionAgent` | one query's execution deliveries: lookup, submit with tenacity retries, poll, upsert, task retries, crashes | price, limit, bracket legs |
| `RiskAgent` | risk checks, the end-of-day task, fills, market | money to whole units |
| `AnalysisPolling` | one card, its requests in flight, POST and GET, the two keys | validation, toasts |
| `PaperBroker` | paper orders in Redis, counted rows, cash, positions, equity, closing | rounding |
| `LiveOrders` | place, close, poll and cancel at the two HTTP brokers, their repeats | prices |
| `AngelSession` | the shared login with its clock, lock and time to live | the login's content |
| `ManualTrade` | POST /trade with its mode, wait and statuses, the task's retries, lost processes, redelivery, a user who sends again | what an attempt does (`ExecutionAgent`) to an order and its row |
| `Portfolio` | the cached answer and its three readings | a table is the number of its rows |
| `WatchlistPromise` | a set of tickers that requests change at one moment each | everything else; abstract specification |
| `Watchlist` | read-then-write requests on rows, the deliveries of the daily task | names, validation |
| `TaxYear` | order, fill, row, what a year's summary keeps of it and how it is classified | prices, gains, rates |
| `DeadLetters` | consumers, the hour's count, alerts; attempts and the watchdog | payloads |
| `ResearchTask` | an attempt's completions, the retries of the Groq client and of tenacity, audit rows, task retries, deliveries | texts |
| `MarketData` | the price entry, its readers, rows an indicator needs, signal | values `ta` computes, the circuit alert |
| `RateLimiter` | one API's counter and its concurrent callers | API names, wall-clock time |
| `FilingIngestion` | extends `RateLimiter`: ingestions behind it, from the BSE to `filing_chunks` | documents to their accession numbers |
| `NewsIngestion` | feeds, marks in Redis, rows, concurrent refreshes | articles to URLs |
| `TextChunks` | the loop of `chunk_text` | words to their places |
| `EdgarSearch` | the search per form type with its backoff and pauses | hits to their number |
| `MC*` | sets, symmetries and compositions for TLC | |
| `*Proofs` | theorems and proofs | |

`Orchestrator` is shown to implement `AnalysisPromise` through
`P == INSTANCE AnalysisPromise WITH ...`: accepted queries are those with a mode,
cleared and traded ones those with a passed risk task and an execution task of
some run, recorded ones those with a row. What `Orchestrator` takes from the
other modules is stated where it does: `RiskOutcome` is what `RiskAgent` may
decide on a payload, `Outcome("execution")` stands for `ExecutionAgent`, whose
`Job` is one of `Orchestrator`'s execution tasks (several per query after a
redelivery, several attempts per task after a raise), `ResearchTask` is the task of
one of its two branches and `MarketData` an attempt of the other. `AnalysisPolling` replaces the
whole pipeline by its two endings; its fairness on them is `EveryQueryEnds` of
`Orchestrator`. `ManualTrade` is a second dispatcher of the execution task.
`Watchlist` is shown to implement `WatchlistPromise`; the runs it publishes are
`Orchestrator`'s queries. `FilingIngestion` composes the limiter with what it
admits.

`MCBrokers`, `MCServices` and `MCIngestion` put modules that share no state side by
side: a variable `subject` picks one at the start and the variables of the others
stay, so that the states add up and do not multiply. Properties of a module are
checked in the behaviours of its subject and hold in the others' trivially.

An operator named `<Definition>_<change>` is a plausible bug in the definition
after it. It is used nowhere; substituted for its definition it breaks a property
(`PROJECT.json`, `mutants`), which shows that the property looks at that code.

### Orchestrator

`pc[r]` is the node a run executes: `gather` (research and quant in parallel),
`assess` (risk_node), `trade` (execution_node), `synthesize`, then `commit` and
`cache` for the two effects of `_synthesize_and_persist`. `held[r][a]` is the
field `<a>_result`, `task[r][a]` the Celery task that the node published.
`Dispatch`/`DispatchFails` is `apply_async`, `Return`/`GiveUp` are `.get()`
returning and raising, `Join` the fan-in edge, `Route` is `route_after_risk`.
`Start`, `Succeed`, `Raise`, `LoseWorker` are an attempt on a worker, with
`self.retry` up to `max_retries`. `FreeSlot` is the concurrency of the one worker
that `docker-compose.yml` starts for all five queues. A timeout may fire at any
moment of a wait: the order of clock readings is not used.

`Redeliver` gives the message to a second run, while the first is dead (`lost`)
or works on. Both use fresh graph state and fresh tasks; they share the query,
the worker slots, the rows and the result key.

### ExecutionAgent

`job[j].at` is the statement an attempt executes. The broker's orders
(`status`) and the `trades` table (`row`) are separate, so that losing sight
of an order is a state: `orphaned` is a history variable holding the orders
whose submission answer was lost, whose commit raised, or whose worker died
before the upsert. `SubmitErrs` is tenacity's `stop_after_attempt(3)` on
`place_order`; `Raises` the retry of the task. `LookupRaises` includes
`scalar_one_or_none` finding two rows. `BrokerConfigured` and `OrderColumn` say
whether `Settings` has the keys `_make_client` reads and `Trade` the column
`_upsert_trade` writes: both are false at this commit (see the findings), and the
other runs check the agent with both repaired.

### RiskAgent

A check reads the account, then the positions, then the mark, writes the mark
if it raised it, and judges. `Size`, `Drawdown`, `TooMany`, `Concentrated` are
the four rules with percentages cross-multiplied; `Blocks` is their order
collapsed, since each of them ends in BLOCK. `AlpacaUnavailable` is the except
clause that replaces both reads by 10,000 and no positions. `Mark` and `Stores`
are the defaulting of the mark, shared by the check and by
`update_high_water_mark`. `peak` and `disturbed` are history: the largest value anyone
has read, and whether Alpaca failed to answer or something overlapped so far.

### RateLimiter, AnalysisPolling

`caller[c] = "first"` is between INCR and EXPIRE; `admitted` and `cut` are
history. `request[s]` is a GET in flight: `sent` before the result key is read,
`missed` between the two reads, `answered` on its way back. `Deliver` is the
callback with its `setPolling(null)`, which does not compare the answer's query
with the one being polled. `post[q]` is the server's handler of POST /analyze and
`posting` what the card waits for: a page that is left forgets the second and not
the first.

`FilingIngestion` continues where `caller[c]` is `allowed` or `open`: `work[c].at` is
the statement of `ingest_bse_announcements` or `ingest_filing`. `NewWindow` is the
limiter's `Elapse`; what was admitted before it is `old` and no longer counted in
`sent`. `overlapped` is history: filings that two ingestions were between look and
commit of.

### PaperBroker, LiveOrders

`order[o].at` goes from `placed` over `polled` to `recorded`; `fills` are the rows of
`trades` that have a fill price, which is all the broker derives cash and positions
from. `slipped` is history: orders whose Redis key was lost or unreadable.
`TickerText` keeps the exchange suffix apart, which `normalise_ticker` adds in
`close_position` and not in `place_order`. In `LiveOrders`, `backend` is the setting
`BROKER` (with `paper` nothing happens here), `venue` the order book at the broker,
`call[c]` a call between its HTTP requests, `Errs` the `retry` decorator, which
only Angel's `place_order` has. No code at this commit calls the order functions of
the broker layer: their callers are the ones the execution agent would be.

### AngelSession, ManualTrade, Portfolio

`ReadClock` is the `time.monotonic()` before `with _session_lock`, `Enter` and
`Reuse` take the lock, `Login` is `_make_fresh_session`, `TakeSession` the read of
`_session_obj` after the lock. In `ManualTrade` a delivery `d` is one of the message
of a request, and `task[d]` its progress with its retries: `Lookup` is what
`_get_existing_trade` finds, `orders` the attempts whose order the broker has and
`rows` those that recorded it. `Raises` and `LoseProcess` are an attempt that ends
without a result, with nothing, an order, or an order and its row behind it
(`Leaves`); a lost process fails the task at once, so `get()` raises in time.
`HttpAnswer` is what `.get()` returns or raises, as the `except` clauses turn it into
a status: `AlpacaAPIError` is no `BrokerAPIError`, so a failed execution is a 500. Time
is the sum of countdowns, a lower bound on what passed: `TakeTask` is not possible
with a request that still waits when the countdowns alone used up `Timeout`, and
`TimesOut` may come at any time before. `Portfolio` counts rows: `ReadRows` is each of
the three readings.

### Watchlist, TaxYear, DeadLetters

`edit[r]` is a request between its SELECT and its commit, `row` the table,
`Outcome` the branches of the two handlers. `daily[d]` is the task of a delivery with
the list it read and what is left of it; `RedeliverDaily` gives the message to another
worker, whether the first is dead or has only lost its connection and publishes on.
`Sends` is one `apply_async`, of `Publish` or of a broker that raises after the message
got out (`DailyRaises`). `TaxYear` counts time in half days, so that a timestamp can lie
between two midnights; `fy_start`, `fy_end` and `classify_trade` are named as in the
code. `DeadLetters` keeps a letter's row uncommitted (`added`, `counted`) until
`CommitLetter`, because the session's own row is what its count sees and others'
uncommitted rows are not.

### ResearchTask, MarketData

`research[d].at` is the statement of `_run_research` in a delivery. A request in
`groq_complete` ends in `Completed`, in another one that the client sends by itself
(`ClientRetry`: `AsyncGroq` is made with its default `max_retries`), in `RateLimited`, which
tenacity retries, or in `GroqFails`. `asked[d]` counts completions, tries, the client's
retries and requests. `audit[d][n]` is the set of statuses in the rows of attempt `n`;
`RedeliverResearch` runs the message a second time, beside the first worker or after its
death. In `MarketData` a frame is the number of its rows; `Lookup`,
`Download`, `StoreFrame` are `fetch_ohlcv` for either caller; `Has(window, rows)`
says whether the library computes an indicator at all.

### NewsIngestion, TextChunks, EdgarSearch

`refresh[r]` is one POST /news/refresh at one of its tickers: `got` from the feeds,
`feed` still to be looked up in Redis, `todo` to be inserted and marked. `TextChunks`
is the loop with its `break`; `EdgarSearch` the loop over form types around
`_get_with_backoff`: `search` is the step, the form type and the attempt, `delay` the
next wait and all of those so far, in tenths of a second, `results` how many filings
were found. `Malformed` is JSON of another shape, whose `AttributeError` no one catches.

## The runs

Deadlock checking is off in all of them: the modelled parts come to rest (queries
done, jobs ended, requests made).

| Run | Asks | Bounds |
|---|---|---|
| `pipeline` | With sub-agents that raise, time out, lose their worker, publishing that fails and pool processes that die: is every trade cleared, does risk judge both branches, do late answers change nothing, is a shown result recorded, is the promise implemented, and does a run that began end? | one query (queries share only slots), two attempts per task, quantity 1, three slots so both branches run at once |
| `one_slot` | With one slot, held by the run that waits: does the query end, and what can it end with? (Every sub-agent times out; a row is a BLOCK.) | two deliveries, so that a second run competes with leftover tasks of the first |
| `block_hold` (violated) | Does a blocked run store HOLD? | no faults needed |
| `mishaps` | Executions one at a time with every fault: is each order recorded, in hand or lost by a named mishap; are second orders only after mishaps; are rows true; does success mean a row? | two deliveries, one crash each, two submissions, two polls |
| `one_order` (violated) | At most one order per query? | one lost answer suffices |
| `as_is` (violated) | Does an undisturbed execution succeed at this commit? | the code's own retries and polls |
| `risk_drawdown` (violated) | Does a loss of more than 20 % of the peak halt entries? | no mark at the start, as after installation |
| `brokers` | Risk checks and the end-of-day task, overlapping or not: do entries fit what was read, and without overlap what is really held; does a missing mark stay missing, and does the mark never fall? The paper broker: do cash, positions and rows agree, is every short explained? The HTTP brokers: what do a repeated order and an opposite position come from? Manual trades: what do two orders of one trade come from, and are the answers true? | two checks over two tickers, of which one is held, prices and volatilities with 0, values on both sides of the 20 % drawdown; three paper orders, two spellings of one ticker, two prices; three calls of two callers, three orders at the venue, two of the three attempts; two requests for a trade, one retry whose countdown uses up the wait, one redelivery |
| `services` | Cards told the truth and stopped; the portfolio's snapshot; the login and its lock; the watchlist and its promise; the daily task; the tax year; dead letters; and two executions at the same time: does every order get its row in the end? | see below |
| `long_term` (violated) | Is a sale long-term when everything bought was bought more than a year before? | two orders, around the ends of two financial years |
| `stuck_runs` (violated) | Does an attempt that hangs have its alert in the end? | one attempt, a fair watchdog |
| `ingestion` | Requests in a window and its end; second copies of filings; no article lost; chunks; EDGAR's waits; price history behind a signal; rows and requests of a research task | see below |

`services`: two analyses of one card with two requests in flight, so that an answer
of the first can meet the second; two readers and three rows (two overlapping
snapshots with a fill before, between and after); two threads, a time to live of 2
and a clock to 4 (two renewals); two watchlist requests on two tickers, one of which
begins with an inactive row, and two deliveries of the daily message; one order around
the ends of two financial years (a moment before, at and after each midnight that
matters); two letters on two tickers and one agent attempt (two consumers that count at
once are two letters); two executions of one query with two attempts each, one submission
and one poll an attempt, and lost answers, failing polls and database errors.

`ingestion`: two callers with a limit of 1 and a counter up to 3, three filings of
which two are fetched, so that the limit and `max_results` both cut; two refreshes
over two tickers, one shared article and one of each ticker; the code's 512 and 64
tokens with texts of up to 1100 words (1, 2 and 3 chunks and their borders); the
code's three retries at EDGAR over three form types; one short and two long readers
of prices with 13, 49 and 120 rows, one below each window; one retry of the research
task, two tries at Groq with one retry of the client each, and two deliveries (the
proofs are for any of these numbers: 3, 4 and 2 in the code).

Bounds are constants or appear in a guard: `MaxQty`, `MaxRetries`,
`MaxDeliveries`, `MaxCrashes` (crashes of a job), `MaxSends`, `MaxPolls`,
`MaxCount` (INCRs without an expiry), `Slot` (requests in flight), `MaxOrders`,
`MaxMoves` (price changes), `MaxCalls` and `MaxVenue` (calls and orders at a
broker), `MaxClock`, `MaxRows`, `MaxDailies`, `MaxDelivered` and `MaxRedeliveries`
(deliveries of a message), `ClientRetries`, `MaxCopies`, `MaxWords`. Most theorems below
hold for every value of them, so the safety runs only have to be large enough to reach each interleaving
once.

### Fairness

* `Orchestrator!HangingSpec`: a step of a run in the graph that stays enabled
  is taken. `apply_async` returns or raises, every `.get()` has a timeout, the LLM
  client and the database driver answer or raise. Nothing is assumed of
  sub-agents: `BegunRunsEnd` holds although they hang.
* `Orchestrator!FairSpec` adds that attempts end (no task has a time limit, but
  each of their clients has) and that a worker with a free slot eventually takes
  an orchestrator message among others (strong fairness: the slot comes and
  goes). `EveryQueryEnds` needs both.
* `ExecutionAgent!ExecutionFairness`, which `MCServices` states of its instance: the calls
  of an attempt answer or raise, and a queued message is taken. The broker need not
  settle anything (`PlacedGetsRecorded`).
* `DeadLetters!LettersFairSpec`: the beat runs the watchdog again and again. It is the
  fairness under which `StuckRunsAlert` fails.
* `MCIngestion!MCFairSpec`: a command sent to Redis is answered, refused, or its
  caller dies; a time to live runs out (`WindowsEnd`).
* `AnalysisPolling!PollingFairness`: the server answers, the timer fires, callbacks
  run, the run of a query ends, and Redis does not fail every read for ever
  (strong fairness on a read that finds the result). `PollingEnds` needs it.
* `AngelSession!SessionFairness`: a login answers or raises, and a thread that
  waits for the lock gets it in the end: it comes and goes, hence strong fairness
  (`WaitersGetIn`). Python's lock promises no order; that no waiter is passed over
  for ever is an assumption, and the one about the code is that each way out of
  the login releases it.

## The findings

* `block_hold`: the design document says BLOCK makes the signal HOLD
  (`SYSTEM_DESIGN.md:298`); the code skips execution and stores the signal the
  LLM chose.
* `one_order`: the execution agent is documented as idempotent
  (`execution_agent.py:149`), but the lookup sees only committed rows and
  `place_order` is retried without a `client_order_id`.
* `as_is`: `_make_client` reads settings that do not exist and the agent uses a
  column the model does not have; every execution fails.
* `risk_drawdown`: the high-water mark is never stored for the first time, so
  the documented halt at 20 % never happens. `UnsetMarkStaysUnset`, which is
  proved, is the reason.
* `long_term`: `buy_date` is never written, so a sale is dated by its own
  `submitted_at` and is short-term however long the shares were held
  (`tax_calculator.py:16`, `FRONTEND_REDESIGN.md:422`).
* `stuck_runs`: the watchdog looks for rows in status `started`
  (`dlq_consumer.py:97`, `PHASES.md:736`), and the agents write a row only at the end of an
  attempt: a run that hangs never raises an alert.

Observed while modelling (where a passing property shows it, it is named):

* Two overlapping checks of one ticker may both clear 5 %. `LoneEntriesFitWhatIsHeld`
  excludes overlap for that reason.
* A process that dies between INCR and EXPIRE leaves a counter that never
  expires and denies the API from then on (`cut` in `WindowsEnd`). One admitted
  call is an ingestion of up to 2 + `max_results` requests (`AdmissionsBoundRequests`).
* A late "completed" answer of a card's previous analysis ends the polling of
  the next (`OnlyOldAnswersStopEarly`), and a failed run is answered "queued" and
  polled for ever (`PollingEnds`; `PHASES.md:538` says 500).
* Three countdowns of 10 s outlast the 30 s of POST /trade (`FailuresComeLate`), so a
  failed execution is answered by the timeout; and if it were not, `AlpacaAPIError` is
  no `BrokerAPIError` and `LiveTradingNotPermittedError` cannot come from
  `paper_mode=True`: the 502 and the second 403 of the route are out of reach
  (`PHASES.md:563`, `:566`). A trade sent again after a 500 may be ordered twice, and so
  may one whose attempt raised after its order (`RepeatsHaveCauses`).
* The alert on repeated dead letters is written for the first one, with a count of 2:
  `recent_failures` includes the row just added, against the comment of
  `dlq_consumer.py:76` and `PHASES.md:733` ("more than once"). Nothing routes a message to
  the consumer.
* Five rows fetched for the latest price stay under the key the quant agent reads
  (`ShortHistoryIsBorrowed`); it answers HOLD on them for a day, or raises.
* The circuit alert (`indicators.py:95-108`) compares a close with limits made of the
  same close, so that it shows only for shares of one or two paise, where
  `FRONTEND_REDESIGN.md:29` and `:245` speak of stocks near their limit.
* `fy_end` is the midnight at which the 31st of March begins: sales later on that day
  are in no year's summary, against the docstring of `tax_calculator.py:45`. And since
  the cost of a sale is its own limit, no sale shows a loss
  (`FRONTEND_REDESIGN.md:425` speaks of losses to harvest).
* The Groq client retries by itself under tenacity, so that a completion takes up to
  four times three requests where the docstring of `llm.py:84` says four
  (`RequestsAreBounded`).
* EDGAR JSON of another shape raises outside the `try` and ends the search with all its
  form types (`Malformed`); any other failure costs one form type.
* A task whose message is delivered again beside its first worker publishes every run of
  the day twice (`RunsBelongToDeliveries`).
* A paper order whose Redis key is gone is recorded as filled without a price and
  never counts (`RecordedIsCounted`); paper sales need no holding
  (`ShortsAreExplained`).
* Two ingestions may store a filing twice (`SecondCopyIsOverlap`); a row of an
  article keeps the ticker whose feed came first, though three of the feeds are
  everybody's (`FirstTickerKeeps`).
* JSON of another shape from Groq is paid for with the attempt's other completions
  before the attempt is given up (`ResultsHaveShape`).

## The proofs

Eight modules, for every value of the constants that the named assumptions allow.
The assumptions (`OrchestratorAssumption`, `ExecutionAssumption`, `RiskAssumption`,
`LimiterAssumption`, `FilingAssumption`, `NewsAssumption`, `ChunksAssumption`,
`SessionAssumption`, `TradeAssumption`, `PortfolioAssumption`, `WatchAssumption`,
`TaxAssumption`, `LettersAssumption`, `ResearchAssumption`, `MarketAssumption`,
`PollingAssumption`, `PaperAssumption`, `LiveAssumption` and `EdgarAssumption`) say
what kind of value a constant is, which sets are finite, and that marks such as
`"none"` are no members of them. The passing runs evaluate all of them.

**`OrchestratorProofs`.** `TradeIsCleared` is not inductive: it speaks of the
tasks, and that an execution task has a cleared payload follows from where the
fields it was built from came from. `IInv` adds, per run, that nothing is
dispatched before the run began (`Origin`), that a field is unset, its fallback,
or the result of a successful task of that run (`Provenance`), that past the
fan-in both branches are set and the risk payload is theirs (`Joined`,
`RiskArgument`), that execution_node is reached only past the gate (`Gated`,
`ExecutionArgument`) and that a row precedes the result key (`Committed`). Steps are
reduced to a few shapes (a move of `pc`, a field set, a dispatch, a task step,
the synthesis) by lemmas on one run; `OtherRuns` carries all the others over.
Theorems: `TypeCorrect`, `TradesAreCleared`, `RiskJudgesWhatIsHeld`,
`VisibleAfterCommit`, `FieldsAreWriteOnce`, and `PipelineKeepsPromise`
(`Spec => P!Promise`), where every step maps to one of the promise or to a
stutter. `AnalysisPromiseProofs!PromiseIsKept` says what the promise gives a user.
`OneSlotIsStarvation` needs an invariant of its own (`SlotInv`): a run in the graph
keeps every attempt from starting (`SlotHeld`, with a lemma that the cardinalities
behind `FreeSlot` leave a single slot free only when nobody is at work), and since it
began before it dispatched anything, none of its tasks can have ended well while it
waits; so its fields are fallbacks and its row a BLOCK (`Starved`). `RunsAdvance` and
`RowsStay` are action properties: a run visits a node once at most, never works on
after its end, and commits one row that nothing changes. Together with
`FieldsAreWriteOnce` they are the safety half of `BegunRunsEnd`: what is left to
fairness is that a step which is possible happens.

**`ExecutionProofs`.** `IInv` adds the bounds of the counters (`Counters`), that
the next submission of a live job is a new order (`Behind`, needed because an
order is named by job, attempt and submission), what a job knows of the order in
its hands (`Knowledge`) and, without overlap, that one job is active and the
query has no row between a lookup that missed and the upsert (`Exclusive`).
Theorems: `TypeCorrect`, `OrdersAreTracked`, `LookupPreventsDuplicates`,
`TableIsTrue`, `SuccessHasRow`.

**`RiskProofs`.** `IInv` says per check that it fits what it read (`Fits`, from
two lemmas on floor division and `SizeBound`), that whoever is about to write a
mark raises one that exists (`Raising`), that without overlap positions do not
change between the read and the fill (`Fresh`, `Alone`). Theorems:
`TypeCorrect`, `LimitsOnWhatWasRead`, `LimitsOnWhatIsHeld`, `MarkIsNeverCreated`,
`MarkIsMonotone`, and `AnswersFit`: a check answers no more than what `Orchestrator`
takes a risk task to return (`RiskOutcome`), so the pipeline's theorems rest on an
interface that the risk agent is proved to keep.

**`BrokerProofs`.** Holdings and cash are sums over a growing sequence of rows, of
`SumFunctionOnSet`, which is defined by recursion over finite sets. The library's
induction theorems are out of the provers' reach, but that strict inclusion of finite
sets is well founded is not: a property of all sums fails, if it fails, of a smallest
set, and that one is refuted. So the sum is shown to exist and to be unique
(`SumExists`, `SumIsOne`), independent of the order of its terms, and one term more
when a row is added; what the books owe each other then is arithmetic. `PaperIInv`:
`CoveredSales`, as long as nobody asked for a sale of a ticker and no two raced, the
one close on its way sells no more than is held; `KeysGivePrices`, an order without a
price has slipped; types; `RecordedIsCounted`. `LiveIInv`: calls in progress have
numbers of their own (`CallsAreNumbered`), one whose order the venue already has was
answered with an error (`RepeatsAreErrors`), and what a close read while no order was
open stays true until another order comes (`StillRead`, `Opposite`). Theorems:
`PaperInvariant`, `PaperBooks`, `LiveInvariant`, `OrdersCaused`, `TradesHaveReasons`,
`BrokersTyped`, and `BrokersKeepBooks` for the composition.
`TradeInv` says what the stage of each delivery of a manual trade still owes (an
attempt at work while its request waits began inside the wait; a found row is a row
of the request), that at most one request waits or is answered well, and that a
`200` has its row; `TradesHaveReasons` follows.

**`IngestionProofs`.** The limit of a window is not inductive: `LimiterInv` adds that
at most one caller is between its two commands, that the key has no time to live
then, and that calls admitted and still to be admitted are at most the count. `BudgetInv` bounds the
requests sent *and those still owed* by admitted ingestions by `2 + MaxResults` for
each admission; what is owed is a finite set of pairs, whose cardinality each step
lowers by one at least (a few lemmas on `FiniteSetTheorems`). `CopyInv` says that
two ingestions past a look that found nothing are `overlapped` already. `NewsInv`
says where each article a request was given is: unchecked, to be inserted, or in
the table. `ChunksInv`: what is before the end of the last chunk is covered, and the
next chunk begins there or before and ends behind it, which needs
`overlap_words < words_per_chunk`. `EdgarInv`: the wait before an attempt is the power
of two of its number, what was waited on its form type is one second less, and each form
type before it had its share (`PauseIsPaid`); that the powers exist and grow is shown from
a least counterexample again (`Least`, `DoubledExists`, `DoubledGrows`). Theorems:
`WindowIsBounded`, `CopiesComeFromOverlap`, `NewsIsKept`, `TextIsCovered`,
`SearchKeepsBounds`; `ChunksAreTyped`, `FilingsAreTyped`, `IngestionIsTyped` for the types with their bounds, and `SourcesKeepPromises` for
the composition.

**`ServicesProofs`.** `PollingInv` ties what each request in flight may have found to
what became of its query. `SessionInv`: only the holder of the lock logs in, so the
`expires` it read is the one it replaces, and who is about to take the session
read a clock that lies before its end. `PortfolioInv`: the counts a request has read
rise and are at most the rows. Theorems: `CardsAreTold`, `SessionsLast`,
`SnapshotsAreRead`; the types, whose bounds (rows, publications per delivery of the daily
task, counts of letters) are invariants of their own, in `PortfolioIsTyped`,
`WatchIsTyped`, `LettersAreTyped` and `ServicesAreTyped`; and
`ServicesKeepPromises` for the composition.

**`RecordsProofs`.** `RowsInv`: a row that a request read as present is still there
when it writes, so only an INSERT can meet the unique ticker; with it every step of
`Watchlist` is one of the promise or a stutter (the read, where a request writes
nothing; else the commit). `DailyInv`: the runs of a ticker are counted by the
deliveries that have it on their list and no longer before them, a set that each step
leaves as it is or extends by one (`DailyMoves`, `DailySends`, from facts on the
cardinality of finite sets). `TaxInv`: a fill is not later than its row; the rest is
arithmetic. `LettersInv`: a count is positive when it is there and at most the number of
letters of its ticker, and each alert is of a stored letter. The invariant of the
research task bounds the requests step by step, completions, tries and the client's
retries, and says of each row what its delivery and attempt are doing since; it is one of
a single delivery, and a redelivery begins another (`OneDelivery`, `DeliveryGoes`,
`RowsStay`).
`MarketInv` says whose a short frame is, wherever it has got to (the entry, a call
in progress), and bounds the rows behind an answer. Theorems: `WatchlistKeepsPromise`, `DailyRunsHaveReasons`,
`SummariesAreOfSales`, `AlertsAreOfFailures`, `AttemptsAreCounted`,
`QuantAnswersHaveGrounds`, and the types `ResearchIsTyped` and `MarketIsTyped`.

A behaviour of `MCBrokers`, `MCServices` or `MCIngestion` is one of each of its parts
(`MCIsPaper`, `MCIsEachService`, `MCIsEachSource`...), so each composition has the
theorems of all its parts.

Every invariant and action property that a passing run checks is a theorem, and so are
both refinements. Only model-checked:

* liveness (`BegunRunsEnd`, `EveryQueryEnds`, `PlacedGetsRecorded`, `WindowsEnd`,
  `PollingEnds`, `WaitersGetIn`): the prover does not reason about fairness, which
  is defined by ENABLED;
* the six violated claims, which are false.

## What is not modelled

* Prompts, scraping, parsing and layout: data or I/O.
* FII/DII flows and the market overview: read-through caches of a page, each with
  one key and one reader.
* `main.py` and the routes that only query: signals, search, audit, GET /runs,
  GET /trades, GET /portfolio/history, health. They have no state.
* Code without a caller at this commit: `fetch_nse_filings`, `ingest_news_for_rag`,
  `save_price_snapshot`, `get_cik_for_ticker`, `calculate_drawdown`,
  `is_market_open`. (`EdgarSearch`, `LiveOrders` and the order functions of
  `PaperBroker` have no caller either; they are modelled for the retries and
  records that a caller will meet.) `error_node` has no edge into it.
* The gains of `get_tax_summary` and `calculate_tax`: sums and rates. The circuit alert of
  `indicators.py`, a function of one close. The audit row of `log_daily_pnl`.
* The high-water mark has a time to live of a year from its last rise
  ("effectively permanent", `risk_agent.py:20`), which `RiskAgent` takes as none.
* Float rounding of money: values are whole units.
* The `paper_mode` gate of the execution agent is always open for orchestrator
  messages. `cancel_order` and the bracket legs of an Alpaca order have no caller
  that reads them back.

## What could follow

1. Measures for the other liveness properties, as `RunsAdvance` is one for
   `BegunRunsEnd`: an execution job only moves on within an attempt, an attempt of the
   research task sends finitely many requests.
2. The other interfaces of the pipeline, as `AnswersFit` is that of the risk agent:
   what `MarketData` and `ResearchTask` may answer is what `Outcome` allows.
3. `PaperBroker` in place of Alpaca under `ExecutionAgent`, when the agent calls
   the broker layer.
