# OnlineResearchAgent: a TLA+ verification project

The agent answers a question by searching the web, letting a model pick results,
scraping them, letting the model judge the pages and having it write a summary.
Everything it pays for (a search, a fetched page, a model's reply) is kept in an
append-only file, and what the README of the agent promises (reproducible runs,
graceful degradation, one retry budget, a cache that survives crashes) rests on how
concurrent coroutines, failures and those files interact. That is what these modules
are about.

Run things from this directory: `tlasany M.tla`, `tlc -config X.cfg M`, `tlapm M.tla`.
`PROJECT.json` lists the runs, the mutants, the map from definitions to source lines,
the hazards, the findings and the theorems.

## 1. Inventory

One process, one event loop. The server builds one pipeline with one searcher, one
scraper, one LLM client and three cache files; every request runs through those
objects, so requests interleave wherever the code awaits and nowhere else.

| Component | State it keeps | Operations | What makes it correct |
|---|---|---|---|
| `core/cache.py` JsonlCache | a file of JSON lines | `get` (last match wins), `put` (append), `clear` | the latest completed put is served; damage is skipped and bounded |
| `llm/client.py` GeminiClient | one cache, a memoised call function | `generate`, `generate_json`, `generate_model`, all through `_generate_parsed` | only replies that fit a schema are returned or cached; the budget is `retries + 1` calls; a repeat is free |
| `llm/client.py` transports | the requests that are out: a line and threads of the event loop's executor, or posts | `default_call_fn`, `default_litellm_call_fn`, both under `wait_for` | a caller gets the answer to its own attempt, every attempt ends, only a thread that was given up overlaps a retry |
| `core/scraping.py` WebScraper | one cache; per call a client and a semaphore | `scrape_many`, `_scrape_one` | permits are conserved, every URL gets a page, settled pages stay |
| `core/search.py` WebSearcher | one cache | `search` | fallback in order, failure only after all providers, settled answers stay |
| `core/selection.py`, `validation.py`, `summarization.py` | none | `select`, `validate`, `summarize` | the choice is valid, the model is not asked about nothing, failures degrade |
| `core/research_pipeline.py` | none of its own | `run` | grounded summary, free replay, no orphans unless it raised, a run ends if its pages do |
| `agent/skills.py` executor | none; an event queue per task | `execute`, `cancel` | a client that stops at the first final event has seen a whole task; failure and result do not mix |
| `agent/legacy_compat.py` | one request's buffers: the body, `is_legacy`, the task id, the captured answer | ASGI call (`replay_receive`, `capture_send`), `_upgrade_request`, `_downgrade_response` | old clients are understood and answered in their own words; native requests get through untouched |
| `agent/server.py`, `wiring.py` | what they build | `build_app`, `build_pipeline` | how the parts are put together: middleware, SDK, executor; shared caches and client |
| `agent_card.py`, `openapi.py`; `utils/*`; `llm/prompts.py`; scripts; deployment | none at run time | construction, configuration, rendering | glue |

**Interactions.** `execute` awaits `run`; `run` awaits the stages one after the other;
`select`, each judgement and `summarize` are calls of the one LLM client; `scrape_many`
and `validate` gather one task per page. The SDK between the middleware and the executor
is a library: it calls `execute`, and on a client's request `cancel`, and makes the answer
of the events it finds in the queue. Caches are read and written synchronously by
whoever holds the event loop. `clear_cache.py` truncates the files from outside, at any time.

**Hard behaviour.** A cache is looked up, the call goes out, and the store happens
later: two coroutines with one key overlap. `gather` raises at the first exception and
leaves its siblings running. A cache write can be cut short by a crash or a full disk, can raise
inside somebody's `try` block, and when it was cut short it spoils the next one, whoever makes it. A stage's cache keys contain the answers of the stages
before it, so one missing or replaced record sends a replay astray. Cancellation strikes
at any await. A thread goes on with a call its caller has given up. `cancel` announces
an end to a task that runs on. What the middleware renames on the way in it has to name
back on the way out. The `hazards` of `PROJECT.json` list each of these at its line.

## 2. Modules

| Module | Models | State and actions |
|---|---|---|
| `CacheFile` | what the rest of the agent has in a cache file: a last-write-wins map, but for torn puts | `cache` is what `get` answers, `kept` what it would answer without the last line if that is unterminated, `torn` and `readable`; `Put`, `TornPut`, `PutRaises`, `Clear` |
| `JsonlCache` | `core/cache.py` | `lines` and `tail` are the file: terminated lines and the bytes after them. `Put` a whole line whose call returned, `UnackedPut` a whole line whose writer died, `TornPut` a proper prefix, `Clear` truncation. `Get` is an operator over the content |
| `LlmClient` | `GeminiClient._generate_parsed` | one caller per coroutine: `Hit`, `Miss`, `Accept`, `Reject`, `CallFails`, `Wake`, `Cancel`, the cache raising at the lookup or the put (`LookupRaises`, `AcceptRaises`), and `Clear` |
| `Scraper` | `WebScraper` | batches (`scrape_many`) of jobs (`_scrape_one`): `LookupHit`, `LookupMiss`, `Acquire`, `Finish`, and the cache raising; `Start`, `Return`, `Leave` (the client closes after an exception), `Cancel` of a batch; `Clear` |
| `Search` | `WebSearcher.search` | `Hit`, `Miss`, `Answers`, `ProviderFails`, `StoreRaises`, `LookupRaises`, `Cancel`, `Clear` |
| `ResearchPipeline` | `ResearchPipeline.run` with selection, validation and summary | per run a stage and the cached calls of that stage (`Hit`, `Miss`, `Answered`, `LookupRaises`, `StoreRaises`), and one action that ends each stage (`Searched` ... `Summarized`) |
| `LlmTransport` | the call functions under `wait_for` | per caller an attempt, per attempt a request: `Begin`, `Take` (a thread), `Respond`, `Deliver`, `Drop`, `Timeout`, `Cancel` |
| `TaskProtocol` | what a client may see of a task | `seen`; `Accepted`, `Delivered`, `Completed`, `Failed`, `Canceled` |
| `TaskExecutor` | `ResearchAgentExecutor` | per task where `execute` is and the events announced: `Refuse`, `Accept`, `Delegate`, `PipelineRaises`, `PipelineReturns`, `Complete`, `Kill`, and `CancelTask` beside them |
| `LegacyCompat` | the middleware | per connection the request, where the call is, what the application was given and heard, what the client was sent: `ReadChunk`, `ReadEnd`, `ReadDisconnect`, `Receive`, `SendStart`, `SendBody`, `Flush`, `Raise`, `Disconnect`; `Upgraded` and `DowngradedTask` are the two rewritings |
| `A2AServer` | `build_app`: `LegacyCompat` around the SDK around `TaskExecutor` | `Submit`, the answers (`AnswerTask`, `AnswerError`, `AnswerBody`, `StreamStart`, `StreamEvent`, `StreamCut`), and the actions of both parts |
| `MC*` | instances for TLC | |
| `*Proofs` | theorems about the module of that name | |

`LlmClient`, `Scraper` and `Search` instantiate `CacheFile` for their cache and use its operators in their
actions. A put that raises may have written nothing, a part or everything. A part has no newline: the next put,
of any key and any caller, lands on that line, returns normally and is lost with it, and the put after that is
safe again. If the part ended inside a multi-byte character, every later `get` raises. All of that is what
`CacheFile` does (`PutRaises`, `torn`, `readable`), from any state an earlier process may have left, and
`JsonlCache`, the file of lines, is shown to do nothing else (`FileSpec`). In `ResearchPipeline` the three files
are one map with a flag per file, which takes puts in the same way (`Put`, `TornPut`); it starts with empty
files, and nothing truncates them: a first run whose records were truncated has nothing to replay, so
`ReplayIsFree` would only gain one more exception, and grounding, degradation and orphans do not depend on what
is on record.

`ResearchPipeline` takes a cached call to be one exchange with one outcome, which is what those three modules
establish about it (what is stored is what was returned; each call ends, but for a fetch that its server holds).
`LlmClient` in turn takes it that a call function answers, raises or times out, and never answers another
attempt's question: that is `EveryAttemptEnds` and `AnswerIsCurrent` of `LlmTransport`. `TaskExecutor` lets the
pipeline return or raise; that it does so at some time is no assumption of it. `A2AServer` extends `LegacyCompat` and `TaskExecutor`: a step of it is a step of
one of them, or of both when the SDK makes an answer of events. What it says of the SDK, of
Starlette and of uvicorn is external: the choices the code in `src/` has to cope with.

Conventions. An action is a whole stretch of code between two awaits (the pipeline
splits some of them, which only adds interleavings). History variables
are marked as such and appear in no guard. A definition whose comment starts with
"Mutant" is a plausible bug in the definition that follows; nothing uses it, and
`PROJECT.json` says which property notices when it takes that definition's place.

What the modules leave out, beyond wording and rendering: a cache switched off by
configuration (nothing is shared then), hash collisions, several processes that append
to one file, the JSON of the providers, scores and thresholds (a page is kept or not).

## 3. Runs

| Run | Question | Instance |
|---|---|---|
| `cache_torn` | Is damage bounded, is a completed put served, can an answer go back, and does the file do what `CacheFile` says? | 2 keys, 5 puts, 2 torn writes, truncation at any time |
| `llm_race` | What do overlapping callers get, cache and spend? | 3 callers, 2 schemas on 1 key, 4 texts (two fit both, one the older schema only, one none), any initial file, 2 retries, 2 cache failures, truncation, cancellation |
| `scrape_race` | Permits, orphans, completeness, settled pages | 2 batches of 2 tasks for one URL, any initial file, 1 permit each, 1 cache failure, truncation, cancellation |
| `search_race` | Fallback order, exhaustion, repeats, settled queries | 3 searches, 2 queries, every set of providers, any initial file, 2 cache failures, truncation, cancellation |
| `pipeline_race` | Two runs, overlapping or in turn: types, grounding, degradation, orphans, and a free second run | 2 runs, 2 results wanted of the 0, 1 or 2 a search may find, a reply out of order and doubled or wholly out of range, 2 texts as long as nothing fails and 1 otherwise, every failure, 1 cache failure that may tear a file, cancellation |
| `ends` | Does every call, search, `scrape_many`, task and run end? | each of the four components by itself: 2 callers of 1 schema with 2 cache failures; 2 searches with 2; 1 batch of 3 tasks that take turns with 1 permit, with 1; 1 run over 0, 1 or 2 results with 2 texts and 2; cancellation, truncation |
| `transport` | Whose answer does a caller get, what runs beside what, what can hung threads hold up? | 2 callers with 2 attempts each, 2 threads, both backends, 4 kinds of response, threads that hang, timeouts, cancellation |
| `server` | What does a client see of its task, what is an old client answered, does a native one notice the middleware, and is everyone answered? | 1 connection with any of 11 requests (old, new, streamed, blank, misshapen, not JSON), 2 chunks and perhaps an empty third, 2 calls of `cancel`, disconnects, exceptions of the application or between the two sends of an answer |
| `cache_crash`, `cache_outage`, `pipeline_second`, `server_disconnect` | Does the code do what its documentation says? It does not: see section 6 | a small instance that shows it |

**Bounds.** `MaxPuts` 5 and `MaxTears` 2 let a record be written, damaged, rewritten,
damaged again and read; a torn write only acts on the line after it. Two callers make a
race and the third is the one that begins after it; it takes three, too, to tear a line, to lose a put on it
and to pay again. `Retries` 2 is the configured value
and distinguishes first, middle and last attempt. `MaxFaults` 1 lets one task of a batch
fail and the others go on, and an initial file whose last line is unterminated counts as one; 2 lets a file be
torn, mended by the put that is lost, and torn again, and in `Search` makes both providers' answers go to waste.
The callers, batches, slots, searches and queries of the three client runs are symmetric. In `pipeline_race` the
module `MCResearchPipeline` says by `Bounded` what TLC's symmetry would, that r1 begins first and t1 is the first text, and keeps the
second text for behaviours in which no call has failed: two pages that are both kept need two texts, and a run that met
a failure has no replay. `MCEnds` has no symmetry, which liveness does not allow, and smaller instances; it moves one component
in each behaviour, under that component's own fairness. One `scrape_many` and one run are enough there, because nothing that
makes one wait belongs to another (a semaphore and a client are the call's own).
`Concurrency` 1 with two tasks makes one wait, and frees a permit for a waiter. URLs meet
only in the permits, which do not depend on them, so one URL gives every race there is.
`TopK` 2 of 2 results gives the gathered stages two calls; a failed selection chooses both,
and the doubled reply one. Two callers on two threads
are enough for one to hang both with an attempt and its retry while the other waits in line. Requests share
nothing but the pipeline, so one connection at a time is every connection; its request is
chosen to tell apart all the branches of the two rewritings. Two calls of `cancel` let one come
before and one after the end. The theorems of section 4 hold without any of these bounds.

The type invariants of `JsonlCache`, `LlmClient`, `Scraper` and `Search` are proved and
not run again; the others are run.

**Fairness and deadlock.** Weak fairness on what the event loop does: asyncio runs every task that can go on, and a
sleep ends. That an await of the outside world ends is assumed only where the code says so:

- A call of the model ends: both call functions are under `wait_for`, which bounds the whole attempt
  (client.py:79, 127-133). `LlmTransport` models that (timers go off, an idle thread takes what is in the line;
  nothing makes the SDK return, so `RecoversFromSlowCalls` is conditional on its calls not hanging), `LlmClient`
  assumes its result.
- A fetch of a page need not end. The client's timeout (scraping.py:86-88) is for each connect and each read, and
  nothing bounds `client.get` as a whole (scraping.py:119): a page that sends a byte now and then, or never stops, holds its
  task, its permit and its `scrape_many`. `Scraper` has no fairness on a request that is out, and
  `EverythingEnds` is about calls none of whose requests is held for ever. In the same way `EveryRunEnds` is about runs
  that no page holds for ever, and `EveryRequestIsAnswered` about tasks whose `execute` does not wait for the pipeline for ever.
- A search provider has no total bound either (search.py:146, 176), but the two peers are fixed JSON APIs. `Search` takes it
  that they finish their responses, and that is an assumption.

Nothing obliges a caller to begin, a task to be cancelled, a cache to fail or a client to send its body or to stay.
The permit of a semaphore is handed to waiters in turn, and each of them
has an action of its own to be fair to. Deadlock is checked in every run: where all
callers have ended the specification stutters explicitly (`Done`, `Quiet`), so that any
other stop is an error.

## 4. Proofs

Every safety property and every action property of a passing run is a theorem, and so are
the two refinements: for every value of the constants, with the assumptions each module
names about them. Those say that markers differ from data (`NothingAssumption` and the like),
that bounds are naturals and `Concurrency` is positive, that the set of slots is finite, that a
request is a record whose id, if it has one, is an id (`RequestAssumption`; a null id is no
field), and that the parts of its message are a list of objects (`PartsAssumption`; the requests
of which that is not true have forms of their own).

- **JsonlCache.** `LossIsBounded`: a bound on the cardinality of the lost records is not
  inductive, because what a torn tail will cost is decided later. `LossInv` therefore
  counts a damaged tail (`Wounded`) as paid for already. `ReadYourWrite` and `MonotonicReads`
  are action properties, from the lemmas that say what appending a line does to the latest
  match; the latter needs `KnownInv`, that no version in the file is newer than `puts`.
  `FileIsAMap` is the refinement: `cache` is what the whole content answers, `kept` what the terminated lines do, and
  each step of the file is one of `CacheFile`'s or a stutter, torn writes included (`WriteRefines`, `TornRefines`). It rests on how
  appending a record (`PutView`), or ending a damaged line (`DamagedView`), changes the latest match of each key.
  In the three clients a lemma `PutStep` says what a put that returned or raised leaves of the others' records.
- **LlmClient.** One inductive invariant: the types, how many calls and delays an attempt
  number stands for (`SpentInv`), what a caller that went out had seen (`MissedInv`), and
  that a caller in `lasting` left a usable record for its key on a line of its own (`KeptInv`), which no torn write reaches.
  From it `AnswersFit`, `BudgetIsExact`, `RepeatsAreFree` and the action properties `CachedIsAccepted`, `ShadowingIsARace`.
  `RepeatsAreFree` has two halves: a repeat of a request whose record was whole is free, and the puts that returned but were lost,
  with the one that is about to be, are no more than the failures of the cache.
- **LlmTransport.** The invariant is where a request can be, by what its caller is doing:
  `JobInv` (an attempt that is waited for is neither over nor lapsed, any other that began is one of the
  two, and through the proxy what has lapsed does not run), `LineInv` (the line holds what is queued, once)
  and `PoolInv` (as many threads run as the executor has, or fewer). `OverlapOnlyInThreads` and
  `AnswerIsCurrent` follow. That the pool is not exceeded is a bound on the cardinality of `Running`, one
  lemma per way that set changes.
- **Scraper.** `PermitsAreConserved` by the cardinality of the set of tasks in flight, one
  lemma per way the set changes; `MissedInv` (a task past its lookup had found nothing it
  could serve) gives `ShadowingIsARace` and `SettledStays`; `EndInv` (what a call's state says of its tasks,
  and that an escaped exception is its call's) gives `NoOrphansButOfARaise` and `ReturnsAreComplete`.
- **Search.** `AskedInv` (which providers a call has asked, by where it is), `WastedInv`
  (a count of the dropped answers against the failures) and `KnownInv` (the query of a search in `lasting` has a record
  on a line of its own) give the theorems; `RepeatsAreFree` is as in `LlmClient`, and `SettledStays` follows from what rewrites a record: a call that is out, or `Clear` (`CacheStep`).
- **ResearchPipeline.** `IInv` says of each run what its plan holds at each stage and not before
  (`PlanFits`), what its calls can have been answered there (`CallsFit`), and of the caches that a
  record is an answer of its stage (`MemoInv`). The types, `SummariesAreGrounded`,
  `OnlySearchAndSummaryRaise` and `OnlyARaiseLeavesCalls` follow from it.
  It needs what the two loops of the code compute for lists of any length: the one that keeps
  the first `TopK` valid picks of the model's reply, and the one that keeps the pages judged worth it. Both are recursive
  functions on the naturals here. The library's induction is out of the prover's reach, but not the
  well-foundedness of the naturals: a set of naturals that is not empty has a least element (`Least`), so
  that a loop whose invariant failed would fail for the first time somewhere, which `LoopIsDefined` and
  `LoopKeeps` turn into the usual rule. `MaterializedPicks`, `ChosenPicks` and `KeptPages` use it.
- **`TheSecondRunIsFree`** is the argument the cache design rests on, and has three parts. `HistoryInv`: a run
  has paid for what it sends, and while it is `alone` nobody else is active. `TrailInv`: of a run that is alone, met no failure
  and has no two calls with one key, each answer its plan was made from is on record, on a line of its own, and `Firm`: it
  will be served, and no call that is out has its key. A record stays firm (`FirmStays`) because a call that begins on its key is
  a hit, and whoever was out with that key before the run began is no longer, as it was alone. `MirrorInv`: a
  run of the same query that begins after it is at each stage where the first one was, with the same plan so far,
  and has paid nothing. As the keys of a stage are made from the plan so far, they are those of
  the trail, and each call is a hit with the same answer. `Replayable` is the conjunction, and inductive; `TrailInv` and `MirrorInv` alone are not, each
  of them needs that nobody is out with the key of a record.
- **TaskExecutor.** The invariant says, for each place `execute` can be suspended at, which events may
  have been announced (`Story`, `Blank`), and that they are exactly `execute`'s own as long as
  none is final (`Open`). `OneExecution` follows from the first two. `ClientsSeeTheProtocol` is the
  refinement; the view is cut at the first final event, so `FirstInv` (there is a first one) and
  `ViewGrows` (after it the view stands still) carry it. A bare `OneStory` is not inductive: that a
  failure follows no result depends on where `execute` is.
- **A2AServer.** Every step of the composition is a step of `TaskExecutor` or leaves it alone
  (`ServerRunsTasks`), so both results hold of the tasks behind the middleware. What is said of requests and answers
  follows from `ServerInv`: the flag `legacy` says exactly which requests are old once the body is read
  (`Sorted`, which ties what follows to what the client posted), of an old one the application has the
  translation (`Translated`), answers with an error or with a task that holds the message it was given
  (`Answered`), and what the client was sent is determined by where the middleware is (`Held`); of any other
  one, what was sent is what the application sent (`Passed`). `OldRequestsArrive` and `OldClientsAnswered`
  then are about the two rewritings, for objects of any fields and messages of any length:
  `PartThereAndBack` is the round trip of one part, `UpgradedMessage`, `HeadFields`, `PartsFields` and
  `TaskFields` say what becomes of each field, `FiledFields` what the SDK adds, and `PartsArrive` and `MessageComesBack` put them together.

Each inductive invariant that is not itself a property of a run was checked by TLC on the instance of
its run (`Replayable` on that of `pipeline_race` in two halves: without failures of the cache, and with one text and one listing).

Only model-checked: everything with fairness (`EveryCallEnds`, `EverythingEnds`,
`EverySearchEnds`, `EveryRunEnds`, `EveryAttemptEnds`, `RecoversFromSlowCalls`,
`EveryRequestIsAnswered`), which this prover cannot do, and the four disagreements of
section 6, which are counterexamples.

## 5. Properties that carry the weight

- `LossBounded`, `ReadsNeverGoBack`: what a torn file can and cannot do.
- `AnswerFitsSchema`, `OnlyAnswersAreCached`, `ShadowedOnlyByARace`: the shared client under races and schema drift.
- `PermitsConserved`, `OrphansOnlyAfterRaise`, `EverythingEnds`: the scraper's gather and semaphore under exceptions.
- `RepeatIsFree` of both clients, `FileSpec`: what a torn write costs whom.
- `FailureIsExhaustive`, `AnswerHasASource`: the searcher's fallback, including the store inside the try block.
- `ReplayIsFree`: a second run costs nothing and comes to the same result, provided the
  first was alone, met no failure, had its records on lines of their own and had no two calls with one key. Each condition is
  needed: a failed judgement is not stored, an empty page is never served, an overlapping
  run may replace a record, a record on an unterminated line is lost with the next one, and two equal texts are judged twice.
- `ClientSeesTheProtocol`, `OneStory`: a task against cancellations that do not stop it.
- `OldClientsReadTheirOwnWords`, `OldRequestsAreUnderstood`: an old client gets back what it wrote, in its own words, whichever fields it sent;
  the `messageId` made up for it and the SDK's `taskId` come with it.
- `OverlapOnlyInThreads`, `RecoversFromSlowCalls`: what a timeout leaves behind.

## 6. Where the code and its words differ

| Run | Words | Code |
|---|---|---|
| `cache_crash` | README.md:443 "Crash-safe" | the record after a half-written line is lost with it |
| `cache_outage` | cache.py:6 "never becomes an outage" | one undecodable byte fails every lookup |
| `pipeline_second` | README.md:31 "zero HTTP + zero LLM calls" | equal texts are judged twice, and the second run may need a new summary |
| `server_disconnect` | legacy_compat.py:14 non-legacy requests "pass through untouched" | every POST's second `receive()` says at once that the client has disconnected, so a stream that listens for that is told to stop |

Short of a contradiction that a run could show:

- scraping.py:8 "Errors never escape" is about a request; a failure of the cache does escape, from the
  lookup and from the store (`ReturnMeansAllPages` names it as the only one that does).
- scraping.py:162 stores a page that is honestly empty "so we don't refetch" it, but the zombie test of
  line 103, which README.md:63 calls an auto-heal, refetches every record that is empty. `SettledForGood`
  is therefore about the others.
- search.py:100 stores the answer inside the provider's `try` block, so a cache that raises is taken for a
  provider that failed, its answer is dropped and the other one is paid (`FailureIsExhaustive` counts this in).
- summarization.py:53 catches nothing, so that a run whose last call fails raises with
  everything it had found and kept (`FailuresDegrade` names it as one of the two ways).
- skills.py:20 says that neither failure path invokes the model or the network: the refused query's does
  not, the pipeline's failure comes after it did.
- legacy_compat.py:118 makes up a `messageId` that the downgrade (lines 150-154) leaves in the history, so that an old
  client reads a field it never sent (`OldClientsReadTheirOwnWords` names it).
- legacy_compat.py:89-98 sends a rewritten answer in two messages; an exception between them leaves a start without a
  body (`LegacyAnswersAreWhole` allows that and nothing else).
- scraping.py:86-88 sets a timeout for each read and nothing bounds a fetch (section 3).
- client.py:77 takes a Gemini response without text for an empty answer, where the proxy's missing content is
  an error (`AnswerIsCurrent` states the difference).

## 7. Plan

In this order; what is done is marked.

1. Done: `CacheFile`, `JsonlCache`, `LlmClient`, `Scraper`, `Search` with their proofs, and `ResearchPipeline`.
2. Done: `TaskProtocol`, `TaskExecutor` with their proofs.
3. Done: `LegacyCompat` and `A2AServer`, the composition.
4. Done: `LlmTransport`.
5. Done: proofs about `LlmTransport`, `LegacyCompat` and `A2AServer`, and the two of `Scraper` that were left.
6. Done: `ResearchPipelineProofs`, with `ReplayIsFree` for every number of runs and every reply.
7. What the modules take for granted of one another as a refinement: a specification of one cached call (looked up,
   then exchanged, then on record, or failed), which `LlmClient`, `Scraper` and `Search` implement
   caller by caller, and which is what `ResearchPipeline` steps through.

**Not modelled**, with the reason. Requests that are no POST go past the middleware (legacy_compat.py:33)
to static routes. `openapi.py` and `agent_card.py` build constant documents. `config.py` reads its files
once at start-up; its values are the CONSTANTS, and a missing credential stops the process before
there is any state. `prompts.py`, `hashing.py` and the rendering of blocks are pure functions whose
results serve as keys only. `logging.py` writes what nothing reads. The scripts other than
`clear_cache.py` call what is modelled. The deployment files state the premise that one
process owns the cache files.
