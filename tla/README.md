# Verification of secure-llm-deployment

TLA+ models of the gateway in `src/src`, checked with TLC on small instances and
proved about with TLAPS. Paths below are relative to the repository root
(`src/...` is the Python package).

## 1. The system

A FastAPI gateway stands between clients and a language model. Two uvicorn
worker processes (`docker/Dockerfile`), each one asyncio event loop, share one
Redis. `query_llm` authenticates, filters the text, asks the cache, routes,
infers, filters the answer, stores it and replies. A batching queue for the
engine exists beside the endpoint and is driven by tests only.

| Component | State | Operations | Interacts with | What is hard | What makes it correct |
|---|---|---|---|---|---|
| Query endpoint `api_gateway/routes.py` | the local variables of each suspended handler; module-level singletons | `query_llm`, `login`, `get_current_user` | calls filters, cache, router, engine, metrics | three awaits, cancellation at each, exceptions, death of a process, concurrent calls for the same query | only filtered text goes in and out; every reply is traceable to an inference for a similar prompt; every way out keeps the metrics right |
| Metrics and stats `monitoring/metrics.py`, `api_gateway/app.py` | Prometheus counters and a gauge, per process | `inc`, `dec`, `_counter_value` | moved by the endpoint, read by `/metrics` and `/api/v1/stats` | agreement with what really happened, over cancellations and restarts | the gauge equals the handlers in flight, a counter the requests with that outcome |
| Response cache `cache/response_cache.py` | Redis values, embeddings, a list of their keys; a dictionary per process | `get`, `set`, `invalidate`, `clear` | endpoint; Redis; sentence-transformers | several commands per call, no transaction, any command may fail before or after it took effect, expiry, two stores with different lifetimes | what is returned was stored for a close enough query and is still held; read your writes; removal; expiry |
| Batch processor `inference/batch_processor.py` | priority queue and its count of unfinished items, futures, flag, loops | `submit`, `start`, `stop`, `_process_loop`, `_flush_batch` | callers; engine | cancelled callers, several loops, stop while working, failing inferences, time-out against arrival | each item in one hand, resolved by its own outcome, counted once; stop ends |
| Engine `inference/engine.py` | a lazily created client, the attempt each call is in | `infer` with retries and back-off | endpoint, batch processor, provider | time-outs, repetition of work already done, two layers of retries, cancellation inside the retry loop | what a call can cost is bounded, its outcome is earned, it ends |
| Router `routing/query_router.py` | none | `route` | endpoint | thresholds on sums of floats | a function of the text; the expensive model only from the threshold on |
| Filters `security/*.py` | none | `sanitize`, `check`, `detect`, `redact`, `filter` | endpoint | the order they are applied in, patterns that overlap, boundaries that appear and disappear | what each removes is absent from its output, also after the next one, but for what a placeholder uncovers |
| Authentication `api_gateway/auth.py` | constant user table; whatever tokens are about | `login`, `authenticate_user`, `create_access_token`, `decode_access_token` | endpoint | two times rounded to seconds at different moments | a token is good for its whole lifetime, and for less than a second more |
| Model loader `inference/model_loader.py` | dictionary of loaded models | `load`, `unload` | nothing calls it | nothing: it is synchronous and keeps one dictionary | a model is registered only when complete |
| Middleware, limiter, logger, dashboard, deployment | none that matters here | | | | |

`PROJECT.json` lists, under `hazards`, each place where this code could go wrong
in a way a test would hardly reach, with the properties that watch over it.

Two facts about the program shape the models. An asyncio task gives up control
only at an `await`, so an action is everything a task does from one `await` to
the next. And `asyncio.CancelledError` is not an `Exception`: a cancelled handler
passes the `except` clauses and runs only `finally`.

## 2. The modules

| Module | What it is |
|---|---|
| `QueryPipeline` | the endpoint with filters, metrics and what it sees of cache, router and engine |
| `QueryPipelineProofs` | its theorems |
| `BatchService` | what a caller of `submit` may rely on (abstract) |
| `BatchProcessor` | queue, loops, flush, start and stop; `INSTANCE BatchService` |
| `BatchProcessorProofs` | its theorems, the refinement among them |
| `CacheContract` | what a caller of the cache may rely on (abstract) |
| `ResponseCache` | Redis, dictionaries and the calls, one Redis command at a time; `INSTANCE CacheContract` |
| `ResponseCacheProofs` | its theorems, the refinement among them |
| `InferenceEngine` | `infer` with both backends, the OpenAI client and the provider |
| `InferenceEngineProofs` | its theorems |
| `Gateway` | `QueryPipeline` and `ResponseCache` in one: the handlers run the cache's commands |
| `GatewayProofs` | its theorems, on top of those of its two parts |
| `Authentication` | logins and tokens over time |
| `AuthenticationProofs` | its theorems |
| `QueryRouter` | the complexity score and the model, as functions of a text's signals |
| `TextFilters` | the filters as operators on texts in characters and runs of letters |
| `TextFiltersProofs` | theorems about these operators, for texts of any length |
| `FrontDoor` | one request through `Authentication`, `TextFilters` and `QueryRouter` |
| `FrontDoorProofs` | its theorems, and those of `QueryRouter` |
| `MC*` | values for the constants; with the `.cfg` files |

An operator `Action_Something`, defined just before `Action`, is the action with
a plausible bug. None is used by a specification: each is substituted for the
action to see that the property it belongs to (`mutants` in `PROJECT.json`) can fail.

### QueryPipeline

`phase[r]` is where handler `r` is suspended (`lookup`, `infer`, and `store` /
`stored` for the one await of `_cache.set`, before and after its entry is visible)
or how it ended. `prompt`, `answer` and `reply` are `clean_query`, `safe_output`
and the `QueryResponse`; `metrics[w]` the counters of process `w`; `stored` every
pair ever put into the cache.

A text is a *topic* and a set of *marks*. The topic is what the cache key and the
router depend on; the marks are what the filters look for. The mark `split` is an
injection phrase interrupted by tags, which `Sanitize` turns into one that can be
seen; it is what makes the order of the filters matter. A text made of nothing but
tags is `blank` and raises `ValueError`, which the endpoint reports as a 500.
`attached` is a word that runs into a telephone number: `Redact` replaces the number,
and what the bracket of the placeholder gives a boundary to is `uncovered`: part of an
injection, of something harmful, of an address. `Notice` keeps `self-harm`, because the
label in the notice matches the pattern it names. The constants `QueryMarks` and
`AnswerMarks` bound what a run lets texts contain.

The cache in this module may miss at any time and otherwise returns any pair
stored under an alike topic. That is weaker than what `CacheContract` promises (it
never forgets, and reaches the dictionaries of other processes), so what holds here
holds with the real cache; cache calls do not raise because every command in
`response_cache.py` is guarded by an `except Exception`. An exception in filtering
or storing an answer would take the path of `InferRaises`.

### BatchProcessor

`queue` is a set: the heap compares priorities only, so items of one priority come
in any order (`Poppable`, `Pops`). `unfinished` is the count behind `join`.
`loop[l]` says where a loop is; `batch[l]` what it has taken off. While `running`,
a time-out of `wait_for` leads back to the same `await` and is no step.
`FlushCrash` is `set_result` or `set_exception` on a future the caller's
cancellation has cancelled: `InvalidStateError` leaves the loop.
`Gather` is the list of results, each with the request whose prompt it answers;
`Resolve` is the `zip` of items and results by position, and `given[r]` keeps whose
outcomes the future of `r` was given. `join` is released
by the call of `task_done` that reaches zero and does not look again.
There is one call of `stop` at a time, any number in sequence. Cancellation of an
inference task itself (only a shutdown of the event loop does that) and
`total_cost_usd` are left out.

### ResponseCache

A call is suspended at one Redis command at a time (`at`): `get` at `exact`,
`keys`, `scan`, `fetch`; `set` at `write`, `embed`, `push`; `invalidate` at
`delete`. Each command is answered or fails. One that fails may have been carried
out; a failed or late `ping` in `_get_redis` is the case in which it was not.
`lpush` and the `expire` after it are one step, and since that `expire` may fail,
`IndexExpires` and `EmbeddingExpires` may happen at any time. A call of `set`
stands for the response it stores. `_embed` may return `None` in any call. The list
of keys is a set: its order matters only between equal scores, duplicates change
nothing. Scores are per cent; the constant `Score` is any table of integers.
`overdue` and `past` are history: which responses have outlived their ttl, and what
had happened when a call began. An abandoned call is not counted as over.

### InferenceEngine

`at[c]` says where call `c` of `infer` is suspended: `yielding` (the mock's
`sleep(0)`), `calling` (an attempt), `sleeping` (the back-off). `attempt[c]` is the
loop variable, `maxRetries` the constructor's argument; `backend` is what the
environment decides: the mock, OpenAI, or OpenAI without the package.
The provider and the client library are external. `AsyncOpenAI` is created
with a key and a time-out only, so its own retries stay on (`try[c]`,
`ClientRetries`); a request that is given up leaves the provider working on it
(`late`). `sent` and `billed` count. An attempt fails because the client raises or
because reading the completion does (`choices[0]` of an empty list): the same
`except`. Back-off lengths, tokens, prices and model aliases are left out.

### Gateway

`QueryPipeline` lets a lookup find anything ever stored. `Gateway` says what it
really finds: both modules are instances over one set of variables, `Get(r)` and
`Set(r)` are the two calls of the cache that request `r` makes, and an action of
the handler and the command it waits for are one step. `Alike`, a constant of
`QueryPipeline`, is now derived from the scores. `Admit` begins the get, `Search`
is a command after which the get goes on, `Hit` and `Miss` the one after which it
returns; `Store` makes the entry visible, `Index` is the rest of set, and `Respond`
comes after it. `Cancel` takes the suspended call with it (`Abandon`); `Crash`
takes all handlers, calls and the dictionary of the process. `Expire` may happen
at any time. `invalidate` and `clear` are called by no route. `earlier[r]` is
history: who had been answered when `r` arrived.

`ImplementsPipeline` needs no mapping, since the variables are shared: it says that
`Hit` is a `LookupHit`, that cache commands in between stutter, that a cache call
cut short by a cancellation or a crash leaves nothing `QueryPipeline` does not
know, and that the fairness of whole handlers gives the fairness of each await.

### Authentication, TextFilters, QueryRouter, FrontDoor

Time is in ticks, `Second` of them in a second; a token keeps the whole seconds of
its expiry and `jwt.decode` compares them with the whole seconds of the clock.
`Verifies` is the outcome of bcrypt. Nothing is kept about a token, so nothing is
revoked by a later login.

`TextFilters` says what patterns do to a text where it matters how they overlap. A
text is a sequence of characters and of the runs of letters that some pattern tells
from others. There are three digits: 1, the prefix of a telephone number, which with its
separator may reach across white space into what stands on its left; 9, with which no
SSN begins; and 5. All six patterns of `_PATTERNS` are there in their order, with their
optional parts and their boundaries (`Shapes`, `Email`, `BoundedLeft`, `BoundedRight`):
only PHONE begins without one. Of the patterns of the guard there are `jailbreak`,
without boundaries, and `\bDAN\b`; of the harmful ones self-harm and suicide; of the
router's keywords `debug`. `Longest` and `Found` are what `finditer` makes of a
pattern: from left to right, greedy. `Sanitize`, `GuardSafe`, `Redact`, `Detect`,
`Harmful` and `FilterOutput` were compared with the Python on several thousand random
texts of up to five parts (what the patterns match or nearly match, numbers of up to
thirty digits, placeholders, single characters), with no difference. `Without`, what remains of a text, lists the positions that remain by
their rank (`Nth`): without recursion, so that it can be reasoned about.

`QueryRouter` counts the score in tenths. `FrontDoor` runs a request through all of
it up to the first await (`Handled`), and the engine's text through both filters
(`Answer`); logins and ticks come in between. It is the detailed counterpart of
`Admit` and `Reject`, without concurrency: nothing here is shared by requests.

What the filters promise has an exception, in both models. A placeholder begins with a
bracket, and a bracket is a boundary. A word that ran into a telephone number had none,
so no pattern that ends with `\b` found it; after `redact` one does. `DAN5551234567`
passes the guard and becomes `DAN[PHONE]`, `self-harm5551234567` becomes
`self-harm[PHONE]`, `bob@example.com5551234567` shows an address, and of a number of
twenty digits ten are left that PHONE itself would take. `OnlyPhonesUncoverPrompts` and
`OnlyPhonesUncoverAnswers` say that this is the only exception: whatever is found
stands right before a `[PHONE]`, and a word ran into a telephone number
(`RunsIntoPhone`). They speak of what patterns *find*. What they do not find may still
be part of something that was there: the first digits of a card whose last ten PHONE
took (the sixth finding below), `123-45-678` where PHONE's optional 1 took the last
digit of an SSN across a blank, `555 123` where EMAIL took the rest of a telephone
number as the name in an address. `PromptsFiltered` and `AnswersFiltered` say of every
request, over all its awaits, what the front door says of one text, in marks.

### The abstract specifications

`BatchService`: a prompt is given to the engine at most once, in a batch of at most
`BatchSize`, and `submit` ends with the outcome of that inference unless the caller
withdraws. Refinement: `work[r]` is `infer[r]`, or `queued` once submitted; `told[r]` is
`given[r]` once the caller has resumed, so that a result of another prompt, though a
success too, is not what `Return` allows.

`CacheContract`: a response is stored once, by the call that brought it; a `get`
returns something that is held, at the moment its last command is answered, for a
query close enough to its own; what is forgotten does not come back. Refinement:
`pending` are the calls suspended at `write`, `servable` the pairs in Redis or in
some dictionary.

## 3. The runs

| Run | Question | Bounds |
|---|---|---|
| `pipeline_safety` | `TypeOK`, `PromptsFiltered`, `AnswersFiltered`, `Provenance`, `MetricsMatchOutcomes` | 3 calls, 2 processes, 3 topics of which 2 alike and routed differently, 1 process death, all marks in queries, `self-harm` and `pii` in answers |
| `pipeline_total` | `TotalRequestsCountsRequests` — violated | 2 calls, no death |
| `batch` | `TypeOK`, `HeldOnce`, `UnfinishedIsHeld`, `ProcessedIsFlushed`, `CrashesAreCancellations`, `StopMeansDrained`, `WorkRunsOut`, `ImplementsBatchService`, `AnsweredUnlessStranded`, `LoopsEnd` | 3 callers (1 HIGH, 2 of them cancellable), 2 loops, batches of 2 |
| `batch_stop` | `StopDrains` — violated | 3 callers, none cancelled, 1 loop, batches of 1 |
| `cache_safety` | `TypeOK`, `ReadsLatestWrite`, `InvalidateRemovesWhileUp`, `ExpiryHoldsWhileUp`, `ResponsesFit`, `ImplementsCacheContract` | 3 calls, 2 processes, 3 queries (equal, at the threshold, just below), 1 failing command, 1 event (expiry, restart, cancellation, clear) |
| `cache_invalidate` | `InvalidateRemoves` — violated | the same without events |
| `cache_ttl` | `ServedWithinTtl` — violated | the same with 2 calls |
| `engine` | `TypeOK`, `CostBounded`, `OutcomesAreEarned`, `NothingSentForTheGone`, `EveryCallEnds` | 1 call, `max_retries` 0, 1 or 3 (the default), 2 retries of the client in each attempt (its default) |
| `engine_no_retries` | `LastLineUnreachable` — violated | 2 calls, `max_retries` 0 |
| `gateway` | `RepeatsAreFree`, `GaugeSettles`, `ImplementsPipeline` | 2 calls (one topic in two processes, or a paraphrase in one), 1 process death, texts without `attached` and `self-harm`, 1 fault of the cache (failing command, cut-short call, expiry, lost dictionary) |
| `front_door` | `AcceptedTokensAreEarned`, `LoginsLast`, `OnlyPhonesUncoverPrompts`, `OnlyPhonesUncoverAnswers`, `RoutedAsDeserved` | 2 logins, 4 ticks, a lifetime of 2 ticks, which is 1 second; all pairs of 15 parts (digit, numbers of 10, 16 and 20, SSN, telephone number, IP address, date, e-mail address, end of one, `DAN`, a split `jailbreak`, two harmful phrases, nothing), joined or with a blank or a digit between them, and a number of 30, cut at 30, each as a query and as an answer; 6 texts for the router, lengths on both sides of both thresholds with up to 2 more keywords and 3 more sentence marks |
| `front_door_card` | `DetectedIsReplaced` — violated | 2 logins, 6 ticks, the router's texts, a card number among them |

Why this is enough. Provenance needs two calls (one stores, one is served) and a
third to replace or confuse the entry; alike topics with different models show
whether `model_used` travels with the answer. Batches of two with three callers
have a batch that is full, one that is not, and an item left behind; two loops
show sharing, and a crashed loop beside a live one. In the cache the properties
relate at most three calls (`set`, `invalidate`, `get`), two processes tell a
process from the others, and one failure makes a dictionary differ from Redis.
Calls of the engine share nothing but its backend, so one call shows all there is;
its retries are those of the code. In `gateway` one call stores and the other is
served, from the same process (where the dictionary counts) or the other one (where
only Redis does), by the same key or by similarity; a second fault or a third call
does not fit in minutes, and what three calls can do to the cache or to each other
is in `cache_safety` and `pipeline_safety`. In `pipeline_safety` a filtered answer is clean or a
notice that names self-harm; what a placeholder uncovers is there in queries only, and in
the theorems for both. In the texts of the front door every pattern stands
beside every other one, apart or joined, and next to a digit that can be a prefix of a
telephone number; truncation cuts the longer ones; the theorems about texts have no
bound. Two ticks to a second are what it takes for the roundings of a token's two times
to differ, and four to see a token of the first tick expire.
The pipeline, the batch and the cache bounds are those of the constants
`QueryMarks`, `AnswerMarks`, `MaxCrashes`, `Loops`, `MaxFailures`, `MaxEvents` and `Workload`; symmetry is used
where no definition tells two calls or two processes apart, and never in a
liveness run. `CHECK_DEADLOCK FALSE` everywhere: when all calls are over the
system rests.

### What the violated properties show

1. `total_requests` of `/api/v1/stats` counts an answered request twice
   (`app.py:106-112` sums over all values of `status`; `metrics.py:8`).
2. `stop()` does not drain the queue, as its docstring says, and waits for ever if
   more than the batch in hand is left (`batch_processor.py:113,132`).
3. `invalidate` can leave the entry it removes: a copy that an earlier failed
   command left in the dictionary (`response_cache.py:108,170-178`).
4. The time-to-live does not apply to the dictionary (`response_cache.py:31,158`).
5. With `max_retries` 0 the line marked unreachable is all that `infer` does: an
   empty answer as a success (`engine.py:57,126-127`). `LLMEngine` uses 3.
6. Of a card number without separators `redact` replaces the last ten digits, as a
   PHONE, and leaves the first ones, though `detect` reports the CREDIT_CARD
   (`pii_filter.py:13,96`; `README.md:216`).

Two more are a matter of wording only: `get_current_user` is said to answer 401 also
if the user is disabled (`routes.py:78`), and no code reads that field; and the cache is
said to hit when the similarity "exceeds" the threshold (`response_cache.py:25`), where
line 32 ("Minimum") and the code (`>=`, line 232) take an equal score, as the model does.

The neighbouring properties that do hold mark the boundary: `OnlyPhonesUncoverPrompts`
(what is left of that card is found by no pattern any more), `StopMeansDrained`
(if `stop()` returns, nobody is left waiting), `InvalidateRemovesWhileUp` and
`ExpiryHoldsWhileUp` (as long as Redis has never failed), `AnsweredUnlessStranded`
(the only ways to wait for ever are the two that `Stranded` names).

### Fairness

`QueryPipeline`: weak fairness of `Handler(r)`: each of the three awaits ends. For
inference the code bounds every attempt by a time-out and the number of attempts;
for the cache it relies on Redis to answer or to drop the connection, because no
time-out is set for a command (only for the ping): a Redis that hangs falsifies the
assumption, and `GaugeSettles` with it. `Gateway`: the same for its `Handler(r)`,
which runs the commands one by one. `BatchProcessor`: weak fairness of each
loop's steps, each inference, each resumed caller and the return of `stop`: the
event loop runs every task that is ready. Clients, callers, cancellations, crashes,
`start` and `stop` have none, nor have expiry and faults. `InferenceEngine`: weak
fairness of `Continue(c)`: an attempt ends because the client has a time-out
(`engine.py:83`), a sleep because it is finite. The provider has none: `EveryCallEnds`
holds although it may never answer. The client's time-out is one of silence, for each
read: a provider that lets an answer trickle in falsifies the assumption. The cache by itself and the front door have safety properties only.

## 4. The proofs

All theorems hold for any values of the constants that satisfy the named
assumptions: similarity is reflexive and routing total (`TopicsAssumption`); scores
are integers and the threshold is above zero, without which a search that has found
nothing would count as a match (`ScoreAssumption`, and in `Gateway`
`TopicsAssumption`); the sets of requests are finite where things are counted
(`RequestsAssumption`, `WorkloadAssumption`); a batch has room for one item
(`BatchSizeAssumption`); `start` is called finitely often (`LoopsAssumption`, used
for `WorkRunsOut` alone); texts are sequences of pieces (`TextsAssumption`); retries,
ticks and bounds are natural numbers
(`RetriesAssumption`, `TimeAssumption`); `Verifies` is a table
(`PasswordsAssumption`); `None` is nothing else (`NoneAssumption`).

* `QueryPipelineProofs`. `IInv` adds to `TypeOK` and `PromptsFiltered`: a suspended
  handler has its process and its prompt; between inference and store a handler
  holds the engine's filtered answer to its own prompt (`AnswersOwned`); every
  stored pair and every reply is traceable to a request that is *settled*, whose
  prompt and answer are never assigned again (`EntriesSourced`, `RepliesSourced`).
  `Provenance` alone is not inductive: it says nothing of pairs that are stored but
  not yet served. `TypeCorrect`, `PromptsStayFiltered`, `AnswersStayFiltered` and
  `RepliesHaveProvenance` follow from it. `MetricsAreExact` needs, beyond `IInv`,
  how the cardinality of `Served` changes when one handler changes its phase
  (`ServedMoves`).
* `BatchProcessorProofs`. `IInv` adds to `HeldOnce` and `UnfinishedIsHeld` what a
  loop may hold by where it is (`BatchesPlaced`) and how item, future and caller of
  a request go together (`ItemsTracked`): a future that has been resolved was given the outcome of
  its own prompt and no other. The main lemma is `Delivered`: what a
  flush, whole or cut short, does to the items held and to the count. `TypeCorrect`
  includes that `unfinished` never becomes negative, which in the code is a
  `ValueError` from `task_done`. `Resolved` is about the `zip`: each of the
  first `k` futures gets what its own prompt came to, because an item is in its batch
  once and `Gather` keeps the order. `StopReturnsDrained` is an action property.
  `Refinement` shows that `Collect` is `Begin`, `InferEnd` is `Finish`, `Resume` is
  `Return` with the caller's own outcome, and everything else about loops, crashes and
  shutdown stutters: what a flush gives goes to callers that still wait
  (`DeliveryIsNews`). The two counting
  theorems, `ProcessedIsExact` and `CrashesStayCancellations`, rest on `Counts`: an
  inference that has still to end belongs to an item somebody holds, so no success
  is missed by a later flush, and every crash is paid for by a cancelled future
  that leaves the items held in the same step. `NothingInVain` is the part of the
  liveness properties that needs no fairness: `WorkLeft` is a natural number that
  every step but those of `stop` brings down. Each of its eight counts only shrinks,
  but for two steps: `Submit` pays for the queue by one idle caller less, and
  `GetFirst` for the batch it begins by the item it takes off.
* `ResponseCacheProofs`. `IInv` says what a call can have to show by where it is;
  the conjunct that matters is that a search about to fetch has a best match that is
  close enough. `Refinement`: `SetWrite` is `Put`, or `Forget` of nothing when a
  failing command leaves no trace; expiry, deletion, clear and restart are `Forget`;
  `GetExact` and `Fetch` are `Answer` when they return a response.
  `LatestWriteIsRead`, `InvalidationHolds` and `ExpiryHolds` speak of what had
  happened when a call began, and need `History`: what `past` tells is still so
  (`PastOfCalls`); Redis holds a response under its own key and not past its ttl
  (`Stored`); no dictionary is used before a command has failed (`MemoryUnused`);
  what an invalidate was to remove is not in Redis (`RemovedFromRedis`); the latest
  set is in Redis (`LatestIsHeld`), and a get that began after it never gets beyond
  the exact match (`LatestIsRead`). `ResponsesDoFit` is proved of `CacheContract`
  (whatever is pending, held or returned was brought by a call for that very query)
  and holds of the cache through the refinement.
* `GatewayProofs`. The proof modules of the two parts are instances too, so that
  `IInv` is their two invariants and what links them: a handler's calls are where
  the handler is (`Linked`), and whatever Redis or a dictionary holds is an answer
  that is stored in the sense of `QueryPipeline` (`AnswersHeld`). Every step is a
  step of either instance or leaves it alone (`PipelineStep`, `CacheStep`), which
  keeps the two invariants and gives `Refinement`: the safety part of
  `ImplementsPipeline`, so every invariant of `QueryPipeline` holds on top of the
  real cache; `EndpointHoldsInGateway` states two of them, and
  `CacheHoldsInGateway` three of the cache's (through `CacheRefinement`).
  `RepeatsStayFree` needs `RepeatsInv`:
  whoever has written an answer leaves some answer under the key, and who arrived
  later than a reply has either been served or is still at the exact match.
* `InferenceEngineProofs`. `CostBounded` is not inductive: `IInv` adds the allowance
  used up so far by where a call is (`Attempting`, `Sleeping`: with `n` attempts over,
  at most `n * (1 + ClientRetries)` requests) and that a cancelled call stays
  cancelled. `AllowanceGrows` holds the only arithmetic of products.
  `CancelledCallsStaySilent` is an action property from the same invariant.
* `AuthenticationProofs`. `TokensAreEarned` and `LoginsDoLast` rest on two facts
  about rounding to whole seconds, `SecondsBounds` and `SecondsMonotone`, and on an
  invariant that finds the login behind every token and the token of every login.
* `TextFiltersProofs` is about the operators, for texts of any length. `WithoutKeeps`:
  what remains of a text, where it was. `Placed` relates a text and what `Sub` makes of it by the position each piece
  came from (`SubPlaces`); what follows rests on it: pieces of the result that lie
  together without a placeholder did so before, and a boundary is an old one or the
  bracket of a placeholder (`PlacedMatch`). Every pattern but PHONE begins with `\b`, so
  its bracket stands where a boundary was: `SubUncovers` says that such a pass makes no
  pattern find anything new, that one of PHONE may, right before its bracket, and that
  neither leaves what it replaces. `RedactUncovers` puts the six passes together: what
  stands right before a `[PHONE]` stays there through the passes that follow, since none
  of them can match a bracket. `Found` is a `CHOOSE`: that there is such a set of
  matches (`FoundExists`) has the least length up to which there is none (`Least`) in
  place of an induction. `OutputUncovers` adds that the notice has nothing to
  redact. `SanitizeTidies` and `TidyIsSanitized`: `sanitize` applied twice is `sanitize`.
* `FrontDoorProofs`. The invariant `VisitOK` says that a visit is the outcome of some
  input or of some text of the engine; `PromptsUncovered`, `AnswersUncovered` and
  `RoutingIsDeserved` then follow from the theorems about the operators.
  `DoorImplementsAuth` maps every step at the door to one of `Authentication` or a
  stutter, and `DoorTokens` carries its two theorems over. Of the router alone: the
  score is between 0 and 10 tenths, the large model is picked for exactly the
  combinations listed in `DeservesLarge`, and no text with at least the length,
  keywords and sentence marks of another is routed to a smaller model.

Every invariant and every action property of a passing run is proved, and so are the
safety parts of the three refinements. Only model-checked: liveness (`GaugeSettles`,
`AnsweredUnlessStranded`, `LoopsEnd`, `EveryCallEnds` and the fairness in
`ImplementsPipeline`), which is out of the prover's reach. `NothingInVain` and
`CostStaysBounded` prove one half of two of them: that nothing can go on for ever;
that something can go on as long as somebody waits is what the runs show.

## 5. Not modelled

* The rate limiter: constructed (`app.py:30,56-57`), applied to no route. The
  `disabled` field of a user is read by no code. Both have no behaviour to model.
* `TOKENS_USED` and `COST_TOTAL`: declared and shown by `/api/v1/stats`, incremented
  nowhere, hence always zero. `REQUEST_DURATION` is a histogram of times.
* `ModelLoader`: nothing calls it, and it is synchronous. One dictionary is assigned
  after every library call has returned, so nothing can be seen half-way.
* `is_valid`, `has_pii` and the modes `MASK` and `REMOVE` of `PIIFilter`, and
  `expires_delta` of `create_access_token`: no caller in the gateway.
* The other injection and harmful patterns and keywords, and the confidences: one
  injection suffices, whichever it is. Those left out need several words next to each
  other, which nothing in `redact` brings together, or have no boundaries that a
  placeholder could complete (`\bDAN\b` is the only one of the guard that has); the
  harmful ones with a `\b` at the end behave as self-harm does.
* Other digits, letters and white space, `_`, `%`, letters that are no ASCII, escaping by
  bleach, truncation inside a run of letters, and the first digits of the cards that 1, 5
  and 9 cannot write.
* Rounding in the router's sums of floats: the model counts in tenths, where 0.5 is 0.5.
* The length of the list of embedding keys, prices and token counts, cosine
  similarity itself (a table), bcrypt and the signature of tokens.
* Logging, the dashboard, the benchmark, the notebook, deployment files. No code
  reads the files under `config/`, so `max_queue_size`, `max_size` and the like
  bound nothing.

## 6. Plan

Done: the endpoint, the batch processor, the cache, the engine, their composition in
`Gateway`, tokens, filters and routing; their abstract specifications, runs and
theorems.

Left: a run of `Gateway` with a third call or a second fault (hours rather than
minutes); a measure like `WorkLeft` for the cache's searches and for the handlers of
`Gateway`; a model of a search that misses a close entry because its best match has
expired, once it is decided whether that is a defect.
