---------------------------- MODULE QueryPipeline ----------------------------
(***************************************************************************)
(* POST /api/v1/query: the handler query_llm and the filters, the cache,   *)
(* the router and the engine it calls, run by several worker processes.    *)
(*                                                                         *)
(* A worker is one asyncio event loop.  The handler gives up control only  *)
(* at its three awaits (cache get, inference, cache set), so everything    *)
(* between two awaits is one action.  Each worker has the module-level     *)
(* singletons of its own process: its Prometheus counters start at zero    *)
(* when the process starts and are lost with it.  The cache is what        *)
(* ResponseCache promises of it: a lookup may miss at any time, and what   *)
(* it finds was stored earlier under a key similar to the one looked up.   *)
(*                                                                         *)
(* Texts are abstracted to what the filters tell apart: a topic (which     *)
(* texts share a cache key) and the set of marks their patterns look for.  *)
(***************************************************************************)
EXTENDS Integers, FiniteSets

CONSTANTS
    Requests,    \* calls of the endpoint, each made once
    Workers,     \* uvicorn worker processes
    Topics,      \* what remains of a query once its marks are removed
    Models,      \* model identifiers of the router
    Alike,       \* Alike[k]: the topics whose embedding is close enough to k's
    RouteOf,     \* RouteOf[k]: the model QueryRouter.route picks for topic k
    QueryMarks,  \* bound: what the input filters may find in queries
    AnswerMarks, \* bound: what the output filters may find in raw answers
    MaxCrashes,  \* bound: how many times worker processes die
    None         \* no text, no answer, no worker

ASSUME TopicsAssumption ==
    /\ Alike \in [Topics -> SUBSET Topics]
    /\ \A k \in Topics : k \in Alike[k]
    /\ RouteOf \in [Topics -> Models]

ASSUME NoneAssumption ==
    /\ None \notin Workers
    /\ MaxCrashes \in Nat

ASSUME RequestsAssumption == IsFiniteSet(Requests)

\* "split":    an injection phrase that tags or control characters interrupt;
\* "blank":    nothing but tags and white space;
\* "pii":      something that a pattern of redact matches once the tags are gone;
\* "attached": a word that runs into a telephone number ("DAN5551234567").
InputMarks  == {"markup", "split", "blank", "injection", "pii", "attached"}
OutputMarks == {"harmful", "self-harm", "pii", "attached"}

ASSUME MarksAssumption ==
    QueryMarks \subseteq InputMarks /\ AnswerMarks \subseteq OutputMarks

VARIABLES
    phase,     \* where each request's handler is suspended, or how it ended
    worker,    \* the process serving it, None before it arrives and after a crash
    prompt,    \* clean_query: the text after the input filters
    answer,    \* result["response"] after the output filters
    reply,     \* the QueryResponse sent, None if none was
    stored,    \* every <<topic, answer>> pair ever put into the cache
    metrics,   \* the Prometheus counters of each worker process
    crashes    \* how many processes have died

vars == <<phase, worker, prompt, answer, reply, stored, metrics, crashes>>

-----------------------------------------------------------------------------
(* Texts and the filters they pass through.                                *)

\* "uncovered": whatever a pattern matches right before the placeholder of a
\* telephone number, whose bracket gave it the word boundary it lacked. Nothing else
\* is left of what the filters look for (RedactUncovers of TextFiltersProofs); what
\* no pattern matches, such as part of a long number, has no mark.
Texts == [topic : Topics, marks : SUBSET (InputMarks \cup {"uncovered"})]

\* A query as it arrives.
Queries ==
    {text \in [topic : Topics, marks : SUBSET QueryMarks] :
        /\ "split" \in text.marks => "markup" \in text.marks
        /\ "attached" \in text.marks => "pii" \in text.marks
        /\ "blank" \in text.marks => text.marks \subseteq {"blank", "markup"}}

\* What the engine said about prompt, and whether the output filter replaced
\* it with its notice.
Answers == [prompt : Topics, model : Models,
            marks : SUBSET (OutputMarks \cup {"uncovered"}), notice : BOOLEAN]

\* What there may be in an answer as it comes from the engine.
RawMarks == {m \in SUBSET AnswerMarks : "attached" \in m => "pii" \in m}

Replies == [body : Answers, cached : BOOLEAN]

\* bleach strips the tags, and what they kept apart becomes adjacent.
Sanitize(text) ==
    [text EXCEPT !.marks = (@ \ {"markup", "split"})
                           \cup (IF "split" \in @ THEN {"injection"} ELSE {})]

\* ValueError: nothing is left of the text.
Empty(text) == "blank" \in text.marks

GuardSafe(text) == "injection" \notin text.marks

\* A placeholder takes the place of every match, and may uncover another one.
Redact(text) ==
    [text EXCEPT !.marks = (@ \ {"pii", "attached"})
                           \cup (IF "attached" \in @ THEN {"uncovered"} ELSE {})]

Harmful(resp) == resp.marks \cap {"harmful", "self-harm"} # {}

\* A harmful response is replaced as a whole by this. It names the kinds of harm,
\* and the name of one, "self-harm content", is a match of that kind's pattern.
Notice(resp) == [prompt |-> resp.prompt, model |-> resp.model,
                 marks |-> resp.marks \cap {"self-harm"}, notice |-> TRUE]

FilterOutput_FirstFindingOnly(resp) ==
    IF "pii" \in resp.marks THEN Redact(resp)
    ELSE IF Harmful(resp) THEN Notice(resp) ELSE resp

FilterOutput(resp) == Redact(IF Harmful(resp) THEN Notice(resp) ELSE resp)

-----------------------------------------------------------------------------
(* Metrics.                                                                *)

Counters == {"started", "success", "cache_hit", "error",   \* llm_requests by status
             "CACHE_HITS", "SECURITY_BLOCKS", "ACTIVE_REQUESTS"}

NoMetrics == [c \in Counters |-> 0]

Bump(w, up, down) ==
    metrics' = [metrics EXCEPT ![w] = [c \in Counters |->
                   @[c] + (IF c \in up THEN 1 ELSE 0)
                        - (IF c \in down THEN 1 ELSE 0)]]

\* _counter_value sums a counter over all its labels.
TotalRequests(w) == metrics[w]["started"] + metrics[w]["success"]
                    + metrics[w]["cache_hit"] + metrics[w]["error"]

-----------------------------------------------------------------------------
Suspended == {"lookup", "infer", "store", "stored"}
Ended == {"unauthorized", "invalid", "blocked", "hit", "fresh", "failed",
          "cancelled", "dropped"}

\* The handler body was entered.
Arrived == Suspended \cup (Ended \ {"unauthorized"})

Init ==
    /\ phase   = [r \in Requests |-> "idle"]
    /\ worker  = [r \in Requests |-> None]
    /\ prompt  = [r \in Requests |-> None]
    /\ answer  = [r \in Requests |-> None]
    /\ reply   = [r \in Requests |-> None]
    /\ stored  = {}
    /\ metrics = [w \in Workers |-> NoMetrics]
    /\ crashes = 0

\* get_current_user raises: the handler body never runs.
Unauthorized(r, w) ==
    /\ phase[r] = "idle"
    /\ phase'  = [phase EXCEPT ![r] = "unauthorized"]
    /\ worker' = [worker EXCEPT ![r] = w]
    /\ UNCHANGED <<prompt, answer, reply, stored, metrics, crashes>>

\* The handler up to an exception of the input filters: the gauge is raised and
\* lowered again by `finally` before anyone can see it.
Reject(r, w, text) ==
    LET clean == Sanitize(text) IN
    /\ phase[r] = "idle"
    /\ worker' = [worker EXCEPT ![r] = w]
    /\ \/ /\ Empty(clean)
          /\ phase' = [phase EXCEPT ![r] = "invalid"]
          /\ Bump(w, {"started", "error"}, {})
       \/ /\ ~Empty(clean) /\ ~GuardSafe(clean)
          /\ phase' = [phase EXCEPT ![r] = "blocked"]
          /\ Bump(w, {"started", "SECURITY_BLOCKS"}, {})
    /\ UNCHANGED <<prompt, answer, reply, stored, crashes>>

Admit_GuardBeforeSanitize(r, w, text) ==
    LET clean == Sanitize(text) IN
    /\ phase[r] = "idle"
    /\ ~Empty(clean) /\ GuardSafe(text)
    /\ phase'  = [phase EXCEPT ![r] = "lookup"]
    /\ worker' = [worker EXCEPT ![r] = w]
    /\ prompt' = [prompt EXCEPT ![r] = Redact(clean)]
    /\ Bump(w, {"started", "ACTIVE_REQUESTS"}, {})
    /\ UNCHANGED <<answer, reply, stored, crashes>>

\* The handler up to `await _cache.get`.
Admit(r, w, text) ==
    LET clean == Sanitize(text) IN
    /\ phase[r] = "idle"
    /\ ~Empty(clean) /\ GuardSafe(clean)
    /\ phase'  = [phase EXCEPT ![r] = "lookup"]
    /\ worker' = [worker EXCEPT ![r] = w]
    /\ prompt' = [prompt EXCEPT ![r] = Redact(clean)]
    /\ Bump(w, {"started", "ACTIVE_REQUESTS"}, {})
    /\ UNCHANGED <<answer, reply, stored, crashes>>

Findable_NoThreshold(k) == {e[2] : e \in stored}

\* What the cache may answer to a lookup of topic k.
Findable(k) == {e[2] : e \in {s \in stored : s[1] \in Alike[k]}}

LookupHit(r) ==
    /\ phase[r] = "lookup"
    /\ \E a \in Findable(prompt[r].topic) :
          reply' = [reply EXCEPT ![r] = [body |-> a, cached |-> TRUE]]
    /\ phase' = [phase EXCEPT ![r] = "hit"]
    /\ Bump(worker[r], {"CACHE_HITS", "cache_hit"}, {"ACTIVE_REQUESTS"})
    /\ UNCHANGED <<worker, prompt, answer, stored, crashes>>

\* Routing needs no await: the handler goes on to `await _engine.infer`.
LookupMiss(r) ==
    /\ phase[r] = "lookup"
    /\ phase' = [phase EXCEPT ![r] = "infer"]
    /\ UNCHANGED <<worker, prompt, answer, reply, stored, metrics, crashes>>

\* The engine's raw response is filtered and redacted (a second time) before
\* `await _cache.set`.
InferReturns(r) ==
    /\ phase[r] = "infer"
    /\ \E marks \in RawMarks :
         LET raw == [prompt |-> prompt[r].topic,
                     model  |-> RouteOf[prompt[r].topic],
                     marks  |-> marks, notice |-> FALSE]
         IN  answer' = [answer EXCEPT ![r] = Redact(FilterOutput(raw))]
    /\ phase' = [phase EXCEPT ![r] = "store"]
    /\ UNCHANGED <<worker, prompt, reply, stored, metrics, crashes>>

InferRaises_NoFinally(r) ==
    /\ phase[r] = "infer"
    /\ phase' = [phase EXCEPT ![r] = "failed"]
    /\ Bump(worker[r], {"error"}, {})
    /\ UNCHANGED <<worker, prompt, answer, reply, stored, crashes>>

InferRaises(r) ==
    /\ phase[r] = "infer"
    /\ phase' = [phase EXCEPT ![r] = "failed"]
    /\ Bump(worker[r], {"error"}, {"ACTIVE_REQUESTS"})
    /\ UNCHANGED <<worker, prompt, answer, reply, stored, crashes>>

\* Inside _cache.set the entry becomes visible to other lookups while this
\* handler is still suspended.
StoreEntry(r) ==
    /\ phase[r] = "store"
    /\ stored' = stored \cup {<<prompt[r].topic, answer[r]>>}
    /\ phase'  = [phase EXCEPT ![r] = "stored"]
    /\ UNCHANGED <<worker, prompt, answer, reply, metrics, crashes>>

Respond_BareAnswer(r) ==
    /\ phase[r] = "stored"
    /\ reply' = [reply EXCEPT ![r] = answer[r]]
    /\ phase' = [phase EXCEPT ![r] = "fresh"]
    /\ Bump(worker[r], {"success"}, {"ACTIVE_REQUESTS"})
    /\ UNCHANGED <<worker, prompt, answer, stored, crashes>>

\* _cache.set returns and the handler answers.
Respond(r) ==
    /\ phase[r] = "stored"
    /\ reply' = [reply EXCEPT ![r] = [body |-> answer[r], cached |-> FALSE]]
    /\ phase' = [phase EXCEPT ![r] = "fresh"]
    /\ Bump(worker[r], {"success"}, {"ACTIVE_REQUESTS"})
    /\ UNCHANGED <<worker, prompt, answer, stored, crashes>>

Cancel_CountedAsError(r) ==
    /\ phase[r] \in Suspended
    /\ phase' = [phase EXCEPT ![r] = "cancelled"]
    /\ Bump(worker[r], {"error"}, {"ACTIVE_REQUESTS"})
    /\ UNCHANGED <<worker, prompt, answer, reply, stored, crashes>>

\* The handler's task is cancelled at an await (client gone, shutdown).
\* CancelledError is no Exception: only `finally` runs.
Cancel(r) ==
    /\ phase[r] \in Suspended
    /\ phase' = [phase EXCEPT ![r] = "cancelled"]
    /\ Bump(worker[r], {}, {"ACTIVE_REQUESTS"})
    /\ UNCHANGED <<worker, prompt, answer, reply, stored, crashes>>

\* A worker process dies and is started again: its handlers and its counters
\* are gone, the cache in Redis is not.
Crash(w) ==
    /\ crashes < MaxCrashes
    /\ crashes' = crashes + 1
    /\ phase'   = [r \in Requests |->
                     IF worker[r] = w /\ phase[r] \in Suspended
                     THEN "dropped" ELSE phase[r]]
    /\ worker'  = [r \in Requests |-> IF worker[r] = w THEN None ELSE worker[r]]
    /\ metrics' = [metrics EXCEPT ![w] = NoMetrics]
    /\ UNCHANGED <<prompt, answer, reply, stored>>

Handler(r) ==
    \/ LookupHit(r) \/ LookupMiss(r)
    \/ InferReturns(r) \/ InferRaises(r)
    \/ StoreEntry(r) \/ Respond(r)

Next ==
    \/ \E r \in Requests, w \in Workers :
          \/ Unauthorized(r, w)
          \/ \E text \in Queries : Reject(r, w, text) \/ Admit(r, w, text)
    \/ \E r \in Requests : Handler(r) \/ Cancel(r)
    \/ \E w \in Workers : Crash(w)

Spec == Init /\ [][Next]_vars

\* Every await of a handler ends: the engine bounds each attempt by a timeout
\* and the number of attempts, and a cache operation ends with the Redis reply
\* or its error.  Nobody has to call, to cancel or to crash.
FairSpec == Spec /\ \A r \in Requests : WF_vars(Handler(r))

-----------------------------------------------------------------------------
(* Properties.                                                             *)

TypeOK ==
    /\ phase   \in [Requests -> {"idle"} \cup Suspended \cup Ended]
    /\ worker  \in [Requests -> Workers \cup {None}]
    /\ prompt  \in [Requests -> Texts \cup {None}]
    /\ answer  \in [Requests -> Answers \cup {None}]
    /\ reply   \in [Requests -> Replies \cup {None}]
    /\ stored  \subseteq Topics \X Answers
    /\ metrics \in [Workers -> [Counters -> Int]]
    /\ crashes \in 0..MaxCrashes

\* What is looked up, routed and sent to the engine carries neither markup nor an
\* injection phrase (not even one that only appears once the tags are gone) nor
\* PII, but for what a placeholder uncovered: the order sanitize, guard, redact of
\* query_llm.
PromptsFiltered ==
    \A r \in Requests : prompt[r] # None => prompt[r].marks \subseteq {"uncovered"}

\* Nothing of a harmful response but a notice that at most names self-harm; and of
\* any other response nothing that a pattern of redact matches, but for what a
\* placeholder uncovered.
Filtered(resp) ==
    resp.marks \subseteq IF resp.notice THEN {"self-harm"} ELSE {"uncovered"}

\* Only filtered answers reach a client or the shared cache, whether the answer is
\* fresh, another caller's, or left behind by a handler that was cancelled or killed.
AnswersFiltered ==
    /\ \A s \in stored : Filtered(s[2])
    /\ \A r \in Requests : reply[r] # None => Filtered(reply[r].body)

\* Whose answer body is: a request whose prompt the cache takes for r's.
AnsweredBy(q, r) ==
    /\ answer[q] = reply[r].body
    /\ prompt[q].topic \in Alike[prompt[r].topic]
    /\ reply[r].body.prompt = prompt[q].topic
    /\ reply[r].body.model  = RouteOf[prompt[q].topic]

\* Every reply is the engine's answer to its own prompt, or, served from the
\* cache, the answer some other request obtained for a prompt similar to this
\* one and then stored; model_used names the model that really answered.
Provenance ==
    \A r \in Requests : reply[r] # None =>
        IF reply[r].cached
        THEN \E q \in Requests \ {r} :
                /\ AnsweredBy(q, r)
                /\ <<prompt[q].topic, answer[q]>> \in stored
        ELSE AnsweredBy(r, r)

\* Since w was last started: how many of its requests are in one of these phases.
Served(w, phases) ==
    Cardinality({r \in Requests : worker[r] = w /\ phase[r] \in phases})

\* The phases of the requests that each metric counts; a request cancelled at an
\* await stays `started` and has no outcome.
CountedIn ==
    [ACTIVE_REQUESTS |-> Suspended, started |-> Arrived, success |-> {"fresh"},
     cache_hit |-> {"hit"}, CACHE_HITS |-> {"hit"},
     error |-> {"invalid", "failed"}, SECURITY_BLOCKS |-> {"blocked"}]

\* However the handlers of a process interleave, fail or are cancelled, the gauge
\* is the number of them suspended right now, and each counter the number of
\* requests since the process started that had its outcome.
MetricsMatchOutcomes ==
    \A w \in Workers, c \in Counters : metrics[w][c] = Served(w, CountedIn[c])

\* Whatever errors, cancellations and restarts happen, once the calls are over
\* every process reports no active request, and keeps reporting none.
GaugeSettles ==
    <>[](\A w \in Workers : metrics[w]["ACTIVE_REQUESTS"] = 0)

\* Of REQUEST_COUNTER, "Total number of LLM API requests" (monitoring/metrics.py),
\* which /api/v1/stats returns as total_requests: the number of requests whose
\* handler ran in this process.
TotalRequestsCountsRequests ==
    \A w \in Workers :
        TotalRequests(w) = Served(w, Arrived)

=============================================================================
