------------------------------- MODULE Gateway -------------------------------
(***************************************************************************)
(* The endpoint on top of the real cache: QueryPipeline composed with      *)
(* ResponseCache.  Where QueryPipeline lets a lookup find anything ever    *)
(* stored, here a handler runs the commands of _cache.get and _cache.set   *)
(* one by one, each of which may fail, between those of other handlers,    *)
(* while entries expire and processes die with their dictionaries.         *)
(*                                                                         *)
(* A handler awaits one call of the cache at a time, so each request has   *)
(* one get and one set.  invalidate and clear are not called by the        *)
(* endpoint.                                                               *)
(***************************************************************************)
EXTENDS Integers, FiniteSets

CONSTANTS
    Requests,     \* calls of the endpoint, each made once
    Workers,      \* uvicorn worker processes
    Topics,       \* the queries that _make_key tells apart
    Models,       \* model identifiers of the router
    Score,        \* Score[k][j]: cosine similarity of topics, in percent
    Threshold,    \* similarity_threshold, in percent
    RouteOf,      \* RouteOf[k]: the model QueryRouter.route picks for topic k
    Workload,     \* bound: who may ask about what in which process
    QueryMarks,   \* bound: what the input filters may find in queries
    AnswerMarks,  \* bound: what the output filters may find in raw answers
    MaxCrashes,   \* bound: how many times worker processes die
    MaxFaults,    \* bound: how many Redis commands fail, calls of the cache are
                  \* cut short, entries expire and dictionaries are lost
    None          \* nothing

ASSUME TopicsAssumption ==
    /\ Score \in [Topics -> [Topics -> Int]]
    /\ Threshold \in Nat \ {0}
    /\ RouteOf \in [Topics -> Models]

ASSUME WorkloadAssumption ==
    /\ IsFiniteSet(Requests)
    /\ Workload \subseteq Requests \X Topics \X Workers
    /\ MaxCrashes \in Nat /\ MaxFaults \in Nat

VARIABLES
    \* QueryPipeline
    phase, worker, prompt, answer, reply, stored, metrics, crashes,
    \* ResponseCache
    op, at, scan, result, value, embedding, index, memory, memoryEmb,
    failures, events, overdue, past,
    earlier       \* history: which requests had been answered when each arrived

\* What the handlers see of the cache.
Alike == [k \in Topics |-> {k} \cup {j \in Topics : Score[k][j] >= Threshold}]

CacheCalls == {"get", "set"} \X Requests

Get(r) == <<"get", r>>
Set(r) == <<"set", r>>

Pipeline == INSTANCE QueryPipeline

Cache == INSTANCE ResponseCache WITH
    Calls <- CacheCalls, Processes <- Workers, Queries <- Topics,
    MaxFailures <- MaxFaults, MaxEvents <- MaxFaults,
    Workload <- [kind : {"get", "set"}, query : Topics, process : Workers]

ASSUME MarksAssumption ==
    QueryMarks \subseteq Pipeline!InputMarks /\ AnswerMarks \subseteq Pipeline!OutputMarks

ASSUME NoneAssumption ==
    None \notin Workers \cup Topics \cup CacheCalls \cup Cache!Ops

handlers == <<phase, worker, prompt, answer, reply, stored, metrics, crashes>>
cache    == <<op, at, scan, result, value, embedding, index, memory, memoryEmb,
              failures, events, overdue, past>>
vars     == <<handlers, cache, earlier>>

-----------------------------------------------------------------------------
Init ==
    /\ Pipeline!Init
    /\ Cache!Init
    /\ earlier = [r \in Requests |-> {}]

Answered == {q \in Requests : reply[q] # None}

\* The handler calls the cache, and is suspended at the first command.
AwaitsCall(c, topic, w) ==
    /\ Cache!Begin(c)
    /\ op'[c] = [kind |-> c[1], query |-> topic, process |-> w]

\* Turned away before the cache is reached.
Refuse(r, w) ==
    /\ \/ Pipeline!Unauthorized(r, w)
       \/ \E text \in Pipeline!Queries : Pipeline!Reject(r, w, text)
    /\ UNCHANGED <<cache, earlier>>

Admit(r, w, text) ==
    /\ <<r, text.topic, w>> \in Workload
    /\ Pipeline!Admit(r, w, text)
    /\ AwaitsCall(Get(r), text.topic, w)
    /\ earlier' = [earlier EXCEPT ![r] = Answered]

LookupStep(r) ==
    \/ Cache!GetExact(Get(r)) \/ Cache!GetKeys(Get(r))
    \/ Cache!ScanKey(Get(r)) \/ Cache!Fetch(Get(r))

\* One more command of _cache.get is answered, or fails, and it goes on.
Search(r) ==
    /\ LookupStep(r)
    /\ at'[Get(r)] # "done"
    /\ UNCHANGED <<handlers, earlier>>

Hit_OwnModel(r) ==
    /\ LookupStep(r)
    /\ result'[Get(r)] # None
    /\ reply' = [reply EXCEPT ![r] =
                   [body |-> [answer[result'[Get(r)][2]] EXCEPT !.model =
                                RouteOf[prompt[r].topic]],
                    cached |-> TRUE]]
    /\ phase' = [phase EXCEPT ![r] = "hit"]
    /\ Pipeline!Bump(worker[r], {"CACHE_HITS", "cache_hit"}, {"ACTIVE_REQUESTS"})
    /\ UNCHANGED <<worker, prompt, answer, stored, crashes, earlier>>

\* The answer that the found call of set has stored.
Hit(r) ==
    /\ LookupStep(r)
    /\ result'[Get(r)] # None
    /\ reply' = [reply EXCEPT ![r] =
                   [body |-> answer[result'[Get(r)][2]], cached |-> TRUE]]
    /\ phase' = [phase EXCEPT ![r] = "hit"]
    /\ Pipeline!Bump(worker[r], {"CACHE_HITS", "cache_hit"}, {"ACTIVE_REQUESTS"})
    /\ UNCHANGED <<worker, prompt, answer, stored, crashes, earlier>>

Miss(r) ==
    /\ LookupStep(r)
    /\ at'[Get(r)] = "done" /\ result'[Get(r)] = None
    /\ Pipeline!LookupMiss(r)
    /\ UNCHANGED earlier

InferReturns(r) ==
    /\ Pipeline!InferReturns(r)
    /\ AwaitsCall(Set(r), prompt[r].topic, worker[r])
    /\ UNCHANGED earlier

InferRaises(r) ==
    /\ Pipeline!InferRaises(r)
    /\ UNCHANGED <<cache, earlier>>

Store(r) ==
    /\ Pipeline!StoreEntry(r)
    /\ Cache!SetWrite(Set(r))
    /\ UNCHANGED earlier

Index(r) ==
    /\ Cache!SetEmbedding(Set(r)) \/ Cache!SetPush(Set(r))
    /\ UNCHANGED <<handlers, earlier>>

Respond_WithoutAwaitingSet(r) ==
    /\ phase[r] \in {"store", "stored"}
    /\ reply' = [reply EXCEPT ![r] = [body |-> answer[r], cached |-> FALSE]]
    /\ phase' = [phase EXCEPT ![r] = "fresh"]
    /\ Pipeline!Bump(worker[r], {"success"}, {"ACTIVE_REQUESTS"})
    /\ UNCHANGED <<worker, prompt, answer, stored, crashes, cache, earlier>>

\* The handler answers only when _cache.set has returned.
Respond(r) ==
    /\ at[Set(r)] = "done"
    /\ Pipeline!Respond(r)
    /\ UNCHANGED <<cache, earlier>>

Handler(r) ==
    \/ Search(r) \/ Hit(r) \/ Miss(r)
    \/ InferReturns(r) \/ InferRaises(r)
    \/ Store(r) \/ Index(r) \/ Respond(r)

-----------------------------------------------------------------------------
\* Is call c suspended at a command?
InFlight(c) == at[c] \in Cache!Commands

\* A cancelled handler takes the call of the cache it awaits with it.
Cancel(r) ==
    /\ Pipeline!Cancel(r)
    /\ \/ \E c \in {Get(r), Set(r)} : Cache!Abandon(c)
       \/ ~InFlight(Get(r)) /\ ~InFlight(Set(r)) /\ UNCHANGED cache
    /\ UNCHANGED earlier

\* Nothing that Cache!Restart(w) would change.
NothingToLose(w) ==
    /\ memory[w] = [k \in Topics |-> None] /\ memoryEmb[w] = {}
    /\ \A c \in CacheCalls : InFlight(c) => Cache!Process(c) # w

\* With the process go its handlers, their calls of the cache and its dictionary.
Crash(w) ==
    /\ Pipeline!Crash(w)
    /\ Cache!Restart(w) \/ (NothingToLose(w) /\ UNCHANGED cache)
    /\ UNCHANGED earlier

Expire ==
    /\ \/ \E r \in Requests : Cache!TtlPasses(Set(r))
       \/ \E k \in Topics : Cache!EmbeddingExpires(k)
       \/ Cache!IndexExpires
    /\ UNCHANGED <<handlers, earlier>>

Next ==
    /\ \/ \E r \in Requests, w \in Workers :
             \/ Refuse(r, w)
             \/ \E text \in Pipeline!Queries : Admit(r, w, text)
       \/ \E r \in Requests : Handler(r) \/ Cancel(r)
       \/ \E w \in Workers : Crash(w)
       \/ Expire
    /\ failures' + events' <= MaxFaults

Spec == Init /\ [][Next]_vars

\* Every Redis command is answered or fails, and every inference ends.
FairSpec == Spec /\ \A r \in Requests : WF_vars(Handler(r))

-----------------------------------------------------------------------------
(* Properties.                                                             *)

\* While no command fails and no response expires, asking again what has been
\* answered never costs an inference: in whatever process, whoever was cancelled,
\* restarted or forgot embeddings in between.
RepeatsAreFree ==
    \A q, r \in Requests :
        /\ failures = 0 /\ overdue = {}
        /\ q \in earlier[r] /\ ~reply[q].cached
        /\ prompt[q].topic = prompt[r].topic
        => phase[r] \in {"lookup", "hit", "cancelled", "dropped"}

\* As QueryPipeline: once the calls are over no process counts an active request.
GaugeSettles == Pipeline!GaugeSettles

\* With the real cache the endpoint is what QueryPipeline says: whatever fails or
\* expires, a hit is an answer stored for a similar prompt, every command and
\* crash has the effect it has there, and every handler ends.
ImplementsPipeline == Pipeline!FairSpec

=============================================================================
