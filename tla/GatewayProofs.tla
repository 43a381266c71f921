----------------------------- MODULE GatewayProofs -----------------------------
(***************************************************************************)
(* That Gateway does what QueryPipeline says, for any number of requests,  *)
(* processes, topics and faults.                                           *)
(***************************************************************************)
EXTENDS Gateway, TLAPS

\* The two instances of Gateway once more, with what is proved of them.
CacheP == INSTANCE ResponseCacheProofs WITH
    Calls <- CacheCalls, Processes <- Workers, Queries <- Topics,
    MaxFailures <- MaxFaults, MaxEvents <- MaxFaults,
    Workload <- [kind : {"get", "set"}, query : Topics, process : Workers]

PipelineP == INSTANCE QueryPipelineProofs

-----------------------------------------------------------------------------
(* The assumptions of the instances, and that they are the same.           *)

LEMMA CacheAssumptions ==
    /\ Score \in [Topics -> [Topics -> Int]] /\ Threshold \in Nat \ {0}
    /\ [kind : {"get", "set"}, query : Topics, process : Workers] \subseteq CacheP!Ops
    /\ None \notin CacheCalls \cup Topics \cup CacheP!Ops
    /\ MaxFaults \in Nat
BY TopicsAssumption, WorkloadAssumption, NoneAssumption
   DEF CacheP!Ops, CacheP!Kinds, Cache!Ops, Cache!Kinds

LEMMA PipelineAssumptions ==
    /\ Alike \in [Topics -> SUBSET Topics]
    /\ \A k \in Topics : k \in Alike[k]
    /\ RouteOf \in [Topics -> Models]
    /\ None \notin Workers
    /\ MaxCrashes \in Nat
    /\ PipelineP!IsFiniteSet(Requests)
    /\ QueryMarks \subseteq PipelineP!InputMarks
    /\ AnswerMarks \subseteq PipelineP!OutputMarks
<1>1. PipelineP!IsFiniteSet(Requests)
  BY WorkloadAssumption DEF IsFiniteSet, PipelineP!IsFiniteSet
<1> QED
  BY <1>1, TopicsAssumption, WorkloadAssumption, NoneAssumption, MarksAssumption
     DEF Alike, Pipeline!InputMarks, PipelineP!InputMarks,
         Pipeline!OutputMarks, PipelineP!OutputMarks

LEMMA SameCache ==
    /\ Cache!Init => CacheP!Init
    /\ [Cache!Next]_(Cache!vars) => [CacheP!Next]_(CacheP!vars)
<1>1. Cache!Init => CacheP!Init
  BY DEF Cache!Init, CacheP!Init, Cache!NoScan, CacheP!NoScan
<1>2. [Cache!Next]_(Cache!vars) => [CacheP!Next]_(CacheP!vars)
  BY DEF Cache!Next, CacheP!Next, Cache!vars, CacheP!vars,
     Cache!remote, CacheP!remote, Cache!local, CacheP!local,
     Cache!Begin, CacheP!Begin, Cache!FirstCommand, CacheP!FirstCommand,
     Cache!Over, CacheP!Over, Cache!Query, CacheP!Query,
     Cache!Process, CacheP!Process, Cache!Commands, CacheP!Commands,
     Cache!GetExact, CacheP!GetExact, Cache!GetKeys, CacheP!GetKeys,
     Cache!ScanKey, CacheP!ScanKey, Cache!Fetch, CacheP!Fetch,
     Cache!Found, CacheP!Found, Cache!EmbeddingFound, CacheP!EmbeddingFound,
     Cache!Answered, CacheP!Answered, Cache!Fails, CacheP!Fails,
     Cache!Continue, CacheP!Continue, Cache!Return, CacheP!Return,
     Cache!Close, CacheP!Close, Cache!Better, CacheP!Better,
     Cache!NoScan, CacheP!NoScan, Cache!SetWrite, CacheP!SetWrite,
     Cache!SetEmbedding, CacheP!SetEmbedding, Cache!SetPush, CacheP!SetPush,
     Cache!Invalidate, CacheP!Invalidate, Cache!Happens, CacheP!Happens,
     Cache!Abandon, CacheP!Abandon, Cache!TtlPasses, CacheP!TtlPasses,
     Cache!Clear, CacheP!Clear, Cache!Restart, CacheP!Restart,
     Cache!EmbeddingExpires, CacheP!EmbeddingExpires,
     Cache!IndexExpires, CacheP!IndexExpires
<1> QED
  BY <1>1, <1>2

LEMMA SamePipeline ==
    /\ Pipeline!Init => PipelineP!Init
    /\ [Pipeline!Next]_(Pipeline!vars) => [PipelineP!Next]_(PipelineP!vars)
<1>1. Pipeline!Init => PipelineP!Init
  BY DEF Pipeline!Init, PipelineP!Init, Pipeline!NoMetrics, PipelineP!NoMetrics,
     Pipeline!Counters, PipelineP!Counters
<1>2. [Pipeline!Next]_(Pipeline!vars) => [PipelineP!Next]_(PipelineP!vars)
  BY DEF Pipeline!Next, PipelineP!Next, Pipeline!vars, PipelineP!vars,
     Pipeline!Unauthorized, PipelineP!Unauthorized,
     Pipeline!Reject, PipelineP!Reject, Pipeline!Admit, PipelineP!Admit,
     Pipeline!Handler, PipelineP!Handler,
     Pipeline!LookupHit, PipelineP!LookupHit, Pipeline!LookupMiss, PipelineP!LookupMiss,
     Pipeline!InferReturns, PipelineP!InferReturns,
     Pipeline!InferRaises, PipelineP!InferRaises,
     Pipeline!StoreEntry, PipelineP!StoreEntry, Pipeline!Respond, PipelineP!Respond,
     Pipeline!Cancel, PipelineP!Cancel, Pipeline!Crash, PipelineP!Crash,
     Pipeline!Findable, PipelineP!Findable, Pipeline!Queries, PipelineP!Queries,
     Pipeline!Bump, PipelineP!Bump, Pipeline!Counters, PipelineP!Counters,
     Pipeline!NoMetrics, PipelineP!NoMetrics, Pipeline!Suspended, PipelineP!Suspended,
     Pipeline!RawMarks, PipelineP!RawMarks, Pipeline!Harmful, PipelineP!Harmful,
     Pipeline!Sanitize, PipelineP!Sanitize, Pipeline!Empty, PipelineP!Empty,
     Pipeline!GuardSafe, PipelineP!GuardSafe, Pipeline!Redact, PipelineP!Redact,
     Pipeline!FilterOutput, PipelineP!FilterOutput, Pipeline!Notice, PipelineP!Notice
<1> QED
  BY <1>1, <1>2

-----------------------------------------------------------------------------
(* The calls of the cache.                                                 *)

LEMMA CallsDiffer ==
    /\ \A r \in Requests : Get(r) \in CacheCalls /\ Set(r) \in CacheCalls
    /\ \A q, r \in Requests : /\ Get(q) # Set(r)
                              /\ Get(q) = Get(r) => q = r
                              /\ Set(q) = Set(r) => q = r
    /\ \A c \in CacheCalls : \E r \in Requests : c = Get(r) \/ c = Set(r)
    /\ \A r \in Requests : Get(r)[1] = "get" /\ Set(r)[1] = "set"
    /\ \A r \in Requests : Get(r)[2] = r /\ Set(r)[2] = r
BY DEF CacheCalls, Get, Set

GetCommands == {"exact", "keys", "scan", "fetch"}
SetCommands == {"write", "embed", "push"}

\* The calls of request r are where its handler is, for its prompt and in its process.
Linked(r) ==
    /\ at[Get(r)] \in GetCommands \cup {"idle", "done", "abandoned"}
    /\ at[Set(r)] \in SetCommands \cup {"idle", "done", "abandoned"}
    /\ at[Get(r)] \in GetCommands <=> phase[r] = "lookup"
    /\ at[Set(r)] = "write" <=> phase[r] = "store"
    /\ at[Set(r)] \in {"embed", "push"} => phase[r] = "stored"
    /\ at[Get(r)] \in GetCommands =>
          op[Get(r)] = [kind |-> "get", query |-> prompt[r].topic, process |-> worker[r]]
    /\ at[Set(r)] \in SetCommands =>
          op[Set(r)] = [kind |-> "set", query |-> prompt[r].topic, process |-> worker[r]]

\* What Redis or a dictionary holds is an answer that has been stored.
HeldIsStored(k, c) ==
    \E q \in Requests : /\ c = Set(q) /\ at[c] # "idle"
                        /\ <<k, answer[q]>> \in stored

AnswersHeld ==
    \A k \in Topics, c \in CacheCalls : CacheP!Holds(k, c) => HeldIsStored(k, c)

IInv ==
    /\ CacheP!IInv
    /\ PipelineP!IInv
    /\ \A r \in Requests : Linked(r)
    /\ AnswersHeld

\* The functions among the variables.
LEMMA Functions ==
    ASSUME IInv
    PROVE  /\ at \in [CacheCalls -> CacheP!Commands \cup {"idle", "done", "abandoned"}]
           /\ op \in [CacheCalls -> CacheP!Ops \cup {None}]
           /\ result \in [CacheCalls -> CacheCalls \cup {None}]
           /\ value \in [Topics -> CacheCalls \cup {None}]
           /\ memory \in [Workers -> [Topics -> CacheCalls \cup {None}]]
           /\ DOMAIN phase = Requests /\ DOMAIN worker = Requests
           /\ DOMAIN prompt = Requests /\ DOMAIN answer = Requests
           /\ phase \in [Requests -> {"idle"} \cup PipelineP!Suspended \cup PipelineP!Ended]
BY DEF IInv, CacheP!IInv, CacheP!TypeOK, PipelineP!IInv, PipelineP!TypeOK

-----------------------------------------------------------------------------
(* A command of a get.                                                     *)

\* It moves the get, and the get returns what is held for a query close to its own.
LEMMA LookupStepMoves ==
    ASSUME IInv, NEW r \in Requests, LookupStep(r)
    PROVE  /\ at[Get(r)] \in GetCommands
           /\ \E next \in {"keys", "scan", "fetch", "done"} :
                 at' = [at EXCEPT ![Get(r)] = next]
           /\ UNCHANGED <<op, value, memory>>
           /\ result'[Get(r)] # None =>
                 /\ at'[Get(r)] = "done"
                 /\ \E k \in Alike[op[Get(r)].query] :
                       k \in Topics /\ CacheP!Holds(k, result'[Get(r)])
<1> DEFINE c == Get(r)
<1>1. c \in CacheCalls
  BY CallsDiffer
<1> HIDE DEF c
<1>2. \/ Cache!GetExact(c) \/ Cache!GetKeys(c) \/ Cache!ScanKey(c) \/ Cache!Fetch(c)
  BY DEF LookupStep, c
<1>3. at[c] \in GetCommands /\ UNCHANGED <<op, value, memory>>
  BY <1>2 DEF Cache!GetExact, Cache!GetKeys, Cache!ScanKey, Cache!Fetch, GetCommands,
     Cache!remote, Cache!local
<1>4. \E next \in {"keys", "scan", "fetch", "done"} : at' = [at EXCEPT ![c] = next]
  BY <1>2 DEF Cache!GetExact, Cache!GetKeys, Cache!ScanKey, Cache!Fetch,
     Cache!Return, Cache!Continue
<1>5. result[c] = None
  BY <1>1, <1>3 DEF IInv, CacheP!IInv, CacheP!CallsInPlace, GetCommands
<1>6. /\ op[c] \in CacheP!Ops /\ op[c].query \in Topics /\ op[c].process \in Workers
  <2>1. op[c] \in CacheP!Ops \cup {None} /\ op[c] # None
    BY <1>1, <1>3, Functions DEF IInv, CacheP!IInv, CacheP!CallsInPlace, GetCommands
  <2> QED
    BY <2>1 DEF CacheP!Ops
<1>7. ASSUME NEW v, Cache!Return(c, v), v # None
      PROVE  at'[c] = "done" /\ result'[c] = v
  BY <1>1, <1>7, Functions DEF Cache!Return
<1>8. ASSUME NEW k \in Topics, NEW v \in CacheCalls,
             Cache!Found(op[c].process, k, v)
      PROVE  CacheP!Holds(k, v)
  BY <1>6, <1>8 DEF Cache!Found, CacheP!Holds
<1>9. ASSUME result'[c] # None
      PROVE  /\ at'[c] = "done"
             /\ \E k \in Alike[op[c].query] :
                   k \in Topics /\ CacheP!Holds(k, result'[c])
  <2>1. ASSUME NEW left, NEW best, Cache!Continue(c, left, best) PROVE FALSE
    BY <1>1, <1>5, <1>9, <2>1, Functions DEF Cache!Continue, Cache!Return
  <2>2. CASE Cache!GetExact(c)
    <3>1. PICK v \in CacheCalls \cup {None} :
             /\ Cache!Found(op[c].process, op[c].query, v)
             /\ \/ Cache!Return(c, v)
                \/ UNCHANGED result
      BY <2>2 DEF Cache!GetExact, Cache!Process, Cache!Query
    <3>2. Cache!Return(c, v) /\ v # None
      BY <1>1, <1>5, <1>9, <3>1, Functions DEF Cache!Return
    <3> QED
      BY <1>6, <1>7, <1>8, <3>1, <3>2 DEF Alike
  <2>3. CASE Cache!Fetch(c)
    <3>1. PICK v \in CacheCalls \cup {None} :
             Cache!Found(op[c].process, scan[c].best, v) /\ Cache!Return(c, v)
      BY <2>3 DEF Cache!Fetch, Cache!Process
    <3>2. v # None
      BY <1>1, <1>9, <3>1, Functions DEF Cache!Return
    <3>3. /\ scan[c].best \in Topics
          /\ Score[op[c].query][scan[c].best] >= Threshold
      <4>1. CacheP!Close(op[c].query, scan[c].best)
        BY <1>1, <2>3 DEF IInv, CacheP!IInv, CacheP!CallsInPlace, CacheP!Query, Cache!Fetch
      <4> QED
        BY <1>1, <4>1 DEF IInv, CacheP!IInv, CacheP!TypeOK, CacheP!Close
    <3> QED
      BY <1>6, <1>7, <1>8, <3>1, <3>2, <3>3 DEF Alike
  <2> QED
    BY <1>2, <2>1, <2>2, <2>3 DEF Cache!GetKeys, Cache!ScanKey
<1> QED
  BY <1>3, <1>4, <1>9 DEF c

-----------------------------------------------------------------------------
(* Every step is a step of either instance, or leaves it alone.            *)

LEMMA HitIsLookupHit ==
    ASSUME IInv, NEW r \in Requests, Hit(r)
    PROVE  Pipeline!LookupHit(r)
<1> DEFINE v == result'[Get(r)]
<1>1. LookupStep(r) /\ v # None
  BY DEF Hit
<1>2. Get(r) \in CacheCalls /\ at[Get(r)] \in GetCommands
  BY <1>1, CallsDiffer, LookupStepMoves
<1>3. phase[r] = "lookup" /\ op[Get(r)].query = prompt[r].topic
  <2>1. Linked(r)
    BY DEF IInv
  <2>2. op[Get(r)] = [kind |-> "get", query |-> prompt[r].topic, process |-> worker[r]]
    BY <1>2, <2>1 DEF Linked
  <2> QED
    BY <1>2, <2>1, <2>2 DEF Linked
<1>4. PICK k \in Topics : k \in Alike[prompt[r].topic] /\ CacheP!Holds(k, v)
  BY <1>1, <1>3, LookupStepMoves
<1>5. PICK q \in Requests : v = Set(q) /\ <<k, answer[q]>> \in stored
  <2>1. v \in CacheCalls
    BY <1>1, <1>4, Functions, NoneAssumption DEF CacheP!Holds
  <2> QED
    BY <1>4, <2>1 DEF IInv, AnswersHeld, HeldIsStored
<1>6. answer[v[2]] \in Pipeline!Findable(prompt[r].topic)
  <2>1. v[2] = q
    BY <1>5, CallsDiffer
  <2> QED
    BY <1>4, <1>5, <2>1 DEF Pipeline!Findable
<1> QED
  BY <1>3, <1>6 DEF Hit, Pipeline!LookupHit

LEMMA PipelineStep ==
    ASSUME IInv, [Next]_vars
    PROVE  [Pipeline!Next]_(Pipeline!vars)
<1>1. ASSUME NEW r \in Requests, NEW w \in Workers,
             Refuse(r, w) \/ \E text \in Pipeline!Queries : Admit(r, w, text)
      PROVE  Pipeline!Next
  BY <1>1 DEF Refuse, Admit, Pipeline!Next
<1>2. ASSUME NEW r \in Requests, Search(r) \/ Index(r)
      PROVE  UNCHANGED Pipeline!vars
  BY <1>2 DEF Search, Index, handlers, Pipeline!vars
<1>3. ASSUME NEW r \in Requests, Hit(r)
      PROVE  Pipeline!Next
  BY <1>3, HitIsLookupHit DEF Pipeline!Next, Pipeline!Handler
<1>4. ASSUME NEW r \in Requests,
             \/ Miss(r) \/ InferReturns(r) \/ InferRaises(r)
             \/ Store(r) \/ Respond(r) \/ Cancel(r)
      PROVE  Pipeline!Next
  BY <1>4 DEF Miss, InferReturns, InferRaises, Store, Respond, Cancel,
     Pipeline!Next, Pipeline!Handler
<1>5. ASSUME NEW w \in Workers, Crash(w)
      PROVE  Pipeline!Next
  BY <1>5 DEF Crash, Pipeline!Next
<1>6. CASE Expire \/ UNCHANGED vars
  BY <1>6 DEF Expire, vars, handlers, Pipeline!vars
<1> QED
  BY <1>1, <1>2, <1>3, <1>4, <1>5, <1>6 DEF Next, Handler

LEMMA CacheStep ==
    ASSUME [Next]_vars
    PROVE  [Cache!Next]_(Cache!vars)
<1>1. ASSUME NEW r \in Requests, NEW topic, NEW w,
             AwaitsCall(Get(r), topic, w) \/ AwaitsCall(Set(r), topic, w)
      PROVE  Cache!Next
  BY <1>1, CallsDiffer DEF AwaitsCall, Cache!Next
<1>2. ASSUME NEW r \in Requests, LookupStep(r)
      PROVE  Cache!Next
  BY <1>2, CallsDiffer DEF LookupStep, Cache!Next
<1>3. ASSUME NEW r \in Requests, Store(r) \/ Index(r)
      PROVE  Cache!Next
  BY <1>3, CallsDiffer DEF Store, Index, Cache!Next
<1>4. ASSUME UNCHANGED cache
      PROVE  UNCHANGED Cache!vars
  BY <1>4 DEF cache, Cache!vars, Cache!remote, Cache!local
<1>5. ASSUME NEW r \in Requests, Cancel(r)
      PROVE  [Cache!Next]_(Cache!vars)
  BY <1>4, <1>5, CallsDiffer DEF Cancel, Cache!Next
<1>6. ASSUME NEW w \in Workers, Crash(w)
      PROVE  [Cache!Next]_(Cache!vars)
  BY <1>4, <1>6 DEF Crash, Cache!Next
<1>7. CASE Expire
  BY <1>7, CallsDiffer DEF Expire, Cache!Next
<1>8. ASSUME NEW r \in Requests, Handler(r)
      PROVE  [Cache!Next]_(Cache!vars)
  BY <1>1, <1>2, <1>3, <1>4, <1>8 DEF Handler, Search, Hit, Miss,
     InferReturns, InferRaises, Respond
<1>9. ASSUME NEW r \in Requests, NEW w \in Workers,
             Refuse(r, w) \/ \E text \in Pipeline!Queries : Admit(r, w, text)
      PROVE  [Cache!Next]_(Cache!vars)
  BY <1>1, <1>4, <1>9 DEF Refuse, Admit
<1>10. CASE UNCHANGED vars
  BY <1>4, <1>10 DEF vars
<1> QED
  BY <1>5, <1>6, <1>7, <1>8, <1>9, <1>10 DEF Next

LEMMA InstancesKept ==
    ASSUME IInv, [Next]_vars
    PROVE  CacheP!IInv' /\ PipelineP!IInv'
<1>1. CacheP!IInv'
  BY CacheStep, SameCache, CacheAssumptions, CacheP!NextIInv DEF IInv
<1>2. PipelineP!IInv'
  <2>1. PipelineP!IInv /\ [PipelineP!Next]_(PipelineP!vars)
    BY PipelineStep, SamePipeline DEF IInv
  <2> QED
    BY <2>1, PipelineAssumptions, PipelineP!NextIInv
<1> QED
  BY <1>1, <1>2

-----------------------------------------------------------------------------
(* What stays as it is.                                                    *)

LEMMA LinkedKept ==
    ASSUME NEW q \in Requests, Linked(q),
           phase'[q] = phase[q], prompt'[q] = prompt[q],
           phase[q] \in PipelineP!Suspended => worker'[q] = worker[q],
           at'[Get(q)] = at[Get(q)], op'[Get(q)] = op[Get(q)],
           at'[Set(q)] = at[Set(q)], op'[Set(q)] = op[Set(q)]
    PROVE  Linked(q)'
BY DEF Linked, GetCommands, SetCommands, PipelineP!Suspended, Get, Set

LEMMA HeldKept ==
    ASSUME AnswersHeld, stored \subseteq stored',
           \A q \in Requests : at[Set(q)] # "idle" =>
              at'[Set(q)] # "idle" /\ answer'[q] = answer[q],
           \A k \in Topics, c \in CacheCalls : CacheP!Holds(k, c)' => CacheP!Holds(k, c)
    PROVE  AnswersHeld'
<1> SUFFICES ASSUME NEW k \in Topics, NEW c \in CacheCalls, CacheP!Holds(k, c)'
             PROVE  HeldIsStored(k, c)'
  BY DEF AnswersHeld
<1>1. PICK q \in Requests : c = Set(q) /\ at[c] # "idle" /\ <<k, answer[q]>> \in stored
  BY DEF AnswersHeld, HeldIsStored
<1> QED
  BY <1>1 DEF HeldIsStored, Set

\* Only request r and its calls move.
Alone(r) ==
    \A q \in Requests \ {r} :
        /\ phase'[q] = phase[q] /\ prompt'[q] = prompt[q] /\ worker'[q] = worker[q]
        /\ at'[Get(q)] = at[Get(q)] /\ op'[Get(q)] = op[Get(q)]
        /\ at'[Set(q)] = at[Set(q)] /\ op'[Set(q)] = op[Set(q)]

LEMMA AloneLinked ==
    ASSUME IInv, NEW r \in Requests, Alone(r), Linked(r)'
    PROVE  \A q \in Requests : Linked(q)'
<1> SUFFICES ASSUME NEW q \in Requests, q # r PROVE Linked(q)'
  OBVIOUS
<1> QED
  BY LinkedKept DEF IInv, Alone

\* A step of the handler of r that moves at most one of its calls, or none.
LEMMA HandlerAlone ==
    ASSUME IInv, NEW r \in Requests, NEW c \in {Get(r), Set(r)},
           \/ UNCHANGED at
           \/ \E next : at' = [at EXCEPT ![c] = next],
           \/ UNCHANGED op
           \/ \E o : op' = [op EXCEPT ![c] = o],
           \/ UNCHANGED phase
           \/ \E p : phase' = [phase EXCEPT ![r] = p],
           \/ UNCHANGED prompt
           \/ \E text : prompt' = [prompt EXCEPT ![r] = text],
           \/ UNCHANGED worker
           \/ \E w : worker' = [worker EXCEPT ![r] = w]
    PROVE  Alone(r)
<1> SUFFICES ASSUME NEW q \in Requests \ {r}
             PROVE  /\ phase'[q] = phase[q] /\ prompt'[q] = prompt[q]
                    /\ worker'[q] = worker[q]
                    /\ at'[Get(q)] = at[Get(q)] /\ op'[Get(q)] = op[Get(q)]
                    /\ at'[Set(q)] = at[Set(q)] /\ op'[Set(q)] = op[Set(q)]
  BY DEF Alone
<1>1. Get(q) \in CacheCalls /\ Set(q) \in CacheCalls /\ Get(q) # c /\ Set(q) # c
  BY CallsDiffer
<1>2. at'[Get(q)] = at[Get(q)] /\ at'[Set(q)] = at[Set(q)]
  BY <1>1, Functions
<1>3. op'[Get(q)] = op[Get(q)] /\ op'[Set(q)] = op[Set(q)]
  BY <1>1, Functions
<1>4. phase'[q] = phase[q] /\ prompt'[q] = prompt[q] /\ worker'[q] = worker[q]
  BY Functions
<1> QED
  BY <1>2, <1>3, <1>4

LEMMA HoldsKept ==
    ASSUME UNCHANGED <<value, memory>>
    PROVE  \A k \in Topics, c \in CacheCalls : CacheP!Holds(k, c)' => CacheP!Holds(k, c)
BY DEF CacheP!Holds

-----------------------------------------------------------------------------
(* The steps.                                                              *)

\* A handler begins to wait for a call of the cache.
LEMMA CallsBegin ==
    ASSUME IInv, NEW c \in CacheCalls, NEW topic, NEW w, AwaitsCall(c, topic, w)
    PROVE  /\ at[c] = "idle"
           /\ at' = [at EXCEPT ![c] = IF c[1] = "get" THEN "exact" ELSE "write"]
           /\ op' = [op EXCEPT ![c] = [kind |-> c[1], query |-> topic, process |-> w]]
           /\ UNCHANGED <<value, memory>>
<1> DEFINE o == [kind |-> c[1], query |-> topic, process |-> w]
<1>1. /\ at[c] = "idle" /\ UNCHANGED <<value, memory>>
      /\ \E any : /\ op' = [op EXCEPT ![c] = any]
                  /\ at' = [at EXCEPT ![c] = Cache!FirstCommand[any.kind]]
  BY DEF AwaitsCall, Cache!Begin, Cache!remote, Cache!local
<1>2. op'[c] = o
  BY DEF AwaitsCall
<1>3. /\ op' = [op EXCEPT ![c] = o]
      /\ at' = [at EXCEPT ![c] = Cache!FirstCommand[o.kind]]
  BY <1>1, <1>2, Functions
<1>4. c[1] \in {"get", "set"}
  BY DEF CacheCalls
<1>5. Cache!FirstCommand[o.kind] = IF c[1] = "get" THEN "exact" ELSE "write"
  BY <1>4 DEF Cache!FirstCommand
<1> QED
  BY <1>1, <1>3, <1>5

LEMMA RefuseStep ==
    ASSUME IInv, NEW r \in Requests, NEW w \in Workers, Refuse(r, w)
    PROVE  (\A q \in Requests : Linked(q)') /\ AnswersHeld'
<1>1. /\ phase[r] = "idle"
      /\ \E p \in {"unauthorized", "invalid", "blocked"} :
            phase' = [phase EXCEPT ![r] = p]
      /\ worker' = [worker EXCEPT ![r] = w]
      /\ UNCHANGED <<prompt, answer, stored, at, op, value, memory>>
  BY DEF Refuse, Pipeline!Unauthorized, Pipeline!Reject, cache
<1>2. Alone(r)
  BY <1>1, HandlerAlone
<1>3. Linked(r)'
  <2>1. Linked(r) /\ phase'[r] \in {"unauthorized", "invalid", "blocked"}
    BY <1>1, Functions DEF IInv
  <2> QED
    BY <1>1, <2>1 DEF Linked, GetCommands, SetCommands, Get, Set
<1>4. AnswersHeld'
  BY <1>1, HoldsKept, HeldKept DEF IInv
<1> QED
  BY <1>2, <1>3, <1>4, AloneLinked

LEMMA AdmitStep ==
    ASSUME IInv, NEW r \in Requests, NEW w \in Workers, NEW text \in Pipeline!Queries,
           Admit(r, w, text)
    PROVE  (\A q \in Requests : Linked(q)') /\ AnswersHeld'
<1> DEFINE clean == Pipeline!Redact(Pipeline!Sanitize(text))
<1>1. /\ phase[r] = "idle"
      /\ phase' = [phase EXCEPT ![r] = "lookup"]
      /\ prompt' = [prompt EXCEPT ![r] = clean]
      /\ worker' = [worker EXCEPT ![r] = w]
      /\ UNCHANGED <<answer, stored>>
  BY DEF Admit, Pipeline!Admit
<1>2. clean.topic = text.topic
  BY DEF Pipeline!Queries, Pipeline!Redact, Pipeline!Sanitize
<1> HIDE DEF clean
<1>3. /\ at[Get(r)] = "idle"
      /\ at' = [at EXCEPT ![Get(r)] = "exact"]
      /\ op' = [op EXCEPT ![Get(r)] =
                  [kind |-> "get", query |-> text.topic, process |-> w]]
      /\ UNCHANGED <<value, memory>>
  BY CallsDiffer, CallsBegin DEF Admit
<1>4. Alone(r)
  BY <1>1, <1>3, HandlerAlone
<1>5. Linked(r)'
  <2>1. Linked(r) /\ Get(r) \in CacheCalls /\ Set(r) \in CacheCalls /\ Get(r) # Set(r)
    BY CallsDiffer DEF IInv
  <2>2. /\ phase'[r] = "lookup" /\ prompt'[r] = clean /\ worker'[r] = w
        /\ at'[Get(r)] = "exact" /\ at'[Set(r)] = at[Set(r)]
        /\ op'[Get(r)] = [kind |-> "get", query |-> text.topic, process |-> w]
    BY <1>1, <1>3, <2>1, Functions
  <2>3. at[Set(r)] \notin SetCommands
    BY <1>1, <2>1 DEF Linked, SetCommands
  <2> QED
    BY <1>2, <2>1, <2>2, <2>3 DEF Linked, GetCommands, SetCommands, Get, Set
<1>6. AnswersHeld'
  <2>1. \A q \in Requests : at'[Set(q)] = at[Set(q)]
    BY <1>3, CallsDiffer, Functions
  <2> QED
    BY <1>1, <1>3, <2>1, HoldsKept, HeldKept DEF IInv
<1> QED
  BY <1>4, <1>5, <1>6, AloneLinked

\* Search, Hit and Miss.
LEMMA LookupStepLinked ==
    ASSUME IInv, NEW r \in Requests, LookupStep(r),
           UNCHANGED <<prompt, worker, answer, stored>>,
           NEW p, phase' = [phase EXCEPT ![r] = p],
           IF at'[Get(r)] = "done" THEN p \in {"hit", "infer"} ELSE p = "lookup"
    PROVE  (\A q \in Requests : Linked(q)') /\ AnswersHeld'
<1>1. PICK next \in {"keys", "scan", "fetch", "done"} : at' = [at EXCEPT ![Get(r)] = next]
  BY LookupStepMoves
<1>2. at[Get(r)] \in GetCommands /\ UNCHANGED <<op, value, memory>>
  BY LookupStepMoves
<1>3. Alone(r)
  BY <1>1, <1>2, HandlerAlone
<1>4. Linked(r)'
  <2>1. Linked(r) /\ Get(r) \in CacheCalls /\ Set(r) \in CacheCalls /\ Get(r) # Set(r)
    BY CallsDiffer DEF IInv
  <2>2. phase[r] = "lookup" /\ phase'[r] = p
    BY <1>2, <2>1, Functions DEF Linked
  <2>3. at'[Get(r)] = next /\ at'[Set(r)] = at[Set(r)]
    BY <1>1, <2>1, Functions
  <2>4. at[Set(r)] \notin SetCommands
    BY <2>1, <2>2 DEF Linked, SetCommands
  <2> QED
    BY <1>2, <2>1, <2>2, <2>3, <2>4 DEF Linked, GetCommands, SetCommands, Get, Set
<1>5. AnswersHeld'
  <2>1. \A q \in Requests : at'[Set(q)] = at[Set(q)]
    BY <1>1, CallsDiffer, Functions
  <2> QED
    BY <1>2, <2>1, HoldsKept, HeldKept DEF IInv
<1> QED
  BY <1>3, <1>4, <1>5, AloneLinked

LEMMA LookupSteps ==
    ASSUME IInv, NEW r \in Requests, Search(r) \/ Hit(r) \/ Miss(r)
    PROVE  (\A q \in Requests : Linked(q)') /\ AnswersHeld'
<1>1. LookupStep(r) /\ UNCHANGED <<prompt, worker, answer, stored>>
  BY DEF Search, Hit, Miss, handlers, Pipeline!LookupMiss
<1>2. phase[r] = "lookup"
  BY <1>1, LookupStepMoves DEF IInv, Linked
<1>3. CASE Search(r)
  <2>1. phase' = [phase EXCEPT ![r] = "lookup"] /\ at'[Get(r)] # "done"
    BY <1>2, <1>3, Functions DEF Search, handlers
  <2> QED
    BY <1>1, <2>1, LookupStepLinked
<1>4. CASE Hit(r)
  <2>1. phase' = [phase EXCEPT ![r] = "hit"] /\ at'[Get(r)] = "done"
    BY <1>1, <1>4, LookupStepMoves DEF Hit
  <2> QED
    BY <1>1, <2>1, LookupStepLinked
<1>5. CASE Miss(r)
  <2>1. phase' = [phase EXCEPT ![r] = "infer"] /\ at'[Get(r)] = "done"
    BY <1>5 DEF Miss, Pipeline!LookupMiss
  <2> QED
    BY <1>1, <2>1, LookupStepLinked
<1> QED
  BY <1>3, <1>4, <1>5

LEMMA InferReturnsStep ==
    ASSUME IInv, NEW r \in Requests, InferReturns(r)
    PROVE  (\A q \in Requests : Linked(q)') /\ AnswersHeld'
<1>1. /\ phase[r] = "infer" /\ phase' = [phase EXCEPT ![r] = "store"]
      /\ \E a : answer' = [answer EXCEPT ![r] = a]
      /\ UNCHANGED <<prompt, worker, stored>>
  BY DEF InferReturns, Pipeline!InferReturns
<1>2. /\ at[Set(r)] = "idle"
      /\ at' = [at EXCEPT ![Set(r)] = "write"]
      /\ op' = [op EXCEPT ![Set(r)] =
                  [kind |-> "set", query |-> prompt[r].topic, process |-> worker[r]]]
      /\ UNCHANGED <<value, memory>>
  BY CallsDiffer, CallsBegin DEF InferReturns
<1>3. Alone(r)
  BY <1>1, <1>2, HandlerAlone
<1>4. Linked(r)'
  <2>1. Linked(r) /\ Get(r) \in CacheCalls /\ Set(r) \in CacheCalls /\ Get(r) # Set(r)
    BY CallsDiffer DEF IInv
  <2>2. /\ phase'[r] = "store" /\ at'[Set(r)] = "write" /\ at'[Get(r)] = at[Get(r)]
        /\ op'[Set(r)] = [kind |-> "set", query |-> prompt[r].topic, process |-> worker[r]]
    BY <1>1, <1>2, <2>1, Functions
  <2>3. at[Get(r)] \notin GetCommands
    BY <1>1, <2>1 DEF Linked
  <2> QED
    BY <1>1, <2>1, <2>2, <2>3 DEF Linked, GetCommands, SetCommands, Get, Set
<1>5. AnswersHeld'
  <2>1. \A q \in Requests : at[Set(q)] # "idle" =>
           at'[Set(q)] # "idle" /\ answer'[q] = answer[q]
    BY <1>1, <1>2, CallsDiffer, Functions
  <2> QED
    BY <1>1, <1>2, <2>1, HoldsKept, HeldKept DEF IInv
<1> QED
  BY <1>3, <1>4, <1>5, AloneLinked

\* A handler without a call in flight comes to its end.
LEMMA InferRaisesOrRespondStep ==
    ASSUME IInv, NEW r \in Requests, InferRaises(r) \/ Respond(r)
    PROVE  (\A q \in Requests : Linked(q)') /\ AnswersHeld'
<1>1. /\ \/ phase[r] = "infer"
         \/ phase[r] = "stored" /\ at[Set(r)] = "done"
      /\ \E p \in {"failed", "fresh"} : phase' = [phase EXCEPT ![r] = p]
      /\ UNCHANGED <<prompt, worker, answer, stored, at, op, value, memory>>
  BY DEF InferRaises, Respond, Pipeline!InferRaises, Pipeline!Respond, cache
<1>2. Alone(r)
  BY <1>1, HandlerAlone
<1>3. Linked(r)'
  <2>1. Linked(r) /\ phase'[r] \in {"failed", "fresh"}
    BY <1>1, Functions DEF IInv
  <2> QED
    BY <1>1, <2>1 DEF Linked, GetCommands, SetCommands, Get, Set
<1>4. AnswersHeld'
  BY <1>1, HoldsKept, HeldKept DEF IInv
<1> QED
  BY <1>2, <1>3, <1>4, AloneLinked

LEMMA StoreStep ==
    ASSUME IInv, NEW r \in Requests, Store(r)
    PROVE  (\A q \in Requests : Linked(q)') /\ AnswersHeld'
<1>1. /\ phase[r] = "store" /\ phase' = [phase EXCEPT ![r] = "stored"]
      /\ stored' = stored \cup {<<prompt[r].topic, answer[r]>>}
      /\ UNCHANGED <<prompt, worker, answer>>
  BY DEF Store, Pipeline!StoreEntry
<1>2. PICK next \in {"embed", "done"} : at' = [at EXCEPT ![Set(r)] = next]
  BY DEF Store, Cache!SetWrite
<1>3. UNCHANGED op
  BY DEF Store, Cache!SetWrite
<1>4. Alone(r)
  BY <1>1, <1>2, <1>3, HandlerAlone
<1>5. Linked(r) /\ Get(r) \in CacheCalls /\ Set(r) \in CacheCalls /\ Get(r) # Set(r)
  BY CallsDiffer DEF IInv
<1>6. at[Set(r)] = "write"
  BY <1>1, <1>5 DEF Linked
<1>7. /\ phase'[r] = "stored"
      /\ at'[Set(r)] = next /\ at'[Get(r)] = at[Get(r)]
  BY <1>1, <1>2, <1>5, Functions
<1>8. Linked(r)'
  <2>1. at[Get(r)] \notin GetCommands
    BY <1>1, <1>5 DEF Linked
  <2> QED
    BY <1>1, <1>3, <1>5, <1>6, <1>7, <2>1 DEF Linked, GetCommands, SetCommands, Get, Set
<1>9. AnswersHeld'
  <2> DEFINE topic == prompt[r].topic
  <2>1. op[Set(r)] = [kind |-> "set", query |-> topic, process |-> worker[r]]
    BY <1>5, <1>6 DEF Linked, SetCommands
  <2>2. op[Set(r)] \in CacheP!Ops
    BY <1>5, <1>6, Functions DEF IInv, CacheP!IInv, CacheP!CallsInPlace
  <2>3. topic \in Topics /\ worker[r] \in Workers
    BY <2>1, <2>2 DEF CacheP!Ops
  <2>4. /\ \/ UNCHANGED value
           \/ value' = [value EXCEPT ![topic] = Set(r)]
        /\ \/ UNCHANGED memory
           \/ memory' = [memory EXCEPT ![worker[r]][topic] = Set(r)]
    BY <2>1 DEF Store, Cache!SetWrite, Cache!Query, Cache!Process
  <2>5. \A k \in Topics, c \in CacheCalls :
           CacheP!Holds(k, c)' => CacheP!Holds(k, c) \/ (k = topic /\ c = Set(r))
    <3>1. \A k \in Topics : value'[k] = value[k] \/ (k = topic /\ value'[k] = Set(r))
      BY <2>3, <2>4, Functions
    <3>2. \A o \in Workers, k \in Topics :
             memory'[o][k] = memory[o][k] \/ (k = topic /\ memory'[o][k] = Set(r))
      <4>1. CASE UNCHANGED memory
        BY <4>1
      <4>2. CASE memory' = [memory EXCEPT ![worker[r]][topic] = Set(r)]
        <5> DEFINE row == [memory[worker[r]] EXCEPT ![topic] = Set(r)]
        <5>1. \A k \in Topics : row[k] = IF k = topic THEN Set(r) ELSE memory[worker[r]][k]
          BY <2>3, Functions
        <5>2. memory' = [memory EXCEPT ![worker[r]] = row]
          BY <4>2
        <5> HIDE DEF row
        <5> QED
          BY <2>3, <5>1, <5>2, Functions
      <4> QED
        BY <2>4, <4>1, <4>2
    <3> HIDE DEF topic
    <3> QED
      BY <3>1, <3>2 DEF CacheP!Holds
  <2> SUFFICES ASSUME NEW k \in Topics, NEW c \in CacheCalls, CacheP!Holds(k, c)'
               PROVE  HeldIsStored(k, c)'
    BY DEF AnswersHeld
  <2>6. CASE CacheP!Holds(k, c)
    <3>1. PICK q \in Requests :
             c = Set(q) /\ at[c] # "idle" /\ <<k, answer[q]>> \in stored
      BY <2>6 DEF IInv, AnswersHeld, HeldIsStored
    <3>2. at'[c] # "idle"
      BY <1>2, <1>5, <3>1, Functions
    <3> QED
      BY <1>1, <3>1, <3>2 DEF HeldIsStored, Set
  <2>7. CASE k = topic /\ c = Set(r)
    <3>1. at'[c] # "idle" /\ <<k, answer'[r]>> \in stored'
      BY <1>1, <1>7, <2>7
    <3> QED
      BY <2>7, <3>1 DEF HeldIsStored, Set
  <2> QED
    BY <2>5, <2>6, <2>7
<1> QED
  BY <1>4, <1>8, <1>9, AloneLinked

LEMMA IndexStep ==
    ASSUME IInv, NEW r \in Requests, Index(r)
    PROVE  (\A q \in Requests : Linked(q)') /\ AnswersHeld'
<1>1. UNCHANGED <<phase, prompt, worker, answer, stored>>
  BY DEF Index, handlers
<1>2. /\ at[Set(r)] \in {"embed", "push"} /\ UNCHANGED <<op, value, memory>>
      /\ \E next \in {"push", "done"} : at' = [at EXCEPT ![Set(r)] = next]
  BY DEF Index, Cache!SetEmbedding, Cache!SetPush, Cache!local
<1>3. Alone(r)
  BY <1>1, <1>2, HandlerAlone
<1>4. Linked(r)'
  <2>1. Linked(r) /\ Get(r) \in CacheCalls /\ Set(r) \in CacheCalls /\ Get(r) # Set(r)
    BY CallsDiffer DEF IInv
  <2>2. at'[Set(r)] \in {"push", "done"} /\ at'[Get(r)] = at[Get(r)]
    BY <1>2, <2>1, Functions
  <2> QED
    BY <1>1, <1>2, <2>1, <2>2 DEF Linked, GetCommands, SetCommands, Get, Set
<1>5. AnswersHeld'
  <2>1. \A q \in Requests : at[Set(q)] # "idle" => at'[Set(q)] # "idle"
    BY <1>2, CallsDiffer, Functions
  <2> QED
    BY <1>1, <1>2, <2>1, HoldsKept, HeldKept DEF IInv
<1> QED
  BY <1>3, <1>4, <1>5, AloneLinked

LEMMA CancelStep ==
    ASSUME IInv, NEW r \in Requests, Cancel(r)
    PROVE  (\A q \in Requests : Linked(q)') /\ AnswersHeld'
<1>1. /\ phase[r] \in PipelineP!Suspended
      /\ phase' = [phase EXCEPT ![r] = "cancelled"]
      /\ UNCHANGED <<prompt, worker, answer, stored>>
  BY DEF Cancel, Pipeline!Cancel, Pipeline!Suspended, PipelineP!Suspended
<1>2. Linked(r) /\ Get(r) \in CacheCalls /\ Set(r) \in CacheCalls /\ Get(r) # Set(r)
  BY CallsDiffer DEF IInv
<1>3. /\ UNCHANGED <<op, value, memory>>
      /\ \/ /\ at[Get(r)] \notin GetCommands /\ at[Set(r)] \notin SetCommands
            /\ UNCHANGED at
         \/ \E c \in {Get(r), Set(r)} :
               /\ InFlight(c) /\ at' = [at EXCEPT ![c] = "abandoned"]
  BY DEF Cancel, Cache!Abandon, InFlight, cache, Cache!Commands, Cache!remote,
     Cache!local, GetCommands, SetCommands
<1>4. Alone(r)
  BY <1>1, <1>3, HandlerAlone
<1>5. Linked(r)'
  <2>1. phase'[r] = "cancelled"
    BY <1>1, Functions
  <2>2. \/ at[Get(r)] \notin GetCommands
        \/ at[Set(r)] \notin SetCommands
    BY <1>2 DEF Linked, SetCommands
  <2>3. /\ at'[Get(r)] \in {"idle", "done", "abandoned"}
        /\ at'[Set(r)] \in {"idle", "done", "abandoned"}
    BY <1>2, <1>3, <2>2, Functions
       DEF Linked, InFlight, Cache!Commands, GetCommands, SetCommands
  <2> QED
    BY <2>1, <2>3 DEF Linked, GetCommands, SetCommands, Get, Set
<1>6. AnswersHeld'
  <2>1. \A q \in Requests : at[Set(q)] # "idle" => at'[Set(q)] # "idle"
    BY <1>3, CallsDiffer, Functions
  <2> QED
    BY <1>1, <1>3, <2>1, HoldsKept, HeldKept DEF IInv
<1> QED
  BY <1>4, <1>5, <1>6, AloneLinked

LEMMA CrashStep ==
    ASSUME IInv, NEW w \in Workers, Crash(w)
    PROVE  (\A q \in Requests : Linked(q)') /\ AnswersHeld'
<1>1. /\ phase' = [r \in Requests |->
                     IF worker[r] = w /\ phase[r] \in PipelineP!Suspended
                     THEN "dropped" ELSE phase[r]]
      /\ worker' = [r \in Requests |-> IF worker[r] = w THEN None ELSE worker[r]]
      /\ UNCHANGED <<prompt, answer, stored>>
  BY DEF Crash, Pipeline!Crash, Pipeline!Suspended, PipelineP!Suspended
<1>2. /\ UNCHANGED <<op, value>>
      /\ \A c \in CacheCalls :
            at'[c] = IF InFlight(c) /\ op[c].process = w THEN "abandoned" ELSE at[c]
      /\ \A o \in Workers, k \in Topics : memory'[o][k] \in {memory[o][k], None}
  <2>1. CASE Cache!Restart(w)
    BY <2>1, Functions DEF Cache!Restart, InFlight, Cache!Process, Cache!remote
  <2>2. CASE NothingToLose(w) /\ UNCHANGED cache
    BY <2>2 DEF NothingToLose, Cache!Process, cache
  <2> QED
    BY <2>1, <2>2 DEF Crash
<1>3. ASSUME NEW q \in Requests PROVE Linked(q)'
  <2>1. Linked(q) /\ Get(q) \in CacheCalls /\ Set(q) \in CacheCalls
    BY CallsDiffer DEF IInv
  <2>2. at[Get(q)] \in GetCommands <=> InFlight(Get(q))
    BY <2>1 DEF Linked, InFlight, Cache!Commands, GetCommands
  <2>3. at[Set(q)] \in SetCommands <=> InFlight(Set(q))
    BY <2>1 DEF Linked, InFlight, Cache!Commands, SetCommands
  <2>4. CASE worker[q] = w /\ phase[q] \in PipelineP!Suspended
    <3>1. phase'[q] = "dropped"
      BY <1>1, <2>4
    <3>2. /\ at'[Get(q)] \in {"idle", "done", "abandoned"}
          /\ at'[Set(q)] \in {"idle", "done", "abandoned"}
      BY <1>2, <2>1, <2>2, <2>3, <2>4 DEF Linked
    <3> QED
      BY <3>1, <3>2 DEF Linked, GetCommands, SetCommands, Get, Set
  <2>5. CASE ~(worker[q] = w /\ phase[q] \in PipelineP!Suspended)
    <3>1. phase'[q] = phase[q] /\ (phase[q] \in PipelineP!Suspended => worker'[q] = worker[q])
      BY <1>1, <2>5
    <3>2. /\ InFlight(Get(q)) => op[Get(q)].process # w
          /\ InFlight(Set(q)) => op[Set(q)].process # w
      BY <2>1, <2>2, <2>3, <2>5 DEF Linked, SetCommands, PipelineP!Suspended
    <3>3. at'[Get(q)] = at[Get(q)] /\ at'[Set(q)] = at[Set(q)]
      BY <1>2, <2>1, <3>2
    <3> QED
      BY <1>1, <1>2, <2>1, <3>1, <3>3, LinkedKept
  <2> QED
    BY <2>4, <2>5
<1>4. AnswersHeld'
  <2>1. \A q \in Requests : at[Set(q)] # "idle" => at'[Set(q)] # "idle"
    BY <1>2, CallsDiffer
  <2>2. \A k \in Topics, c \in CacheCalls : CacheP!Holds(k, c)' => CacheP!Holds(k, c)
    BY <1>2, NoneAssumption DEF CacheP!Holds
  <2> QED
    BY <1>1, <2>1, <2>2, HeldKept DEF IInv
<1> QED
  BY <1>3, <1>4

LEMMA ExpireStep ==
    ASSUME IInv, Expire
    PROVE  (\A q \in Requests : Linked(q)') /\ AnswersHeld'
<1>1. UNCHANGED <<phase, prompt, worker, answer, stored, at, op, memory>>
  BY DEF Expire, handlers, Cache!TtlPasses, Cache!EmbeddingExpires, Cache!IndexExpires,
     Cache!local
<1>2. \A k \in Topics : value'[k] \in {value[k], None}
  BY Functions DEF Expire, Cache!TtlPasses, Cache!EmbeddingExpires, Cache!IndexExpires
<1>3. \A q \in Requests : Linked(q)'
  BY <1>1, LinkedKept DEF IInv
<1>4. \A k \in Topics, c \in CacheCalls : CacheP!Holds(k, c)' => CacheP!Holds(k, c)
  BY <1>1, <1>2, NoneAssumption DEF CacheP!Holds
<1>5. AnswersHeld'
  BY <1>1, <1>4, HeldKept DEF IInv
<1> QED
  BY <1>3, <1>5

LEMMA StutterStep ==
    ASSUME IInv, UNCHANGED vars
    PROVE  (\A q \in Requests : Linked(q)') /\ AnswersHeld'
<1>1. UNCHANGED <<phase, prompt, worker, answer, stored, at, op, value, memory>>
  BY DEF vars, handlers, cache
<1>2. \A q \in Requests : Linked(q)'
  BY <1>1, LinkedKept DEF IInv
<1>3. AnswersHeld'
  BY <1>1, HoldsKept, HeldKept DEF IInv
<1> QED
  BY <1>2, <1>3

-----------------------------------------------------------------------------
LEMMA InitIInv == Init => IInv
<1> SUFFICES ASSUME Init PROVE IInv
  OBVIOUS
<1>1. CacheP!IInv
  BY SameCache, CacheAssumptions, CacheP!InitIInv DEF Init
<1>2. PipelineP!IInv
  BY SamePipeline, PipelineAssumptions, PipelineP!InitIInv DEF Init
<1>3. \A r \in Requests : Linked(r)
  BY CallsDiffer DEF Init, Pipeline!Init, Cache!Init, Linked, GetCommands, SetCommands
<1>4. AnswersHeld
  BY NoneAssumption DEF Init, Cache!Init, AnswersHeld, CacheP!Holds
<1> QED
  BY <1>1, <1>2, <1>3, <1>4 DEF IInv

LEMMA NextIInv == IInv /\ [Next]_vars => IInv'
<1> SUFFICES ASSUME IInv, [Next]_vars PROVE IInv'
  OBVIOUS
<1>1. (\A q \in Requests : Linked(q)') /\ AnswersHeld'
  BY RefuseStep, AdmitStep, LookupSteps, InferReturnsStep, InferRaisesOrRespondStep,
     StoreStep, IndexStep, CancelStep, CrashStep, ExpireStep, StutterStep
     DEF Next, Handler
<1> QED
  BY <1>1, InstancesKept DEF IInv

\* The inductive invariant: those of both parts, how they are linked, and that
\* whatever the cache holds is the answer of the call of set that brought it.
THEOREM Invariance == Spec => []IInv
BY InitIInv, NextIInv, PTL DEF Spec

\* On top of the real cache, command by command, whatever fails, expires or dies, the
\* endpoint takes no step that QueryPipeline does not allow: a hit is always an
\* answer that some handler stored for a similar prompt.
THEOREM Refinement == Spec => Pipeline!Spec
<1>1. Init => Pipeline!Init
  BY DEF Init
<1>2. IInv /\ [Next]_vars => [Pipeline!Next]_(Pipeline!vars)
  BY PipelineStep
<1> QED
  BY <1>1, <1>2, Invariance, PTL DEF Spec, Pipeline!Spec

-----------------------------------------------------------------------------
(* Repeats.                                                                *)

Quiet == failures = 0 /\ overdue = {}

\* One request in one step, whatever else the step does.
Moves(d) ==
    \/ /\ phase'[d] = phase[d] /\ prompt'[d] = prompt[d] /\ reply'[d] = reply[d]
       /\ earlier'[d] = earlier[d] /\ at'[Get(d)] = at[Get(d)]
    \/ /\ phase[d] = "idle" /\ phase'[d] = "lookup" /\ at'[Get(d)] = "exact"
       /\ reply'[d] = reply[d] /\ earlier'[d] = Answered
    \/ /\ prompt'[d] = prompt[d] /\ earlier'[d] = earlier[d]
       /\ \/ /\ phase[d] = "idle" /\ phase'[d] \in {"unauthorized", "invalid", "blocked"}
             /\ reply'[d] = reply[d]
          \/ /\ phase[d] = "lookup" /\ phase'[d] = "lookup" /\ reply'[d] = reply[d]
             /\ at[Get(d)] = "exact" => at'[Get(d)] = "keys"
          \/ /\ phase[d] = "lookup" /\ phase'[d] = "hit" /\ reply'[d].cached
          \/ /\ phase[d] = "lookup" /\ phase'[d] = "infer" /\ reply'[d] = reply[d]
             /\ at[Get(d)] = "exact" => at'[Get(d)] = "done" /\ result'[Get(d)] = None
          \/ /\ phase[d] = "infer" /\ phase'[d] \in {"store", "failed"}
             /\ reply'[d] = reply[d]
          \/ phase[d] = "store" /\ phase'[d] = "stored" /\ reply'[d] = reply[d]
          \/ phase[d] = "stored" /\ phase'[d] = "fresh"
          \/ /\ phase[d] \in PipelineP!Suspended /\ phase'[d] \in {"cancelled", "dropped"}
             /\ reply'[d] = reply[d]

\* Everybody but the request that moves, from Alone and what a handler leaves.
LEMMA OthersStay ==
    ASSUME IInv, DOMAIN reply = Requests, DOMAIN earlier = Requests,
           NEW r \in Requests, Alone(r),
           \/ UNCHANGED reply
           \/ \E v : reply' = [reply EXCEPT ![r] = v],
           \/ UNCHANGED earlier
           \/ \E v : earlier' = [earlier EXCEPT ![r] = v],
           NEW d \in Requests \ {r}
    PROVE  Moves(d)
BY DEF Alone, Moves

Shape == DOMAIN reply = Requests /\ DOMAIN earlier = Requests

LEMMA ReplyShape == IInv => DOMAIN reply = Requests
BY DEF IInv, PipelineP!IInv, PipelineP!TypeOK

LEMMA ArrivalMoves ==
    ASSUME IInv, Shape, NEW r \in Requests, NEW w \in Workers,
           Refuse(r, w) \/ \E text \in Pipeline!Queries : Admit(r, w, text),
           NEW d \in Requests
    PROVE  Moves(d)
<1>1. CASE Refuse(r, w)
  <2>1. /\ phase[r] = "idle"
        /\ \E p \in {"unauthorized", "invalid", "blocked"} :
              phase' = [phase EXCEPT ![r] = p]
        /\ worker' = [worker EXCEPT ![r] = w]
        /\ UNCHANGED <<prompt, reply, earlier, at, op>>
    BY <1>1 DEF Refuse, Pipeline!Unauthorized, Pipeline!Reject, cache
  <2>2. Alone(r)
    BY <2>1, HandlerAlone
  <2>3. Moves(r)
    BY <2>1, Functions DEF Moves
  <2> QED
    BY <2>1, <2>2, <2>3, OthersStay DEF Shape
<1>2. ASSUME NEW text \in Pipeline!Queries, Admit(r, w, text)
      PROVE  Moves(d)
  <2>1. /\ phase[r] = "idle"
        /\ phase' = [phase EXCEPT ![r] = "lookup"]
        /\ \E clean : prompt' = [prompt EXCEPT ![r] = clean]
        /\ worker' = [worker EXCEPT ![r] = w]
        /\ earlier' = [earlier EXCEPT ![r] = Answered]
        /\ UNCHANGED reply
    BY <1>2 DEF Admit, Pipeline!Admit
  <2>2. /\ at' = [at EXCEPT ![Get(r)] = "exact"]
        /\ \E o : op' = [op EXCEPT ![Get(r)] = o]
    BY <1>2, CallsDiffer, CallsBegin DEF Admit
  <2>3. Alone(r)
    BY <2>1, <2>2, HandlerAlone
  <2>4. Moves(r)
    BY <2>1, <2>2, CallsDiffer, Functions DEF Moves, Shape
  <2> QED
    BY <2>1, <2>3, <2>4, OthersStay DEF Shape
<1> QED
  BY <1>1, <1>2

\* An exact lookup that goes on goes on to the search for keys.
LEMMA ExactMoves ==
    ASSUME IInv, NEW r \in Requests, LookupStep(r), at[Get(r)] = "exact"
    PROVE  at'[Get(r)] \in {"keys", "done"}
<1>1. Cache!GetExact(Get(r))
  BY DEF LookupStep, Cache!GetKeys, Cache!ScanKey, Cache!Fetch
<1> QED
  BY <1>1, CallsDiffer, Functions DEF Cache!GetExact, Cache!Return

LEMMA LookupMoves ==
    ASSUME IInv, Shape, NEW r \in Requests, Search(r) \/ Hit(r) \/ Miss(r),
           NEW d \in Requests
    PROVE  Moves(d)
<1>1. LookupStep(r) /\ UNCHANGED <<prompt, worker, earlier>>
  BY DEF Search, Hit, Miss, handlers, Pipeline!LookupMiss
<1>2. /\ phase[r] = "lookup" /\ UNCHANGED op
      /\ \E next : at' = [at EXCEPT ![Get(r)] = next]
  <2>1. Linked(r)
    BY DEF IInv
  <2>2. at[Get(r)] \in GetCommands
    BY <1>1, LookupStepMoves
  <2>3. UNCHANGED op /\ \E next : at' = [at EXCEPT ![Get(r)] = next]
    BY <1>1, LookupStepMoves
  <2> QED
    BY <2>1, <2>2, <2>3 DEF Linked
<1>3. at[Get(r)] = "exact" => at'[Get(r)] \in {"keys", "done"}
  BY <1>1, ExactMoves
<1>4. CASE Search(r)
  <2>1. UNCHANGED <<phase, reply>> /\ at'[Get(r)] # "done"
    BY <1>4 DEF Search, handlers
  <2>2. Alone(r)
    BY <1>1, <1>2, <2>1, HandlerAlone
  <2>3. Moves(r)
    BY <1>1, <1>2, <1>3, <2>1 DEF Moves
  <2> QED
    BY <1>1, <2>1, <2>2, <2>3, OthersStay DEF Shape
<1>5. CASE Hit(r)
  <2>1. /\ phase' = [phase EXCEPT ![r] = "hit"]
        /\ \E a : reply' = [reply EXCEPT ![r] = [body |-> a, cached |-> TRUE]]
    BY <1>5 DEF Hit
  <2>2. Alone(r)
    BY <1>1, <1>2, <2>1, HandlerAlone
  <2>3. Moves(r)
    BY <1>1, <1>2, <2>1, Functions DEF Moves, Shape
  <2> QED
    BY <1>1, <2>1, <2>2, <2>3, OthersStay DEF Shape
<1>6. CASE Miss(r)
  <2>1. /\ phase' = [phase EXCEPT ![r] = "infer"] /\ UNCHANGED reply
        /\ at'[Get(r)] = "done" /\ result'[Get(r)] = None
    BY <1>6 DEF Miss, Pipeline!LookupMiss
  <2>2. Alone(r)
    BY <1>1, <1>2, <2>1, HandlerAlone
  <2>3. Moves(r)
    BY <1>1, <1>2, <2>1, Functions DEF Moves
  <2> QED
    BY <1>1, <2>1, <2>2, <2>3, OthersStay DEF Shape
<1> QED
  BY <1>4, <1>5, <1>6

LEMMA AnswerMoves ==
    ASSUME IInv, Shape, NEW r \in Requests,
           InferReturns(r) \/ InferRaises(r) \/ Store(r) \/ Index(r) \/ Respond(r),
           NEW d \in Requests
    PROVE  Moves(d)
<1>1. UNCHANGED <<prompt, worker, earlier>>
  BY DEF InferReturns, InferRaises, Store, Index, Respond, handlers, Pipeline!InferReturns,
     Pipeline!InferRaises, Pipeline!StoreEntry, Pipeline!Respond
<1>2. /\ UNCHANGED at \/ \E next : at' = [at EXCEPT ![Set(r)] = next]
      /\ UNCHANGED op \/ \E o : op' = [op EXCEPT ![Set(r)] = o]
  <2>1. CASE InferReturns(r)
    BY <2>1, CallsDiffer, CallsBegin DEF InferReturns
  <2>2. CASE InferRaises(r) \/ Store(r) \/ Index(r) \/ Respond(r)
    BY <2>2 DEF InferRaises, Store, Index, Respond, cache, Cache!SetWrite,
       Cache!SetEmbedding, Cache!SetPush
  <2> QED
    BY <2>1, <2>2
<1>3. \/ UNCHANGED <<phase, reply>>
      \/ /\ UNCHANGED reply
         /\ \/ /\ phase[r] = "infer"
               /\ \E p \in {"store", "failed"} : phase' = [phase EXCEPT ![r] = p]
            \/ phase[r] = "store" /\ phase' = [phase EXCEPT ![r] = "stored"]
      \/ /\ phase[r] = "stored" /\ phase' = [phase EXCEPT ![r] = "fresh"]
         /\ \E v : reply' = [reply EXCEPT ![r] = v]
  BY DEF InferReturns, InferRaises, Store, Index, Respond, handlers, Pipeline!InferReturns,
     Pipeline!InferRaises, Pipeline!StoreEntry, Pipeline!Respond
<1>4. Alone(r)
  BY <1>1, <1>2, <1>3, HandlerAlone
<1>5. at'[Get(r)] = at[Get(r)]
  BY <1>2, CallsDiffer, Functions
<1>6. Moves(r)
  BY <1>1, <1>3, <1>5, Functions DEF Moves
<1> QED
  BY <1>1, <1>3, <1>4, <1>6, OthersStay DEF Shape

LEMMA EndMoves ==
    ASSUME IInv, Shape, NEW d \in Requests,
           \/ \E r \in Requests : Cancel(r)
           \/ \E w \in Workers : Crash(w)
           \/ Expire \/ UNCHANGED vars
    PROVE  Moves(d)
<1>1. ASSUME NEW r \in Requests, Cancel(r) PROVE Moves(d)
  <2>1. /\ phase[r] \in PipelineP!Suspended
        /\ phase' = [phase EXCEPT ![r] = "cancelled"]
        /\ UNCHANGED <<prompt, worker, reply, earlier>>
    BY <1>1 DEF Cancel, Pipeline!Cancel, Pipeline!Suspended, PipelineP!Suspended
  <2>2. /\ UNCHANGED op
        /\ \/ UNCHANGED at
           \/ \E c \in {Get(r), Set(r)} : at' = [at EXCEPT ![c] = "abandoned"]
    BY <1>1 DEF Cancel, Cache!Abandon, cache
  <2>3. Alone(r)
    BY <2>1, <2>2, HandlerAlone
  <2>4. Moves(r)
    BY <2>1, Functions DEF Moves
  <2> QED
    BY <2>1, <2>3, <2>4, OthersStay DEF Shape
<1>2. ASSUME NEW w \in Workers, Crash(w) PROVE Moves(d)
  <2>1. /\ phase'[d] = IF worker[d] = w /\ phase[d] \in PipelineP!Suspended
                       THEN "dropped" ELSE phase[d]
        /\ UNCHANGED <<prompt, reply, earlier>>
    BY <1>2 DEF Crash, Pipeline!Crash, Pipeline!Suspended, PipelineP!Suspended
  <2>2. CASE worker[d] = w /\ phase[d] \in PipelineP!Suspended
    BY <2>1, <2>2 DEF Moves
  <2>3. CASE ~(worker[d] = w /\ phase[d] \in PipelineP!Suspended)
    <3>1. Linked(d) /\ Get(d) \in CacheCalls
      BY CallsDiffer DEF IInv
    <3>2. InFlight(Get(d)) => op[Get(d)].process # w
      BY <2>3, <3>1 DEF Linked, InFlight, Cache!Commands, GetCommands, PipelineP!Suspended
    <3>3. at'[Get(d)] = at[Get(d)]
      <4>1. CASE Cache!Restart(w)
        BY <3>1, <3>2, <4>1 DEF Cache!Restart, InFlight, Cache!Process
      <4>2. CASE UNCHANGED cache
        BY <4>2 DEF cache
      <4> QED
        BY <1>2, <4>1, <4>2 DEF Crash
    <3> QED
      BY <2>1, <2>3, <3>3 DEF Moves
  <2> QED
    BY <2>2, <2>3
<1>3. CASE Expire \/ UNCHANGED vars
  <2>1. UNCHANGED <<phase, prompt, reply, earlier, at>>
    BY <1>3 DEF Expire, vars, handlers, cache, Cache!TtlPasses, Cache!EmbeddingExpires,
       Cache!IndexExpires
  <2> QED
    BY <2>1 DEF Moves
<1> QED
  BY <1>1, <1>2, <1>3

LEMMA RequestsMove ==
    ASSUME IInv, Shape, [Next]_vars
    PROVE  \A d \in Requests : Moves(d)
BY ArrivalMoves, LookupMoves, AnswerMoves, EndMoves DEF Next, Handler

\* A request answered without the cache has written its answer to Redis, and as long
\* as no command fails and nothing expires some answer is there for its topic; who
\* arrives later is still at the exact lookup, or has been answered by it.
RepeatsInv ==
    /\ Shape
    /\ \A r \in Requests :
          /\ earlier[r] \subseteq Answered
          /\ reply[r] # None => phase[r] \in {"hit", "fresh"}
          /\ phase[r] = "hit" => reply[r].cached
          /\ phase[r] = "idle" => earlier[r] = {}
          /\ phase[r] = "fresh" => prompt[r].topic \in Topics
    /\ Quiet => \A q \in Requests :
          phase[q] \in {"stored", "fresh"} => value[prompt[q].topic] # None
    /\ \A q, r \in Requests :
          /\ Quiet /\ q \in earlier[r] /\ ~reply[q].cached
          /\ prompt[q].topic = prompt[r].topic
          => /\ phase[r] \in {"lookup", "hit", "cancelled", "dropped"}
             /\ phase[r] = "lookup" => at[Get(r)] = "exact"

\* The entry of a request that goes on from storing it has been written.
LEMMA StoreMoves ==
    ASSUME IInv, [Next]_vars, NEW r \in Requests, phase[r] = "store", phase'[r] = "stored"
    PROVE  at'[Set(r)] \in {"embed", "done"}
<1>1. ASSUME NEW q \in Requests, q # r, Handler(q) \/ Cancel(q)
      PROVE  phase'[r] = phase[r]
  BY <1>1, Functions DEF Handler, Search, Hit, Miss, InferReturns, InferRaises, Store, Index,
     Respond, Cancel, handlers, Pipeline!LookupMiss, Pipeline!InferReturns,
     Pipeline!InferRaises, Pipeline!StoreEntry, Pipeline!Respond, Pipeline!Cancel
<1>2. ASSUME NEW q \in Requests, NEW w \in Workers,
             Refuse(q, w) \/ \E text \in Pipeline!Queries : Admit(q, w, text)
      PROVE  phase'[r] = phase[r] \/ phase'[r] # "stored"
  BY <1>2, Functions DEF Refuse, Admit, Pipeline!Unauthorized, Pipeline!Reject, Pipeline!Admit
<1>3. ASSUME NEW w \in Workers, Crash(w)
      PROVE  phase'[r] \in {phase[r], "dropped"}
  BY <1>3 DEF Crash, Pipeline!Crash
<1>4. CASE Expire \/ UNCHANGED vars
  BY <1>4 DEF Expire, vars, handlers
<1>5. CASE Store(r)
  <2>1. Set(r) \in CacheCalls
    BY CallsDiffer
  <2> QED
    BY <1>5, <2>1, Functions DEF Store, Cache!SetWrite
<1>6. CASE Search(r) \/ Hit(r) \/ Miss(r) \/ InferReturns(r) \/ InferRaises(r)
           \/ Index(r) \/ Respond(r) \/ Cancel(r)
  <2>1. phase'[r] = phase[r] \/ phase'[r] # "stored"
    BY <1>6, Functions DEF Search, Hit, Miss, InferReturns, InferRaises, Index,
       Respond, Cancel, handlers, Pipeline!LookupMiss, Pipeline!InferReturns,
       Pipeline!InferRaises, Pipeline!Respond, Pipeline!Cancel
  <2> QED
    BY <2>1
<1> QED
  BY <1>1, <1>2, <1>3, <1>4, <1>5, <1>6 DEF Next, Handler

\* What the cache does in a quiet step.
LEMMA QuietCache ==
    ASSUME IInv, [Next]_vars, Quiet'
    PROVE  /\ Quiet
           /\ \A k \in Topics : value[k] # None => value'[k] # None
           /\ \A r \in Requests :
                 /\ phase[r] = "store" /\ phase'[r] = "stored"
                       => value'[prompt[r].topic] # None
                 /\ /\ phase[r] = "lookup" /\ at[Get(r)] = "exact"
                    /\ at'[Get(r)] \in {"keys", "done"} /\ value[prompt[r].topic] # None
                    => at'[Get(r)] = "done" /\ result'[Get(r)] # None
<1>1. CacheP!IInv /\ [CacheP!Next]_(CacheP!vars)
  BY CacheStep, SameCache DEF IInv
<1>2. /\ failures \in Nat /\ failures' \in Nat /\ failures <= failures'
      /\ overdue \subseteq overdue'
  BY <1>1, CacheAssumptions, CacheP!TimePasses
<1>3. Quiet /\ failures' = failures /\ overdue' = {}
  BY <1>2 DEF Quiet
<1>4. \A r \in Requests : Linked(r) /\ Get(r) \in CacheCalls /\ Set(r) \in CacheCalls
  BY CallsDiffer DEF IInv
<1>5. \A c \in CacheCalls : at[c] # "delete" /\ c # None
  <2>1. \A r \in Requests : at[Get(r)] # "delete" /\ at[Set(r)] # "delete"
    BY <1>4 DEF Linked, GetCommands, SetCommands
  <2> QED
    BY <2>1, CallsDiffer, NoneAssumption
<1>6. ASSUME NEW k \in Topics, value[k] # None PROVE value'[k] # None
  BY <1>1, <1>3, <1>5, <1>6, CacheAssumptions, CacheP!RedisChanges
<1>7. ASSUME NEW r \in Requests, phase[r] = "store", phase'[r] = "stored"
      PROVE  value'[prompt[r].topic] # None
  <2>1. at[Set(r)] = "write" /\ CacheP!Query(Set(r)) = prompt[r].topic
    <3>1. Linked(r) /\ at[Set(r)] = "write"
      BY <1>4, <1>7 DEF Linked
    <3> QED
      BY <3>1 DEF Linked, SetCommands, CacheP!Query
  <2>2. at'[Set(r)] \in {"embed", "done"}
    BY <1>4, <1>7, StoreMoves
  <2> QED
    BY <1>1, <1>3, <1>4, <1>5, <2>1, <2>2, CacheAssumptions, CacheP!AnsweredTakesEffect
<1>8. ASSUME NEW r \in Requests, phase[r] = "lookup", at[Get(r)] = "exact",
             at'[Get(r)] \in {"keys", "done"}, value[prompt[r].topic] # None
      PROVE  at'[Get(r)] = "done" /\ result'[Get(r)] # None
  <2>1. CacheP!Query(Get(r)) = prompt[r].topic
    <3>1. Linked(r)
      BY <1>4
    <3> QED
      BY <1>8, <3>1 DEF Linked, GetCommands, CacheP!Query
  <2> QED
    BY <1>1, <1>3, <1>4, <1>8, <2>1, CacheAssumptions, CacheP!AnsweredTakesEffect
<1> QED
  BY <1>3, <1>6, <1>7, <1>8

LEMMA ShapeKept ==
    ASSUME IInv, Shape, [Next]_vars
    PROVE  Shape'
<1>1. DOMAIN reply' = Requests
  BY InstancesKept DEF PipelineP!IInv, PipelineP!TypeOK
<1>2. UNCHANGED earlier \/ \E r, v : earlier' = [earlier EXCEPT ![r] = v]
  BY DEF Next, vars, Refuse, Admit, Handler, Search, Hit, Miss, InferReturns, InferRaises,
     Store, Index, Respond, Cancel, Crash, Expire
<1>3. DOMAIN earlier' = Requests
  BY <1>2 DEF Shape
<1> QED
  BY <1>1, <1>3 DEF Shape

\* Whoever has been answered stays as it is.
LEMMA AnsweredStays ==
    ASSUME RepeatsInv, NEW q \in Answered, Moves(q)
    PROVE  /\ phase[q] \in {"hit", "fresh"}
           /\ phase'[q] = phase[q] /\ reply'[q] = reply[q] /\ prompt'[q] = prompt[q]
BY DEF RepeatsInv, Answered, Moves, PipelineP!Suspended

LEMMA StoredHasTopic ==
    ASSUME IInv, NEW r \in Requests, phase[r] = "stored"
    PROVE  prompt[r].topic \in Topics
<1>1. prompt[r] \in PipelineP!Texts
  BY DEF IInv, PipelineP!IInv, PipelineP!HandlersPlaced, PipelineP!Suspended
<1> QED
  BY <1>1 DEF PipelineP!Texts

LEMMA InitRepeats == Init => RepeatsInv
<1> SUFFICES ASSUME Init PROVE RepeatsInv
  OBVIOUS
<1>1. /\ \A r \in Requests : phase[r] = "idle" /\ reply[r] = None /\ earlier[r] = {}
      /\ DOMAIN reply = Requests /\ DOMAIN earlier = Requests
  BY DEF Init, Pipeline!Init
<1> QED
  BY <1>1 DEF RepeatsInv, Shape

LEMMA NextRepeats ==
    ASSUME IInv, RepeatsInv, [Next]_vars
    PROVE  RepeatsInv'
<1>1. \A d \in Requests : Moves(d)
  BY RequestsMove DEF RepeatsInv
<1>2. Shape'
  BY ShapeKept DEF RepeatsInv
<1>3. \A q \in Answered :
         /\ phase[q] \in {"hit", "fresh"}
         /\ phase'[q] = phase[q] /\ reply'[q] = reply[q] /\ prompt'[q] = prompt[q]
  BY <1>1, AnsweredStays DEF Answered
<1>4. Answered \subseteq Answered'
  BY <1>3 DEF Answered
<1>5. ASSUME NEW r \in Requests
      PROVE  /\ earlier'[r] \subseteq Answered'
             /\ reply'[r] # None => phase'[r] \in {"hit", "fresh"}
             /\ phase'[r] = "hit" => reply'[r].cached
             /\ phase'[r] = "idle" => earlier'[r] = {}
             /\ phase'[r] = "fresh" => prompt'[r].topic \in Topics
  <2>1. Moves(r)
    BY <1>1
  <2>2. earlier'[r] \subseteq Answered'
    <3>1. earlier[r] \subseteq Answered /\ earlier'[r] \in {earlier[r], Answered}
      BY <2>1 DEF Moves, RepeatsInv
    <3> QED
      BY <1>4, <3>1
  <2>3. /\ reply[r] # None => phase[r] \in {"hit", "fresh"}
        /\ phase[r] = "hit" => reply[r].cached
        /\ phase[r] = "idle" => earlier[r] = {}
        /\ phase[r] \in {"stored", "fresh"} => prompt[r].topic \in Topics
    BY StoredHasTopic DEF RepeatsInv
  <2> QED
    BY <2>1, <2>2, <2>3 DEF Moves, PipelineP!Suspended
<1>6. ASSUME Quiet', NEW q \in Requests, phase'[q] \in {"stored", "fresh"}
      PROVE  value'[prompt'[q].topic] # None
  <2>1. CASE phase[q] = "store"
    <3>1. phase'[q] = "stored" /\ prompt'[q] = prompt[q]
      BY <1>1, <1>6, <2>1 DEF Moves
    <3> QED
      BY <1>6, <2>1, <3>1, QuietCache
  <2>2. CASE phase[q] # "store"
    <3>1. phase[q] \in {"stored", "fresh"} /\ prompt'[q] = prompt[q]
      BY <1>1, <1>6, <2>2 DEF Moves
    <3>2. Quiet /\ value[prompt[q].topic] # None
      BY <1>6, <3>1, QuietCache DEF RepeatsInv
    <3>3. prompt[q].topic \in Topics
      BY <3>1, StoredHasTopic DEF RepeatsInv
    <3> QED
      BY <1>6, <3>1, <3>2, <3>3, QuietCache
  <2> QED
    BY <2>1, <2>2
<1>7. ASSUME NEW q \in Requests, NEW r \in Requests, Quiet', q \in earlier'[r],
             ~reply'[q].cached, prompt'[q].topic = prompt'[r].topic
      PROVE  /\ phase'[r] \in {"lookup", "hit", "cancelled", "dropped"}
             /\ phase'[r] = "lookup" => at'[Get(r)] = "exact"
  <2>1. Moves(r)
    BY <1>1
  <2>2. CASE phase[r] = "idle" /\ earlier'[r] # earlier[r]
    BY <2>1, <2>2 DEF Moves
  <2>3. CASE phase[r] = "idle" /\ earlier'[r] = earlier[r]
    <3>1. FALSE
      BY <1>7, <2>3 DEF RepeatsInv
    <3> QED
      BY <3>1
  <2>4. CASE phase[r] # "idle"
    <3>1. earlier'[r] = earlier[r] /\ prompt'[r] = prompt[r]
      BY <2>1, <2>4 DEF Moves
    <3>2. q \in Answered
      BY <1>7, <3>1 DEF RepeatsInv
    <3>3. /\ reply'[q] = reply[q] /\ prompt'[q] = prompt[q]
          /\ phase[q] = "fresh"
      <4>1. phase[q] \in {"hit", "fresh"} /\ reply'[q] = reply[q] /\ prompt'[q] = prompt[q]
        BY <1>3, <3>2
      <4> QED
        BY <1>7, <4>1 DEF RepeatsInv
    <3>4. Quiet /\ value[prompt[r].topic] # None
      <4>1. value[prompt[q].topic] # None /\ Quiet
        BY <1>7, <3>3, QuietCache DEF RepeatsInv
      <4> QED
        BY <1>7, <3>1, <3>3, <4>1
    <3>5. /\ phase[r] \in {"lookup", "hit", "cancelled", "dropped"}
          /\ phase[r] = "lookup" => at[Get(r)] = "exact"
      BY <1>7, <3>1, <3>3, <3>4 DEF RepeatsInv
    <3>6. phase[r] = "lookup" /\ at'[Get(r)] \in {"keys", "done"}
             => at'[Get(r)] = "done" /\ result'[Get(r)] # None
      BY <1>7, <3>4, <3>5, QuietCache
    <3> QED
      BY <2>1, <3>5, <3>6 DEF Moves, PipelineP!Suspended
  <2> QED
    BY <2>2, <2>3, <2>4
<1>8. \A r \in Requests :
         /\ earlier'[r] \subseteq Answered'
         /\ reply'[r] # None => phase'[r] \in {"hit", "fresh"}
         /\ phase'[r] = "hit" => reply'[r].cached
         /\ phase'[r] = "idle" => earlier'[r] = {}
         /\ phase'[r] = "fresh" => prompt'[r].topic \in Topics
  BY <1>5
<1>9. \A q, r \in Requests :
         /\ Quiet' /\ q \in earlier'[r] /\ ~reply'[q].cached
         /\ prompt'[q].topic = prompt'[r].topic
         => /\ phase'[r] \in {"lookup", "hit", "cancelled", "dropped"}
            /\ phase'[r] = "lookup" => at'[Get(r)] = "exact"
  BY <1>7
<1> QED
  BY <1>2, <1>6, <1>8, <1>9 DEF RepeatsInv, Get

\* While no command fails and nothing expires, whoever asks again what has been
\* answered is never sent to the model: the handler that was answered had waited for
\* the write of its answer, and nothing else removes it.
THEOREM RepeatsStayFree == Spec => []RepeatsAreFree
<1>1. RepeatsInv => RepeatsAreFree
  BY DEF RepeatsInv, RepeatsAreFree, Quiet
<1> QED
  BY <1>1, InitIInv, NextIInv, InitRepeats, NextRepeats, PTL DEF Spec

-----------------------------------------------------------------------------
(* What holds of the parts holds of the whole.                             *)

\* The handlers use the cache as ResponseCache lets it be used.
THEOREM CacheRefinement == Spec => Cache!Spec
<1>1. Init => Cache!Init
  BY DEF Init
<1>2. [Next]_vars => [Cache!Next]_(Cache!vars)
  BY CacheStep
<1> QED
  BY <1>1, <1>2, PTL DEF Spec, Cache!Spec

\* So a get of any handler returns what was stored for a close enough query, the
\* latest of it as long as Redis has answered, and in that case nothing past its ttl.
THEOREM CacheHoldsInGateway ==
    Spec => [](Cache!ResponsesFit /\ Cache!ReadsLatestWrite /\ Cache!ExpiryHoldsWhileUp)
<1>1. Cache!Spec => CacheP!Spec
  BY SameCache, PTL DEF Cache!Spec, CacheP!Spec
<1>2. /\ CacheP!Spec => []CacheP!ResponsesFit
      /\ CacheP!Spec => []CacheP!ReadsLatestWrite
      /\ CacheP!Spec => []CacheP!ExpiryHoldsWhileUp
  BY CacheAssumptions, CacheP!ResponsesDoFit, CacheP!LatestWriteIsRead, CacheP!ExpiryHolds
<1>3. CacheP!ResponsesFit => Cache!ResponsesFit
  BY DEF CacheP!ResponsesFit, Cache!ResponsesFit, CacheP!Contract!AnswersFit,
         Cache!Contract!AnswersFit, CacheP!Query, Cache!Query
<1>4. /\ CacheP!ReadsLatestWrite => Cache!ReadsLatestWrite
      /\ CacheP!ExpiryHoldsWhileUp => Cache!ExpiryHoldsWhileUp
  BY DEF CacheP!ReadsLatestWrite, Cache!ReadsLatestWrite,
         CacheP!ExpiryHoldsWhileUp, Cache!ExpiryHoldsWhileUp,
         CacheP!Did, Cache!Did, CacheP!Query, Cache!Query, CacheP!Before, Cache!Before,
         CacheP!LastWriter, Cache!LastWriter, CacheP!UpSince, Cache!UpSince
<1> QED
  BY <1>1, <1>2, <1>3, <1>4, CacheRefinement, PTL

\* What was proved of the replies and of the metrics on top of a cache that may do
\* anything with the entries it was given holds on top of the real one, whatever
\* fails in it.
THEOREM EndpointHoldsInGateway ==
    Spec => [](Pipeline!Provenance /\ Pipeline!MetricsMatchOutcomes)
<1>1. Pipeline!Spec => PipelineP!Spec
  BY SamePipeline, PTL DEF Pipeline!Spec, PipelineP!Spec
<1>2. /\ PipelineP!Spec => []PipelineP!Provenance
      /\ PipelineP!Spec => []PipelineP!MetricsMatchOutcomes
  BY PipelineAssumptions, PipelineP!RepliesHaveProvenance, PipelineP!MetricsAreExact
<1>3. PipelineP!Provenance => Pipeline!Provenance
  BY DEF PipelineP!Provenance, Pipeline!Provenance,
         PipelineP!AnsweredBy, Pipeline!AnsweredBy
<1>4. PipelineP!MetricsMatchOutcomes => Pipeline!MetricsMatchOutcomes
  <2>1. \A w, phases : PipelineP!Served(w, phases) = Pipeline!Served(w, phases)
    BY DEF PipelineP!Served, Pipeline!Served, PipelineP!Cardinality, Pipeline!Cardinality
  <2> QED
    BY <2>1 DEF PipelineP!MetricsMatchOutcomes, Pipeline!MetricsMatchOutcomes,
                PipelineP!Counters, Pipeline!Counters,
                PipelineP!CountedIn, Pipeline!CountedIn,
                PipelineP!Suspended, Pipeline!Suspended, PipelineP!Ended, Pipeline!Ended,
                PipelineP!Arrived, Pipeline!Arrived
<1> QED
  BY <1>1, <1>2, <1>3, <1>4, Refinement, PTL
=============================================================================
