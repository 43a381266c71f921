---------------------------- MODULE ResponseCache ----------------------------
(***************************************************************************)
(* cache/response_cache.py: worker processes share one Redis, and each has *)
(* a dictionary of its own to fall back on.  get, set and invalidate are   *)
(* coroutines that suspend at every Redis command, so an action is one     *)
(* command and what its caller does before the next.                       *)
(*                                                                         *)
(* A command may fail at any time (Redis away, ping too late, connection   *)
(* lost), and one that fails may have been carried out all the same.  Every *)
(* failure is caught and the helper goes on with the dictionary; it makes  *)
(* no difference whether _get_redis had no client or the command raised.   *)
(***************************************************************************)
EXTENDS Integers, FiniteSets

CONSTANTS
    Calls,        \* calls of get, set and invalidate, each made once; a call
                  \* of set also stands for the response it stores
    Processes,    \* worker processes
    Queries,      \* the queries that _make_key tells apart
    Score,        \* Score[q][k]: cosine similarity of q and k, in percent
    Threshold,    \* similarity_threshold, in percent
    Workload,     \* bound: what a call may ask for, and in which process
    MaxFailures,  \* bound: how many Redis commands fail
    MaxEvents,    \* bound: how many entries expire, processes restart, calls
                  \* are cancelled and dictionaries are cleared
    None          \* no response, no query, no call

ASSUME ScoreAssumption ==
    /\ Score \in [Queries -> [Queries -> Int]]
    /\ Threshold \in Nat \ {0}

Kinds == {"get", "set", "invalidate"}
Ops == [kind : Kinds, query : Queries, process : Processes]

ASSUME WorkloadAssumption == Workload \subseteq Ops

ASSUME NoneAssumption ==
    /\ None \notin Calls \cup Queries \cup Ops
    /\ MaxFailures \in Nat
    /\ MaxEvents \in Nat

VARIABLES
    op,         \* what each call is asked to do
    at,         \* the command it is suspended at, or how it ended
    scan,       \* get: the embeddings still to compare, and the best so far
    result,     \* get: what it returned
    value,      \* Redis: the response under each query's key
    embedding,  \* Redis: the queries that have an entry "emb:<key>"
    index,      \* Redis: the queries on the list "cache:embedding_index"
    memory,     \* _memory_cache of each process: its responses ...
    memoryEmb,  \* ... and its embeddings
    failures,   \* how many commands have failed
    events,     \* how much else has happened to the cache (see MaxEvents)
    overdue,    \* calls of set whose response is older than the ttl
    past        \* history: what had happened when each call began

remote == <<value, embedding, index>>
local  == <<memory, memoryEmb>>
vars   == <<op, at, scan, result, remote, local, failures, events,
            overdue, past>>

-----------------------------------------------------------------------------
Commands == {"exact", "keys", "scan", "fetch", "write", "embed", "push", "delete"}

FirstCommand == [get |-> "exact", set |-> "write", invalidate |-> "delete"]

NoScan == [left |-> {}, best |-> None]

Query(c)   == op[c].query
Process(c) == op[c].process

Over == {c \in Calls : at[c] = "done"}

Init ==
    /\ op        = [c \in Calls |-> None]
    /\ at        = [c \in Calls |-> "idle"]
    /\ scan      = [c \in Calls |-> NoScan]
    /\ result    = [c \in Calls |-> None]
    /\ value     = [q \in Queries |-> None]
    /\ embedding = {}
    /\ index     = {}
    /\ memory    = [p \in Processes |-> [q \in Queries |-> None]]
    /\ memoryEmb = [p \in Processes |-> {}]
    /\ failures  = 0
    /\ events    = 0
    /\ overdue   = {}
    /\ past      = [c \in Calls |-> None]

Begin(c) ==
    /\ at[c] = "idle"
    /\ \E o \in Workload :
          /\ op' = [op EXCEPT ![c] = o]
          /\ at' = [at EXCEPT ![c] = FirstCommand[o.kind]]
    /\ past' = [past EXCEPT ![c] =
                  [over |-> Over, overdue |-> overdue, failures |-> failures]]
    /\ UNCHANGED <<scan, result, remote, local, failures, events, overdue>>

\* A Redis command of a call is answered, or fails.
Answered == UNCHANGED failures
Fails == failures < MaxFailures /\ failures' = failures + 1

-----------------------------------------------------------------------------
(* get                                                                     *)

\* What _get_by_key may find under the key of q: the dictionary is consulted
\* when Redis has nothing, or fails.
Found(p, q, v) ==
    \/ Answered /\ v = IF value[q] # None THEN value[q] ELSE memory[p][q]
    \/ Fails    /\ v = memory[p][q]

\* Whether the entry "emb:<key>" of q is found.
EmbeddingFound(p, q, found) ==
    \/ Answered /\ found = (q \in embedding \/ q \in memoryEmb[p])
    \/ Fails    /\ found = (q \in memoryEmb[p])

Return(c, v) ==
    /\ at' = [at EXCEPT ![c] = "done"]
    /\ scan' = [scan EXCEPT ![c] = NoScan]
    /\ result' = [result EXCEPT ![c] = v]

\* An exact match is returned; without one the semantic search begins, unless
\* _embed has no encoder or fails.
GetExact(c) ==
    /\ at[c] = "exact"
    /\ \E v \in Calls \cup {None} :
          /\ Found(Process(c), Query(c), v)
          /\ \/ Return(c, v)
             \/ /\ v = None
                /\ at' = [at EXCEPT ![c] = "keys"]
                /\ UNCHANGED <<scan, result>>
    /\ UNCHANGED <<op, remote, local, events, overdue, past>>

Close_Always(q, k) == k # None

\* The best score reaches the threshold.
Close(q, k) == k # None /\ Score[q][k] >= Threshold

\* Is k better than the best seen so far, which starts at 0.0?
Better(q, k, best) ==
    Score[q][k] > IF best = None THEN 0 ELSE Score[q][best]

\* The search goes on with the next embedding, or ends.
Continue(c, left, best) ==
    IF left = {} /\ ~Close(Query(c), best)
    THEN Return(c, None)
    ELSE /\ at' = [at EXCEPT ![c] = IF left # {} THEN "scan" ELSE "fetch"]
         /\ scan' = [scan EXCEPT ![c] = [left |-> left, best |-> best]]
         /\ UNCHANGED result

\* _get_embedding_keys: only when Redis fails are the keys of the dictionary
\* looked at.
GetKeys(c) ==
    /\ at[c] = "keys"
    /\ \/ Answered /\ Continue(c, index, None)
       \/ Fails    /\ Continue(c, memoryEmb[Process(c)], None)
    /\ UNCHANGED <<op, remote, local, events, overdue, past>>

\* The next embedding is compared.  The list's order, which matters only between
\* equal scores, is left open; comparing a key twice changes nothing.
ScanKey(c) ==
    /\ at[c] = "scan"
    /\ \E k \in scan[c].left, found \in BOOLEAN :
          /\ EmbeddingFound(Process(c), k, found)
          /\ Continue(c, scan[c].left \ {k},
                      IF found /\ Better(Query(c), k, scan[c].best)
                      THEN k ELSE scan[c].best)
    /\ UNCHANGED <<op, remote, local, events, overdue, past>>

Fetch_Key(c) ==
    /\ at[c] = "fetch"
    /\ \E v \in Calls \cup {None} : Found(Process(c), scan[c].best, v)
    /\ Return(c, scan[c].best)
    /\ UNCHANGED <<op, remote, local, events, overdue, past>>

\* The response of the best match, if it is still there.
Fetch(c) ==
    /\ at[c] = "fetch"
    /\ \E v \in Calls \cup {None} :
          Found(Process(c), scan[c].best, v) /\ Return(c, v)
    /\ UNCHANGED <<op, remote, local, events, overdue, past>>

-----------------------------------------------------------------------------
(* set and invalidate                                                      *)

SetWrite_OnlyIfAbsent(c) ==
    LET written == [value EXCEPT ![Query(c)] = IF @ = None THEN c ELSE @] IN
    /\ at[c] = "write"
    /\ \/ Answered /\ value' = written /\ UNCHANGED memory
       \/ /\ Fails
          /\ value' \in {value, written}
          /\ memory' = [memory EXCEPT ![Process(c)][Query(c)] = c]
    /\ \E next \in {"embed", "done"} : at' = [at EXCEPT ![c] = next]
    /\ UNCHANGED <<op, scan, result, embedding, index, memoryEmb, events, overdue, past>>

\* _set_by_key; without an embedding nothing else is stored.
SetWrite(c) ==
    LET written == [value EXCEPT ![Query(c)] = c] IN
    /\ at[c] = "write"
    /\ \/ Answered /\ value' = written /\ UNCHANGED memory
       \/ /\ Fails
          /\ value' \in {value, written}
          /\ memory' = [memory EXCEPT ![Process(c)][Query(c)] = c]
    /\ \E next \in {"embed", "done"} : at' = [at EXCEPT ![c] = next]
    /\ UNCHANGED <<op, scan, result, embedding, index, memoryEmb, events, overdue, past>>

\* _set_raw of the embedding.
SetEmbedding(c) ==
    LET written == embedding \cup {Query(c)} IN
    /\ at[c] = "embed"
    /\ \/ Answered /\ embedding' = written /\ UNCHANGED memoryEmb
       \/ /\ Fails
          /\ embedding' \in {embedding, written}
          /\ memoryEmb' = [memoryEmb EXCEPT ![Process(c)] = @ \cup {Query(c)}]
    /\ at' = [at EXCEPT ![c] = "push"]
    /\ UNCHANGED <<op, scan, result, value, index, memory, events, overdue, past>>

\* _list_push of its key; the dictionary has no list to fall back on.
SetPush(c) ==
    LET pushed == index \cup {Query(c)} IN
    /\ at[c] = "push"
    /\ \/ Answered /\ index' = pushed
       \/ Fails /\ index' \in {index, pushed}
    /\ at' = [at EXCEPT ![c] = "done"]
    /\ UNCHANGED <<op, scan, result, value, embedding, local, events, overdue, past>>

Invalidate_MemoryOnly(c) ==
    /\ at[c] = "delete"
    /\ Answered
    /\ memory' = [memory EXCEPT ![Process(c)][Query(c)] = None]
    /\ at' = [at EXCEPT ![c] = "done"]
    /\ UNCHANGED <<op, scan, result, remote, memoryEmb, events, overdue, past>>

\* _delete: the dictionary is spared when Redis answers.
Invalidate(c) ==
    LET deleted == [value EXCEPT ![Query(c)] = None] IN
    /\ at[c] = "delete"
    /\ \/ Answered /\ value' = deleted /\ UNCHANGED memory
       \/ /\ Fails
          /\ value' \in {value, deleted}
          /\ memory' = [memory EXCEPT ![Process(c)][Query(c)] = None]
    /\ at' = [at EXCEPT ![c] = "done"]
    /\ UNCHANGED <<op, scan, result, embedding, index, memoryEmb, events, overdue, past>>

-----------------------------------------------------------------------------
(* What else happens.                                                      *)

\* It is counted if it changes anything.
Happens ==
    /\ <<at, remote, local, overdue>>' # <<at, remote, local, overdue>>
    /\ events < MaxEvents
    /\ events' = events + 1

\* clear() and a restart of the process forget the same; clear() leaves the
\* calls alone.
Clear(p) ==
    /\ memory'    = [memory EXCEPT ![p] = [q \in Queries |-> None]]
    /\ memoryEmb' = [memoryEmb EXCEPT ![p] = {}]
    /\ UNCHANGED <<op, at, scan, result, remote, failures, overdue, past>>
    /\ Happens

Restart(p) ==
    /\ memory'    = [memory EXCEPT ![p] = [q \in Queries |-> None]]
    /\ memoryEmb' = [memoryEmb EXCEPT ![p] = {}]
    /\ at' = [c \in Calls |-> IF at[c] \in Commands /\ Process(c) = p
                              THEN "abandoned" ELSE at[c]]
    /\ UNCHANGED <<op, scan, result, remote, failures, overdue, past>>
    /\ Happens

\* The task of a call is cancelled between two commands.
Abandon(c) ==
    /\ at[c] \in Commands
    /\ at' = [at EXCEPT ![c] = "abandoned"]
    /\ UNCHANGED <<op, scan, result, remote, local, failures, overdue, past>>
    /\ Happens

TtlPasses_NoExpiry(c) ==
    /\ at[c] \in {"embed", "push", "done", "abandoned"} /\ op[c].kind = "set"
    /\ overdue' = overdue \cup {c}
    /\ UNCHANGED <<op, at, scan, result, remote, local, failures, past>>
    /\ Happens

\* ttl seconds after the response of c was stored Redis drops it (ex=self.ttl).
TtlPasses(c) ==
    /\ at[c] \in {"embed", "push", "done", "abandoned"} /\ op[c].kind = "set"
    /\ overdue' = overdue \cup {c}
    /\ value' = [q \in Queries |-> IF value[q] = c THEN None ELSE value[q]]
    /\ UNCHANGED <<op, at, scan, result, embedding, index, local, failures, past>>
    /\ Happens

\* So do the embeddings and the list, each with a ttl of its own that a later
\* set renews, unless its `expire` failed: here at any time.
EmbeddingExpires(q) ==
    /\ embedding' = embedding \ {q}
    /\ UNCHANGED <<op, at, scan, result, value, index, local, failures, overdue, past>>
    /\ Happens

IndexExpires ==
    /\ index' = {}
    /\ UNCHANGED <<op, at, scan, result, value, embedding, local, failures, overdue, past>>
    /\ Happens

Next ==
    \/ \E c \in Calls :
          \/ Begin(c) \/ Abandon(c) \/ TtlPasses(c)
          \/ GetExact(c) \/ GetKeys(c) \/ ScanKey(c) \/ Fetch(c)
          \/ SetWrite(c) \/ SetEmbedding(c) \/ SetPush(c)
          \/ Invalidate(c)
    \/ \E p \in Processes : Clear(p) \/ Restart(p)
    \/ \E q \in Queries : EmbeddingExpires(q)
    \/ IndexExpires

Spec == Init /\ [][Next]_vars

-----------------------------------------------------------------------------
(* Properties.                                                             *)

TypeOK ==
    /\ op \in [Calls -> Ops \cup {None}]
    /\ at \in [Calls -> Commands \cup {"idle", "done", "abandoned"}]
    /\ scan \in [Calls -> [left : SUBSET Queries, best : Queries \cup {None}]]
    /\ result \in [Calls -> Calls \cup {None}]
    /\ value \in [Queries -> Calls \cup {None}]
    /\ embedding \subseteq Queries
    /\ index \subseteq Queries
    /\ memory \in [Processes -> [Queries -> Calls \cup {None}]]
    /\ memoryEmb \in [Processes -> SUBSET Queries]
    /\ failures \in 0..MaxFailures
    /\ events \in 0..MaxEvents
    /\ overdue \subseteq Calls
    /\ past \in [Calls -> [over : SUBSET Calls, overdue : SUBSET Calls,
                           failures : 0..MaxFailures] \cup {None}]

Did(c, kind) == at[c] = "done" /\ op[c].kind = kind

\* Call d was over when c began.
Before(d, c) == d \in past[c].over

\* No command has failed since call c began.
UpSince(c) == past[c].failures = failures

\* Every call of set or invalidate for the query of c, other than c itself, was
\* over when c began.
LastWriter(c) ==
    \A d \in Calls \ {c} :
        op[d] # None /\ op[d].kind # "get" /\ Query(d) = Query(c) => Before(d, c)

\* Read your writes: while Redis has answered every command since a set began
\* that nobody has followed up, each get in whatever process that begins after
\* the set returns what it stored, until the ttl has passed; leftovers of earlier
\* outages in a dictionary do not show through, and no semantic match does.
ReadsLatestWrite ==
    \A s, g \in Calls :
        /\ Did(s, "set") /\ Did(g, "get") /\ Query(s) = Query(g)
        /\ Before(s, g) /\ LastWriter(s) /\ UpSince(s) /\ s \notin overdue
        => result[g] = s

\* What an invalidate leaves: a get that begins after it, if all the sets for that
\* query were over before it, finds none of what they stored.
Removed(i) ==
    \A g, s \in Calls :
        /\ Did(g, "get") /\ Before(i, g)
        /\ op[s] # None /\ Query(s) = Query(i) /\ Before(s, i)
        => result[g] # s

\* While Redis has never failed, invalidate removes the entry for all processes,
\* exact and semantic lookups alike.
InvalidateRemovesWhileUp ==
    failures = 0 => \A i \in Calls : Did(i, "invalidate") => Removed(i)

\* While Redis has never failed, no get returns a response whose ttl had passed
\* when it began.
ExpiryHoldsWhileUp ==
    failures = 0 =>
        \A g \in Calls : Did(g, "get") => result[g] \notin past[g].overdue

\* "Remove the cache entry for *query*.": an invalidate since which Redis has
\* answered every command leaves no response stored for its query before.
InvalidateRemoves ==
    \A i \in Calls : Did(i, "invalidate") /\ UpSince(i) => Removed(i)

\* "ttl: Time-to-live for cached entries in seconds.": no get returns a response
\* whose ttl had passed when it began.
ServedWithinTtl ==
    \A g \in Calls : Did(g, "get") => result[g] \notin past[g].overdue

Contract == INSTANCE CacheContract WITH
    Alike    <- [q \in Queries |-> {q} \cup {k \in Queries : Score[q][k] >= Threshold}],
    pending  <- {c \in Calls : at[c] = "write"},
    servable <- {e \in Queries \X Calls :
                   \/ value[e[1]] = e[2]
                   \/ \E p \in Processes : memory[p][e[1]] = e[2]},
    asked    <- [c \in Calls |-> IF op[c] = None THEN None ELSE Query(c)]

\* Whatever process stored it, in Redis or in its dictionary, and whatever has been
\* replaced, lost or left behind since: what a get returns was stored for a query
\* whose score reaches the threshold.
ResponsesFit == Contract!AnswersFit

\* Whatever fails and whenever: a get returns only what the cache still holds for
\* a query that is close enough when its last command is answered, and nothing
\* that was dropped comes back.
ImplementsCacheContract == Contract!Spec

=============================================================================
