------------------------- MODULE ResponseCacheProofs -------------------------
(***************************************************************************)
(* That ResponseCache implements CacheContract, for any number of calls,   *)
(* processes, queries and failing Redis commands.                          *)
(***************************************************************************)
EXTENDS ResponseCache, TLAPS

-----------------------------------------------------------------------------
(* The inductive invariant.                                                *)

\* Where a call can be, what it is, and what it has to show for it.
CallsInPlace ==
    \A c \in Calls :
        /\ at[c] = "idle" <=> op[c] = None
        /\ at[c] \in {"idle", "exact", "keys", "scan", "fetch"} => result[c] = None
        /\ at[c] = "fetch" => Close(Query(c), scan[c].best)

IInv == TypeOK /\ CallsInPlace

LEMMA OpOfCall ==
    ASSUME IInv, NEW c \in Calls, at[c] # "idle"
    PROVE  op[c] \in Ops /\ Query(c) \in Queries /\ Process(c) \in Processes
<1>1. op[c] \in Ops
  BY DEF IInv, TypeOK, CallsInPlace
<1> QED
  BY <1>1 DEF Ops, Query, Process

-----------------------------------------------------------------------------
(* Every action preserves it.                                              *)

LEMMA InitIInv == Init => IInv
<1> SUFFICES ASSUME Init PROVE IInv
  OBVIOUS
<1>1. NoScan \in [left : SUBSET Queries, best : Queries \cup {None}]
  BY DEF NoScan
<1>2. TypeOK
  BY <1>1, NoneAssumption DEF Init, TypeOK
<1>3. CallsInPlace
  BY DEF Init, CallsInPlace
<1> QED
  BY <1>2, <1>3 DEF IInv

LEMMA BeginStep ==
    ASSUME IInv, NEW c \in Calls, Begin(c)
    PROVE  IInv'
<1>1. PICK o \in Workload :
         /\ op' = [op EXCEPT ![c] = o]
         /\ at' = [at EXCEPT ![c] = FirstCommand[o.kind]]
  BY DEF Begin
<1>2. o \in Ops /\ o # None /\ o.kind \in Kinds
  BY <1>1, WorkloadAssumption, NoneAssumption DEF Ops
<1>3. FirstCommand[o.kind] \in {"exact", "write", "delete"}
  BY <1>2 DEF FirstCommand, Kinds
<1>4. [over |-> Over, overdue |-> overdue, failures |-> failures]
        \in [over : SUBSET Calls, overdue : SUBSET Calls, failures : 0..MaxFailures]
  BY DEF Over, IInv, TypeOK
<1>5. TypeOK'
  BY <1>1, <1>2, <1>3, <1>4 DEF IInv, TypeOK, Begin, Commands, remote, local
<1>6. CallsInPlace'
  BY <1>1, <1>2, <1>3 DEF IInv, TypeOK, CallsInPlace, Begin, Query
<1> QED
  BY <1>5, <1>6 DEF IInv

\* What a command does to the count of failures.
LEMMA FailuresCounted ==
    ASSUME TypeOK, Answered \/ Fails
    PROVE  failures' \in 0..MaxFailures
BY NoneAssumption DEF TypeOK, Answered, Fails

\* The steps of get: they move the call itself, and answer it at most once.
LEMMA GetStep ==
    ASSUME IInv, NEW c \in Calls,
           at[c] \in {"exact", "keys", "scan", "fetch"},
           Answered \/ Fails,
           UNCHANGED <<op, remote, local, events, overdue, past>>,
           NEW next, at' = [at EXCEPT ![c] = next],
           NEW new \in [left : SUBSET Queries, best : Queries \cup {None}],
           scan' = [scan EXCEPT ![c] = new],
           NEW v \in Calls \cup {None}, result' = [result EXCEPT ![c] = v],
           \/ next \in {"keys", "scan"} /\ v = None
           \/ next = "fetch" /\ v = None /\ Close(Query(c), new.best)
           \/ next = "done"
    PROVE  IInv'
<1>1. TypeOK'
  BY FailuresCounted DEF IInv, TypeOK, Commands, remote, local
<1>2. CallsInPlace'
  <2> SUFFICES ASSUME NEW d \in Calls
               PROVE  /\ at'[d] = "idle" <=> op'[d] = None
                      /\ at'[d] \in {"idle", "exact", "keys", "scan", "fetch"}
                            => result'[d] = None
                      /\ at'[d] = "fetch" => Close(op'[d].query, scan'[d].best)
    BY DEF CallsInPlace, Query, Close
  <2>1. CASE d = c
    BY <2>1 DEF IInv, TypeOK, CallsInPlace, Query
  <2>2. CASE d # c
    BY <2>2 DEF IInv, TypeOK, CallsInPlace, Query
  <2> QED
    BY <2>1, <2>2
<1> QED
  BY <1>1, <1>2 DEF IInv

\* The same from Return and Continue.
LEMMA ReturnStep ==
    ASSUME IInv, NEW c \in Calls, at[c] \in {"exact", "keys", "scan", "fetch"},
           Answered \/ Fails,
           UNCHANGED <<op, remote, local, events, overdue, past>>,
           NEW v \in Calls \cup {None}, Return(c, v)
    PROVE  IInv'
<1>1. NoScan \in [left : SUBSET Queries, best : Queries \cup {None}]
  BY DEF NoScan
<1>2. /\ at' = [at EXCEPT ![c] = "done"]
      /\ scan' = [scan EXCEPT ![c] = NoScan]
      /\ result' = [result EXCEPT ![c] = v]
  BY DEF Return
<1> QED
  BY <1>1, <1>2, GetStep

LEMMA ContinueStep ==
    ASSUME IInv, NEW c \in Calls, at[c] \in {"keys", "scan"},
           Answered \/ Fails,
           UNCHANGED <<op, remote, local, events, overdue, past>>,
           NEW left \in SUBSET Queries, NEW best \in Queries \cup {None},
           Continue(c, left, best)
    PROVE  IInv'
<1>1. CASE left = {} /\ ~Close(Query(c), best)
  BY <1>1, ReturnStep DEF Continue
<1>2. CASE ~(left = {} /\ ~Close(Query(c), best))
  <2> DEFINE next == IF left # {} THEN "scan" ELSE "fetch"
             new  == [left |-> left, best |-> best]
  <2>1. /\ at' = [at EXCEPT ![c] = next]
        /\ scan' = [scan EXCEPT ![c] = new]
        /\ UNCHANGED result
    BY <1>2 DEF Continue
  <2>2. new \in [left : SUBSET Queries, best : Queries \cup {None}] /\ new.best = best
    OBVIOUS
  <2>3. result' = [result EXCEPT ![c] = None]
    BY <2>1 DEF IInv, TypeOK, CallsInPlace
  <2>4. \/ next \in {"keys", "scan"}
        \/ next = "fetch" /\ Close(Query(c), new.best)
    BY <1>2, <2>2
  <2> HIDE DEF next, new
  <2> QED
    BY <2>1, <2>2, <2>3, <2>4, GetStep
<1> QED
  BY <1>1, <1>2

LEMMA GetExactStep ==
    ASSUME IInv, NEW c \in Calls, GetExact(c)
    PROVE  IInv'
<1>1. PICK v \in Calls \cup {None} :
         /\ Found(Process(c), Query(c), v)
         /\ \/ Return(c, v)
            \/ /\ v = None
               /\ at' = [at EXCEPT ![c] = "keys"]
               /\ UNCHANGED <<scan, result>>
  BY DEF GetExact
<1>2. Answered \/ Fails
  BY <1>1 DEF Found
<1>3. at[c] = "exact" /\ UNCHANGED <<op, remote, local, events, overdue, past>>
  BY DEF GetExact
<1>4. CASE Return(c, v)
  BY <1>2, <1>3, <1>4, ReturnStep
<1>5. CASE at' = [at EXCEPT ![c] = "keys"] /\ UNCHANGED <<scan, result>>
  <2>1. /\ scan[c] \in [left : SUBSET Queries, best : Queries \cup {None}]
        /\ scan' = [scan EXCEPT ![c] = scan[c]]
        /\ result' = [result EXCEPT ![c] = None]
    BY <1>3, <1>5 DEF IInv, TypeOK, CallsInPlace
  <2> QED
    BY <1>2, <1>3, <1>5, <2>1, GetStep
<1> QED
  BY <1>1, <1>4, <1>5

LEMMA GetKeysStep ==
    ASSUME IInv, NEW c \in Calls, GetKeys(c)
    PROVE  IInv'
<1>1. at[c] = "keys" /\ UNCHANGED <<op, remote, local, events, overdue, past>>
  BY DEF GetKeys
<1>2. index \subseteq Queries /\ memoryEmb[Process(c)] \subseteq Queries
  BY <1>1, OpOfCall DEF IInv, TypeOK
<1> QED
  BY <1>1, <1>2, ContinueStep DEF GetKeys

LEMMA ScanKeyStep ==
    ASSUME IInv, NEW c \in Calls, ScanKey(c)
    PROVE  IInv'
<1>1. at[c] = "scan" /\ UNCHANGED <<op, remote, local, events, overdue, past>>
  BY DEF ScanKey
<1>2. scan[c].left \subseteq Queries /\ scan[c].best \in Queries \cup {None}
  BY DEF IInv, TypeOK
<1>3. PICK k \in scan[c].left, found \in BOOLEAN :
         /\ EmbeddingFound(Process(c), k, found)
         /\ Continue(c, scan[c].left \ {k},
                     IF found /\ Better(Query(c), k, scan[c].best)
                     THEN k ELSE scan[c].best)
  BY DEF ScanKey
<1>4. Answered \/ Fails
  BY <1>3 DEF EmbeddingFound
<1> DEFINE best == IF found /\ Better(Query(c), k, scan[c].best)
                   THEN k ELSE scan[c].best
           left == scan[c].left \ {k}
<1>5. best \in Queries \cup {None} /\ left \in SUBSET Queries
  BY <1>2
<1>6. Continue(c, left, best)
  BY <1>3
<1> HIDE DEF best, left
<1> QED
  BY <1>1, <1>4, <1>5, <1>6, ContinueStep

LEMMA FetchStep ==
    ASSUME IInv, NEW c \in Calls, Fetch(c)
    PROVE  IInv'
<1>1. PICK v \in Calls \cup {None} : Found(Process(c), scan[c].best, v) /\ Return(c, v)
  BY DEF Fetch
<1>2. Answered \/ Fails
  BY <1>1 DEF Found
<1>3. at[c] = "fetch" /\ UNCHANGED <<op, remote, local, events, overdue, past>>
  BY DEF Fetch
<1> QED
  BY <1>1, <1>2, <1>3, ReturnStep

\* The steps that only move calls of set and invalidate, or end calls.
LEMMA CallsKept ==
    ASSUME IInv, UNCHANGED <<op, scan, result>>,
           \A c \in Calls : \/ at'[c] = at[c]
                            \/ /\ at[c] # "idle"
                               /\ at'[c] \in {"embed", "push", "done", "abandoned"}
    PROVE  CallsInPlace'
<1> SUFFICES ASSUME NEW d \in Calls
             PROVE  /\ at'[d] = "idle" <=> op'[d] = None
                    /\ at'[d] \in {"idle", "exact", "keys", "scan", "fetch"}
                          => result'[d] = None
                    /\ at'[d] = "fetch" => Close(op'[d].query, scan'[d].best)
  BY DEF CallsInPlace, Query, Close
<1> QED
  BY DEF IInv, CallsInPlace, Query

\* One entry of a dictionary changes.
LEMMA MemoryEntry ==
    ASSUME TypeOK, NEW p \in Processes, NEW q \in Queries,
           NEW v \in Calls \cup {None}, memory' = [memory EXCEPT ![p][q] = v]
    PROVE  /\ memory' \in [Processes -> [Queries -> Calls \cup {None}]]
           /\ \A o \in Processes, k \in Queries :
                 memory'[o][k] = IF o = p /\ k = q THEN v ELSE memory[o][k]
<1> DEFINE row == [memory[p] EXCEPT ![q] = v]
<1>1. memory \in [Processes -> [Queries -> Calls \cup {None}]]
  BY DEF TypeOK
<1>2. memory[p] \in [Queries -> Calls \cup {None}]
  BY <1>1
<1>3. /\ row \in [Queries -> Calls \cup {None}]
      /\ \A k \in Queries : row[k] = IF k = q THEN v ELSE memory[p][k]
  BY <1>2
<1>4. memory' = [memory EXCEPT ![p] = row]
  OBVIOUS
<1> HIDE DEF row
<1> QED
  BY <1>1, <1>3, <1>4

LEMMA SetWriteStep ==
    ASSUME IInv, NEW c \in Calls, SetWrite(c)
    PROVE  IInv'
<1>1. at[c] = "write" /\ Query(c) \in Queries /\ Process(c) \in Processes
  BY OpOfCall DEF SetWrite
<1>2. value' \in [Queries -> Calls \cup {None}]
  BY <1>1 DEF IInv, TypeOK, SetWrite
<1>3. memory' \in [Processes -> [Queries -> Calls \cup {None}]]
  <2>1. \/ UNCHANGED memory
        \/ memory' = [memory EXCEPT ![Process(c)][Query(c)] = c]
    BY DEF SetWrite
  <2>2. TypeOK
    BY DEF IInv
  <2> QED
    BY <1>1, <2>1, <2>2, MemoryEntry DEF TypeOK
<1>4. PICK next \in {"embed", "done"} : at' = [at EXCEPT ![c] = next]
  BY DEF SetWrite
<1>5. Answered \/ Fails
  BY DEF SetWrite
<1>6. TypeOK'
  BY <1>2, <1>3, <1>4, <1>5, FailuresCounted DEF IInv, TypeOK, SetWrite, Commands
<1>7. CallsInPlace'
  BY <1>1, <1>4, CallsKept DEF IInv, TypeOK, SetWrite
<1> QED
  BY <1>6, <1>7 DEF IInv

LEMMA SetEmbeddingStep ==
    ASSUME IInv, NEW c \in Calls, SetEmbedding(c)
    PROVE  IInv'
<1>1. at[c] = "embed" /\ Query(c) \in Queries /\ Process(c) \in Processes
  BY OpOfCall DEF SetEmbedding
<1>2. embedding' \subseteq Queries
  BY <1>1 DEF IInv, TypeOK, SetEmbedding
<1>3. memoryEmb' \in [Processes -> SUBSET Queries]
  BY <1>1 DEF IInv, TypeOK, SetEmbedding
<1>4. Answered \/ Fails
  BY DEF SetEmbedding
<1>5. TypeOK'
  BY <1>2, <1>3, <1>4, FailuresCounted DEF IInv, TypeOK, SetEmbedding, Commands
<1>6. CallsInPlace'
  BY <1>1, CallsKept DEF IInv, TypeOK, SetEmbedding
<1> QED
  BY <1>5, <1>6 DEF IInv

LEMMA SetPushStep ==
    ASSUME IInv, NEW c \in Calls, SetPush(c)
    PROVE  IInv'
<1>1. at[c] = "push" /\ Query(c) \in Queries
  BY OpOfCall DEF SetPush
<1>2. index' \subseteq Queries /\ (Answered \/ Fails)
  BY <1>1 DEF IInv, TypeOK, SetPush
<1>3. TypeOK'
  BY <1>2, FailuresCounted DEF IInv, TypeOK, SetPush, Commands, local
<1>4. CallsInPlace'
  BY <1>1, CallsKept DEF IInv, TypeOK, SetPush
<1> QED
  BY <1>3, <1>4 DEF IInv

LEMMA InvalidateStep ==
    ASSUME IInv, NEW c \in Calls, Invalidate(c)
    PROVE  IInv'
<1>1. at[c] = "delete" /\ Query(c) \in Queries /\ Process(c) \in Processes
  BY OpOfCall DEF Invalidate
<1>2. value' \in [Queries -> Calls \cup {None}]
  BY <1>1 DEF IInv, TypeOK, Invalidate
<1>3. memory' \in [Processes -> [Queries -> Calls \cup {None}]]
  <2>1. \/ UNCHANGED memory
        \/ memory' = [memory EXCEPT ![Process(c)][Query(c)] = None]
    BY DEF Invalidate
  <2>2. TypeOK
    BY DEF IInv
  <2> QED
    BY <1>1, <2>1, <2>2, MemoryEntry DEF TypeOK
<1>4. Answered \/ Fails
  BY DEF Invalidate
<1>5. TypeOK'
  BY <1>2, <1>3, <1>4, FailuresCounted DEF IInv, TypeOK, Invalidate, Commands
<1>6. CallsInPlace'
  BY <1>1, CallsKept DEF IInv, TypeOK, Invalidate
<1> QED
  BY <1>5, <1>6 DEF IInv

\* Expiry, cancellation, clear and restart.
Event ==
    \/ \E c \in Calls : Abandon(c) \/ TtlPasses(c)
    \/ \E p \in Processes : Clear(p) \/ Restart(p)
    \/ \E q \in Queries : EmbeddingExpires(q)
    \/ IndexExpires

LEMMA EventStep ==
    ASSUME IInv, Event
    PROVE  IInv'
<1>1. UNCHANGED <<op, scan, result, failures, past>>
  BY DEF Event, Abandon, TtlPasses, Clear, Restart, EmbeddingExpires, IndexExpires
<1>2. events' \in 0..MaxEvents
  <2>1. Happens
    BY DEF Event, Abandon, TtlPasses, Clear, Restart, EmbeddingExpires, IndexExpires
  <2> QED
    BY <2>1, NoneAssumption DEF IInv, TypeOK, Happens
<1>3. /\ at' \in [Calls -> Commands \cup {"idle", "done", "abandoned"}]
      /\ \A c \in Calls : \/ at'[c] = at[c]
                          \/ at[c] # "idle" /\ at'[c] = "abandoned"
  BY DEF IInv, TypeOK, Event, Abandon, TtlPasses, Clear, Restart, EmbeddingExpires,
     IndexExpires, Commands
<1>4. /\ value' \in [Queries -> Calls \cup {None}]
      /\ embedding' \subseteq Queries /\ index' \subseteq Queries
      /\ overdue' \subseteq Calls
  BY DEF IInv, TypeOK, Event, Abandon, TtlPasses, Clear, Restart, EmbeddingExpires,
     IndexExpires, remote
<1>5. /\ memory' \in [Processes -> [Queries -> Calls \cup {None}]]
      /\ memoryEmb' \in [Processes -> SUBSET Queries]
  <2> DEFINE empty == [q \in Queries |-> None]
  <2>1. empty \in [Queries -> Calls \cup {None}]
    OBVIOUS
  <2>2. \/ UNCHANGED local
        \/ \E p \in Processes : /\ memory' = [memory EXCEPT ![p] = empty]
                                 /\ memoryEmb' = [memoryEmb EXCEPT ![p] = {}]
    BY DEF Event, Abandon, TtlPasses, Clear, Restart, EmbeddingExpires, IndexExpires
  <2> HIDE DEF empty
  <2> QED
    BY <2>1, <2>2 DEF IInv, TypeOK, local
<1>6. TypeOK'
  BY <1>1, <1>2, <1>3, <1>4, <1>5 DEF IInv, TypeOK
<1>7. CallsInPlace'
  BY <1>1, <1>3, CallsKept
<1> QED
  BY <1>6, <1>7 DEF IInv

LEMMA NextIInv == IInv /\ [Next]_vars => IInv'
<1> SUFFICES ASSUME IInv, [Next]_vars PROVE IInv'
  OBVIOUS
<1>1. ASSUME NEW c \in Calls,
             \/ Begin(c) \/ GetExact(c) \/ GetKeys(c) \/ ScanKey(c) \/ Fetch(c)
      PROVE  IInv'
  BY <1>1, BeginStep, GetExactStep, GetKeysStep, ScanKeyStep, FetchStep
<1>2. ASSUME NEW c \in Calls,
             \/ SetWrite(c) \/ SetEmbedding(c) \/ SetPush(c) \/ Invalidate(c)
      PROVE  IInv'
  BY <1>2, SetWriteStep, SetEmbeddingStep, SetPushStep, InvalidateStep
<1>3. CASE Event
  BY <1>3, EventStep
<1>4. CASE UNCHANGED vars
  BY <1>4 DEF vars, remote, local, IInv, TypeOK, CallsInPlace, Query
<1> QED
  BY <1>1, <1>2, <1>3, <1>4 DEF Next, Event

\* The inductive invariant.
THEOREM Invariance == Spec => []IInv
BY InitIInv, NextIInv, PTL DEF Spec

\* Type correctness: what Redis and the dictionaries hold under the key of a query
\* is a response that a call of set was given, never an embedding or a key.
THEOREM TypeCorrect == Spec => []TypeOK
<1>1. IInv => TypeOK
  BY DEF IInv
<1> QED
  BY <1>1, Invariance, PTL

-----------------------------------------------------------------------------
(* What one step does to a call, to Redis and to the dictionaries.         *)

GetCommands == {"exact", "keys", "scan", "fetch"}

\* A call begins, with what had happened by then.
Begun(c) ==
    /\ at[c] = "idle"
    /\ op'[c] \in Ops /\ at'[c] = FirstCommand[op'[c].kind]
    /\ past'[c] = [over |-> Over, overdue |-> overdue, failures |-> failures]

\* A call goes from one place to another, if it moves at all.
Moved(c) ==
    \/ at'[c] = at[c] /\ result'[c] = result[c]
    \/ at[c] \in Commands /\ at'[c] = "abandoned"
    \/ at[c] = "exact" /\ at'[c] \in {"keys", "done"}
    \/ at[c] \in GetCommands \ {"exact"} /\ at'[c] \in {"scan", "fetch", "done"}
    \/ at[c] = "write" /\ at'[c] \in {"embed", "done"}
    \/ at[c] = "embed" /\ at'[c] = "push"
    \/ at[c] = "push" /\ at'[c] = "done"
    \/ at[c] = "delete" /\ at'[c] = "done"

LEMMA ReturnMoves ==
    ASSUME IInv, NEW c \in Calls, at[c] \in GetCommands,
           \/ \E v : Return(c, v)
           \/ at[c] = "exact" /\ at' = [at EXCEPT ![c] = "keys"] /\ UNCHANGED result
           \/ at[c] # "exact" /\ \E left, best : Continue(c, left, best)
    PROVE  \A d \in Calls : Moved(d)
BY DEF IInv, TypeOK, Return, Continue, Moved, GetCommands

LEMMA CallsMove ==
    ASSUME IInv, [Next]_vars, NEW d \in Calls
    PROVE  \/ Begun(d)
           \/ op'[d] = op[d] /\ past'[d] = past[d] /\ Moved(d)
<1>1. ASSUME NEW c \in Calls, Begin(c)
      PROVE  \/ Begun(d)
             \/ op'[d] = op[d] /\ past'[d] = past[d] /\ Moved(d)
  <2>1. CASE d = c
    <3>1. PICK o \in Workload : /\ op' = [op EXCEPT ![c] = o]
                                /\ at' = [at EXCEPT ![c] = FirstCommand[o.kind]]
      BY <1>1 DEF Begin
    <3>2. op'[d] = o /\ at'[d] = FirstCommand[o.kind] /\ o \in Ops
      BY <2>1, <3>1, WorkloadAssumption DEF IInv, TypeOK
    <3> QED
      BY <1>1, <2>1, <3>2 DEF IInv, TypeOK, Begin, Begun
  <2>2. CASE d # c
    BY <1>1, <2>2 DEF IInv, TypeOK, Begin, Moved
  <2> QED
    BY <2>1, <2>2
<1>2. ASSUME NEW c \in Calls, GetExact(c) \/ GetKeys(c) \/ ScanKey(c) \/ Fetch(c)
      PROVE  op'[d] = op[d] /\ past'[d] = past[d] /\ Moved(d)
  <2>1. UNCHANGED <<op, past>> /\ at[c] \in GetCommands
    BY <1>2 DEF GetExact, GetKeys, ScanKey, Fetch, GetCommands
  <2>2. \/ \E v : Return(c, v)
        \/ at[c] = "exact" /\ at' = [at EXCEPT ![c] = "keys"] /\ UNCHANGED result
        \/ at[c] # "exact" /\ \E left, best : Continue(c, left, best)
    BY <1>2 DEF GetExact, GetKeys, ScanKey, Fetch
  <2> QED
    BY <2>1, <2>2, ReturnMoves
<1>3. ASSUME NEW c \in Calls,
             SetWrite(c) \/ SetEmbedding(c) \/ SetPush(c) \/ Invalidate(c)
      PROVE  op'[d] = op[d] /\ past'[d] = past[d] /\ Moved(d)
  <2>1. UNCHANGED <<op, past, result>>
    BY <1>3 DEF SetWrite, SetEmbedding, SetPush, Invalidate
  <2>2. \/ at[c] = "write" /\ \E next \in {"embed", "done"} : at' = [at EXCEPT ![c] = next]
        \/ at[c] = "embed" /\ at' = [at EXCEPT ![c] = "push"]
        \/ at[c] \in {"push", "delete"} /\ at' = [at EXCEPT ![c] = "done"]
    BY <1>3 DEF SetWrite, SetEmbedding, SetPush, Invalidate
  <2> QED
    BY <2>1, <2>2 DEF IInv, TypeOK, Moved
<1>4. CASE Event
  <2>1. UNCHANGED <<op, past, result>>
    BY <1>4 DEF Event, Abandon, TtlPasses, Clear, Restart, EmbeddingExpires, IndexExpires
  <2>2. at'[d] = at[d] \/ (at[d] \in Commands /\ at'[d] = "abandoned")
    <3>1. ASSUME NEW c \in Calls, Abandon(c) PROVE at[c] \in Commands
      BY <3>1 DEF Abandon
    <3> QED
      BY <1>4, <3>1 DEF IInv, TypeOK, Event, Abandon, TtlPasses, Clear, Restart,
         EmbeddingExpires, IndexExpires
  <2> QED
    BY <2>1, <2>2 DEF Moved
<1>5. CASE UNCHANGED vars
  BY <1>5 DEF vars, Moved
<1> QED
  BY <1>1, <1>2, <1>3, <1>4, <1>5 DEF Next, Event

\* Failures are counted, and what is overdue stays so.
LEMMA TimePasses ==
    ASSUME IInv, [Next]_vars
    PROVE  /\ failures \in Nat /\ failures' \in Nat /\ failures <= failures'
           /\ overdue \subseteq overdue'
<1>1. failures' = failures \/ failures' = failures + 1
  BY DEF Next, vars, Begin, GetExact, GetKeys, ScanKey, Fetch, Found, EmbeddingFound,
     SetWrite, SetEmbedding, SetPush, Invalidate, Abandon, TtlPasses, Clear, Restart,
     EmbeddingExpires, IndexExpires, Answered, Fails
<1>2. overdue \subseteq overdue'
  BY DEF Next, vars, Begin, GetExact, GetKeys, ScanKey, Fetch,
     SetWrite, SetEmbedding, SetPush, Invalidate, Abandon, TtlPasses, Clear, Restart,
     EmbeddingExpires, IndexExpires
<1> QED
  BY <1>1, <1>2, NoneAssumption DEF IInv, TypeOK

\* How the response under a key changes.
LEMMA RedisChanges ==
    ASSUME IInv, [Next]_vars, NEW q \in Queries
    PROVE  \/ value'[q] = value[q]
           \/ \E c \in Calls : /\ at[c] = "write" /\ at'[c] \in {"embed", "done"}
                               /\ Query(c) = q /\ value'[q] = c
           \/ \E c \in Calls : /\ at[c] = "delete" /\ Query(c) = q
                               /\ value'[q] = None
           \/ value[q] \in overdue' /\ value'[q] = None
<1>1. ASSUME NEW c \in Calls, SetWrite(c)
      PROVE  value'[q] = value[q] \/ (Query(c) = q /\ value'[q] = c)
  <2>1. value' = value \/ value' = [value EXCEPT ![Query(c)] = c]
    BY <1>1 DEF SetWrite
  <2> QED
    BY <2>1 DEF IInv, TypeOK
<1>2. ASSUME NEW c \in Calls, SetWrite(c)
      PROVE  at[c] = "write" /\ at'[c] \in {"embed", "done"}
  BY <1>2 DEF IInv, TypeOK, SetWrite
<1>3. ASSUME NEW c \in Calls, Invalidate(c)
      PROVE  /\ at[c] = "delete"
             /\ value'[q] = value[q] \/ (Query(c) = q /\ value'[q] = None)
  <2>1. value' = value \/ value' = [value EXCEPT ![Query(c)] = None]
    BY <1>3 DEF Invalidate
  <2>2. at[c] = "delete"
    BY <1>3 DEF Invalidate
  <2> QED
    BY <2>1, <2>2 DEF IInv, TypeOK
<1>4. ASSUME NEW c \in Calls, TtlPasses(c)
      PROVE  value'[q] = value[q] \/ (value[q] \in overdue' /\ value'[q] = None)
  BY <1>4 DEF TtlPasses
<1>5. CASE /\ ~\E c \in Calls : SetWrite(c) \/ Invalidate(c) \/ TtlPasses(c)
  BY <1>5 DEF Next, vars, remote, Begin, GetExact, GetKeys, ScanKey, Fetch,
     SetEmbedding, SetPush, Abandon, Clear, Restart, EmbeddingExpires, IndexExpires
<1> QED
  BY <1>1, <1>2, <1>3, <1>4, <1>5

\* A command that Redis answers has its effect.
LEMMA AnsweredTakesEffect ==
    ASSUME IInv, [Next]_vars, failures' = failures, NEW c \in Calls
    PROVE  /\ at[c] = "write" /\ at'[c] \in {"embed", "done"} => value'[Query(c)] = c
           /\ at[c] = "delete" /\ at'[c] = "done" => value'[Query(c)] = None
           /\ at[c] = "exact" /\ at'[c] \in {"keys", "done"} /\ value[Query(c)] # None
                => at'[c] = "done" /\ result'[c] = value[Query(c)]
<1>1. ~Fails
  BY DEF IInv, TypeOK, Fails
<1>2. ASSUME NEW d \in Calls, d # c,
             \/ Begin(d) \/ GetExact(d) \/ GetKeys(d) \/ ScanKey(d) \/ Fetch(d)
             \/ SetWrite(d) \/ SetEmbedding(d) \/ SetPush(d) \/ Invalidate(d)
      PROVE  at'[c] = at[c]
  BY <1>2 DEF IInv, TypeOK, Begin, GetExact, GetKeys, ScanKey, Fetch, Return, Continue,
     SetWrite, SetEmbedding, SetPush, Invalidate
<1>3. CASE Event \/ UNCHANGED vars
  BY <1>3 DEF IInv, TypeOK, vars, Event, Abandon, TtlPasses, Clear, Restart,
     EmbeddingExpires, IndexExpires
<1>4. at[c] # "idle" => Query(c) \in Queries
  BY OpOfCall
<1>5. CASE Begin(c) \/ GetKeys(c) \/ ScanKey(c) \/ Fetch(c) \/ SetEmbedding(c) \/ SetPush(c)
  BY <1>5 DEF Begin, GetKeys, ScanKey, Fetch, SetEmbedding, SetPush
<1>6. CASE SetWrite(c)
  BY <1>1, <1>4, <1>6 DEF IInv, TypeOK, SetWrite
<1>7. CASE Invalidate(c)
  BY <1>1, <1>4, <1>7 DEF IInv, TypeOK, Invalidate
<1>8. CASE GetExact(c)
  BY <1>1, <1>4, <1>8 DEF IInv, TypeOK, GetExact, Found, Return
<1> QED
  BY <1>2, <1>3, <1>5, <1>6, <1>7, <1>8 DEF Next, Event

\* Where the result of a get comes from.
LEMMA ReadsFrom ==
    ASSUME IInv, [Next]_vars, NEW c \in Calls,
           at[c] \in GetCommands, at'[c] = "done"
    PROVE  \/ result'[c] = None
           \/ \E q \in Queries :
                 \/ result'[c] = value[q]
                 \/ \E p \in Processes : result'[c] = memory[p][q]
<1>1. GetExact(c) \/ GetKeys(c) \/ ScanKey(c) \/ Fetch(c)
  <2>1. ASSUME NEW d \in Calls, d # c,
               \/ Begin(d) \/ GetExact(d) \/ GetKeys(d) \/ ScanKey(d) \/ Fetch(d)
               \/ SetWrite(d) \/ SetEmbedding(d) \/ SetPush(d) \/ Invalidate(d)
        PROVE  at'[c] = at[c]
    BY <2>1 DEF IInv, TypeOK, Begin, GetExact, GetKeys, ScanKey, Fetch, Return, Continue,
       SetWrite, SetEmbedding, SetPush, Invalidate
  <2>2. CASE Event \/ UNCHANGED vars
    BY <2>2 DEF IInv, TypeOK, vars, Event, Abandon, TtlPasses, Clear, Restart,
       EmbeddingExpires, IndexExpires, GetCommands
  <2>3. CASE Begin(c) \/ SetWrite(c) \/ SetEmbedding(c) \/ SetPush(c) \/ Invalidate(c)
    BY <2>3 DEF Begin, SetWrite, SetEmbedding, SetPush, Invalidate, GetCommands
  <2> QED
    BY <2>1, <2>2, <2>3 DEF Next, Event, GetCommands
<1>2. Query(c) \in Queries /\ Process(c) \in Processes
  BY OpOfCall DEF GetCommands
<1>3. CASE GetExact(c)
  BY <1>2, <1>3 DEF IInv, TypeOK, GetExact, Found, Return
<1>4. CASE GetKeys(c) \/ ScanKey(c)
  BY <1>4 DEF IInv, TypeOK, GetKeys, ScanKey, Continue, Return
<1>5. CASE Fetch(c)
  <2>1. scan[c].best \in Queries
    BY <1>5 DEF IInv, TypeOK, CallsInPlace, Close, Fetch
  <2> QED
    BY <1>2, <1>5, <2>1 DEF IInv, TypeOK, Fetch, Found, Return
<1> QED
  BY <1>1, <1>3, <1>4, <1>5

-----------------------------------------------------------------------------
(* The history of the calls.                                               *)

\* What a call is by where it is, and that past tells of what was so and still is.
PastOfCalls ==
    \A c \in Calls :
        /\ at[c] \in GetCommands => op[c].kind = "get"
        /\ at[c] \in {"write", "embed", "push"} => op[c].kind = "set"
        /\ at[c] = "delete" => op[c].kind = "invalidate"
        /\ c \in overdue => at[c] \in {"embed", "push", "done", "abandoned"}
        /\ at[c] # "idle" =>
              /\ past[c].over \subseteq Over
              /\ past[c].overdue \subseteq overdue
              /\ past[c].failures \in Nat /\ past[c].failures <= failures

\* Redis holds a response under its own key, and no longer than its ttl.
Stored ==
    \A q \in Queries : value[q] # None =>
        /\ at[value[q]] \in {"embed", "push", "done", "abandoned"}
        /\ Query(value[q]) = q
        /\ value[q] \notin overdue

MemoryUnused ==
    failures = 0 => \A p \in Processes, q \in Queries : memory[p][q] = None

\* What was over when an invalidate began is no longer in Redis when it is over.
RemovedFromRedis ==
    failures = 0 =>
        \A i, s \in Calls :
            /\ Did(i, "invalidate") /\ Before(s, i)
            /\ op[s] # None /\ Query(s) = Query(i)
            => value[Query(i)] # s

\* The latest set for its query, and Redis has answered since it began.
Latest(s) ==
    op[s].kind = "set" /\ LastWriter(s) /\ UpSince(s) /\ s \notin overdue

\* It has written, and nobody has undone it.
LatestIsHeld ==
    \A s \in Calls :
        Latest(s) /\ at[s] \in {"embed", "push", "done"} => value[Query(s)] = s

\* A get that began after it finds the exact match, and never goes on to search.
LatestIsRead ==
    \A s, g \in Calls :
        /\ Latest(s) /\ at[s] = "done"
        /\ at[g] # "idle" /\ op[g].kind = "get" /\ Query(g) = Query(s) /\ Before(s, g)
        => /\ at[g] \notin {"keys", "scan", "fetch"}
           /\ at[g] = "done" => result[g] = s

History ==
    /\ PastOfCalls
    /\ Stored
    /\ MemoryUnused
    /\ RemovedFromRedis
    /\ LatestIsHeld
    /\ LatestIsRead
    /\ InvalidateRemovesWhileUp
    /\ ExpiryHoldsWhileUp

LEMMA InitHistory == Init => History
<1> SUFFICES ASSUME Init PROVE History
  OBVIOUS
<1>1. PastOfCalls /\ Stored /\ MemoryUnused
  BY DEF Init, PastOfCalls, GetCommands, Stored, MemoryUnused
<1>2. RemovedFromRedis /\ LatestIsHeld /\ LatestIsRead
  BY DEF Init, RemovedFromRedis, LatestIsHeld, LatestIsRead, Did
<1>3. InvalidateRemovesWhileUp /\ ExpiryHoldsWhileUp
  BY DEF Init, InvalidateRemovesWhileUp, ExpiryHoldsWhileUp, Did
<1> QED
  BY <1>1, <1>2, <1>3 DEF History

\* What is over stays over, with its result.
LEMMA OverStays ==
    ASSUME IInv, [Next]_vars, NEW c \in Calls
    PROVE  /\ at[c] # "idle" => at'[c] # "idle" /\ op'[c] = op[c] /\ past'[c] = past[c]
           /\ at[c] = "done" => at'[c] = "done" /\ result'[c] = result[c]
           /\ at[c] = "idle" => at'[c] \in {"idle", "exact", "write", "delete"}
<1>1. ASSUME Begun(c) PROVE at'[c] \in {"exact", "write", "delete"} /\ at[c] = "idle"
  BY <1>1 DEF Begun, FirstCommand, Ops, Kinds
<1>2. ASSUME Moved(c) PROVE /\ at[c] # "idle" => at'[c] # "idle"
                            /\ at[c] = "done" => at'[c] = "done" /\ result'[c] = result[c]
                            /\ at[c] = "idle" => at'[c] = "idle"
  BY <1>2 DEF Moved, Commands, GetCommands
<1> QED
  BY <1>1, <1>2, CallsMove

\* A response becomes overdue once it has been written, and Redis drops it.
LEMMA OverdueChanges ==
    ASSUME IInv, [Next]_vars, NEW d \in overdue', d \notin overdue
    PROVE  /\ d \in Calls /\ at[d] \in {"embed", "push", "done", "abandoned"}
           /\ at'[d] = at[d]
           /\ \A q \in Queries : value'[q] # d
<1>1. ASSUME NEW c \in Calls, TtlPasses(c)
      PROVE  /\ at[c] \in {"embed", "push", "done", "abandoned"} /\ at' = at
             /\ overdue' = overdue \cup {c}
             /\ \A q \in Queries : value'[q] # c
  BY <1>1, NoneAssumption DEF TtlPasses
<1>2. CASE ~\E c \in Calls : TtlPasses(c)
  BY <1>2 DEF Next, vars, Begin, GetExact, GetKeys, ScanKey, Fetch, SetWrite,
     SetEmbedding, SetPush, Invalidate, Abandon, Clear, Restart, EmbeddingExpires,
     IndexExpires
<1> QED
  BY <1>1, <1>2

LEMMA PastKept ==
    ASSUME IInv, PastOfCalls, [Next]_vars
    PROVE  PastOfCalls'
<1>1. Over \subseteq Over'
  BY OverStays DEF Over
<1>2. /\ failures \in Nat /\ failures' \in Nat /\ failures <= failures'
      /\ overdue \subseteq overdue'
  BY TimePasses
<1> SUFFICES ASSUME NEW c \in Calls
             PROVE  /\ at'[c] \in GetCommands => op'[c].kind = "get"
                    /\ at'[c] \in {"write", "embed", "push"} => op'[c].kind = "set"
                    /\ at'[c] = "delete" => op'[c].kind = "invalidate"
                    /\ c \in overdue' => at'[c] \in {"embed", "push", "done", "abandoned"}
                    /\ at'[c] # "idle" =>
                          /\ past'[c].over \subseteq Over'
                          /\ past'[c].overdue \subseteq overdue'
                          /\ past'[c].failures \in Nat /\ past'[c].failures <= failures'
  BY DEF PastOfCalls, GetCommands
<1>3. c \in overdue' => at'[c] \in {"embed", "push", "done", "abandoned"}
  <2>1. CASE c \in overdue
    <3>1. at[c] \in {"embed", "push", "done", "abandoned"}
      BY <2>1 DEF PastOfCalls
    <3> QED
      BY <3>1, CallsMove DEF Begun, Moved, GetCommands
  <2>2. CASE c \notin overdue
    BY <2>2, OverdueChanges
  <2> QED
    BY <2>1, <2>2
<1>4. CASE Begun(c)
  BY <1>1, <1>2, <1>4, <1>3 DEF Begun, FirstCommand, Ops, Kinds, GetCommands
<1>5. CASE op'[c] = op[c] /\ past'[c] = past[c] /\ Moved(c)
  <2>1. /\ at'[c] \in GetCommands => at[c] \in GetCommands
        /\ at'[c] \in {"write", "embed", "push"} => at[c] \in {"write", "embed", "push"}
        /\ at'[c] = "delete" => at[c] = "delete"
        /\ at'[c] # "idle" => at[c] # "idle"
    BY <1>5 DEF Moved, GetCommands, Commands
  <2>2. /\ at'[c] \in GetCommands => op'[c].kind = "get"
        /\ at'[c] \in {"write", "embed", "push"} => op'[c].kind = "set"
        /\ at'[c] = "delete" => op'[c].kind = "invalidate"
    BY <1>5, <2>1 DEF PastOfCalls
  <2>3. ASSUME at'[c] # "idle"
        PROVE  /\ past'[c].over \subseteq Over'
               /\ past'[c].overdue \subseteq overdue'
               /\ past'[c].failures \in Nat /\ past'[c].failures <= failures'
    <3>1. /\ past[c].over \subseteq Over
          /\ past[c].overdue \subseteq overdue
          /\ past[c].failures \in Nat /\ past[c].failures <= failures
      BY <2>1, <2>3 DEF PastOfCalls
    <3> QED
      BY <1>1, <1>2, <1>5, <3>1
  <2> QED
    BY <1>3, <2>2, <2>3
<1> QED
  BY <1>4, <1>5, CallsMove

LEMMA StoredKept ==
    ASSUME IInv, PastOfCalls, Stored, [Next]_vars
    PROVE  Stored'
<1> SUFFICES ASSUME NEW q \in Queries, value'[q] # None
             PROVE  /\ at'[value'[q]] \in {"embed", "push", "done", "abandoned"}
                    /\ op'[value'[q]].query = q
                    /\ value'[q] \notin overdue'
  BY DEF Stored, Query
<1>1. CASE value'[q] = value[q]
  <2> DEFINE c == value[q]
  <2>1. /\ c \in Calls /\ at[c] \in {"embed", "push", "done", "abandoned"}
        /\ Query(c) = q /\ c \notin overdue
    BY <1>1 DEF IInv, TypeOK, Stored
  <2> HIDE DEF c
  <2>2. at'[c] \in {"embed", "push", "done", "abandoned"} /\ op'[c] = op[c]
    <3>1. CASE Begun(c)
      BY <2>1, <3>1 DEF Begun
    <3>2. CASE op'[c] = op[c] /\ past'[c] = past[c] /\ Moved(c)
      BY <2>1, <3>2 DEF Moved, GetCommands
    <3> QED
      BY <2>1, <3>1, <3>2, CallsMove
  <2>3. c \notin overdue'
    BY <1>1, <2>1, OverdueChanges DEF c
  <2> QED
    BY <1>1, <2>1, <2>2, <2>3 DEF c, Query
<1>2. ASSUME NEW c \in Calls, at[c] = "write", at'[c] \in {"embed", "done"},
             Query(c) = q, value'[q] = c
      PROVE  /\ at'[value'[q]] \in {"embed", "push", "done", "abandoned"}
             /\ op'[value'[q]].query = q
             /\ value'[q] \notin overdue'
  <2>1. op'[c] = op[c]
    BY <1>2, OverStays
  <2>2. c \notin overdue'
    BY <1>2, OverdueChanges DEF PastOfCalls
  <2> QED
    BY <1>2, <2>1, <2>2 DEF Query
<1>3. CASE value'[q] # value[q]
  BY <1>2, <1>3, RedisChanges
<1> QED
  BY <1>1, <1>3

LEMMA MemoryKept ==
    ASSUME IInv, MemoryUnused, [Next]_vars
    PROVE  MemoryUnused'
<1> SUFFICES ASSUME failures' = 0, NEW p \in Processes, NEW q \in Queries
             PROVE  memory'[p][q] = None
  BY DEF MemoryUnused
<1>1. failures = 0 /\ ~Fails
  BY TimePasses DEF Fails
<1>2. memory[p][q] = None
  BY <1>1 DEF MemoryUnused
<1>3. CASE memory' = memory
  BY <1>2, <1>3
<1>4. ASSUME NEW o \in Processes, Clear(o) \/ Restart(o)
      PROVE  memory'[p][q] = None
  <2>1. memory' = [memory EXCEPT ![o] = [k \in Queries |-> None]]
    BY <1>4 DEF Clear, Restart
  <2> QED
    BY <1>2, <2>1 DEF IInv, TypeOK
<1>5. CASE ~\E o \in Processes : Clear(o) \/ Restart(o)
  <2>1. memory' = memory
    BY <1>1, <1>5 DEF Next, vars, local, Begin, GetExact, GetKeys, ScanKey, Fetch, SetWrite,
       SetEmbedding, SetPush, Invalidate, Abandon, TtlPasses, EmbeddingExpires,
       IndexExpires
  <2> QED
    BY <1>3, <2>1
<1> QED
  BY <1>4, <1>5

\* While Redis is up a get returns what Redis holds, or nothing.
LEMMA ReadsRedis ==
    ASSUME IInv, MemoryUnused, [Next]_vars, failures' = 0, NEW g \in Calls,
           at[g] \in GetCommands, at'[g] = "done", result'[g] # None
    PROVE  \E q \in Queries : result'[g] = value[q]
<1>1. failures = 0
  BY TimePasses
<1> QED
  BY <1>1, ReadsFrom DEF MemoryUnused

LEMMA RemovedKept ==
    ASSUME IInv, PastOfCalls, RemovedFromRedis, [Next]_vars
    PROVE  RemovedFromRedis'
<1> SUFFICES ASSUME failures' = 0, NEW i \in Calls, NEW s \in Calls,
                    at'[i] = "done", op'[i].kind = "invalidate", s \in past'[i].over,
                    op'[s] # None, op'[s].query = op'[i].query,
                    value'[op'[i].query] = s
             PROVE  FALSE
  BY DEF RemovedFromRedis, Did, Before, Query
<1>1. failures = 0 /\ failures' = failures
  BY TimePasses
<1>2. at[i] # "idle" /\ op'[i] = op[i] /\ past'[i] = past[i]
  BY OverStays
<1>3. at[s] = "done" /\ op'[s] = op[s]
  BY <1>2, OverStays DEF PastOfCalls, Over
<1>4. op[s] # None /\ Query(s) = Query(i) /\ Query(i) \in Queries /\ s # None
  BY <1>2, <1>3, OpOfCall, NoneAssumption DEF Query
<1>5. CASE at[i] = "done"
  <2>1. value[Query(i)] # s
    BY <1>1, <1>2, <1>4, <1>5 DEF RemovedFromRedis, Did, Before, Query
  <2>2. value'[Query(i)] = s
    BY <1>2 DEF Query
  <2> QED
    BY <1>3, <1>4, <2>1, <2>2, RedisChanges
<1>6. CASE at[i] # "done"
  <2>1. op'[i] = op[i] /\ Moved(i)
    BY <1>2, CallsMove DEF Begun
  <2>2. at[i] = "delete"
    BY <1>2, <1>6, <2>1 DEF Moved, PastOfCalls, GetCommands
  <2>3. value'[Query(i)] = None
    BY <1>1, <2>2, AnsweredTakesEffect
  <2> QED
    BY <1>2, <1>4, <2>3 DEF Query
<1> QED
  BY <1>5, <1>6

LEMMA InvalidateRemovesKept ==
    ASSUME IInv, PastOfCalls, Stored, MemoryUnused, RemovedFromRedis,
           InvalidateRemovesWhileUp, [Next]_vars
    PROVE  InvalidateRemovesWhileUp'
<1> SUFFICES ASSUME failures' = 0, NEW i \in Calls, NEW g \in Calls, NEW s \in Calls,
                    at'[i] = "done", op'[i].kind = "invalidate",
                    at'[g] = "done", op'[g].kind = "get", i \in past'[g].over,
                    op'[s] # None, op'[s].query = op'[i].query, s \in past'[i].over,
                    result'[g] = s
             PROVE  FALSE
  BY DEF InvalidateRemovesWhileUp, Removed, Did, Before, Query
<1>1. failures = 0
  BY TimePasses
<1>2. at[g] # "idle" /\ op'[g] = op[g] /\ past'[g] = past[g]
  BY OverStays
<1>3. at[i] = "done" /\ op'[i] = op[i] /\ past'[i] = past[i]
  BY <1>2, OverStays DEF PastOfCalls, Over
<1>4. at[s] = "done" /\ op'[s] = op[s] /\ op[s] # None /\ Query(s) = Query(i)
  BY <1>3, OverStays DEF PastOfCalls, Over, Query
<1>5. CASE at[g] = "done"
  <2>1. result'[g] = result[g]
    BY <1>5, OverStays
  <2> QED
    BY <1>1, <1>2, <1>3, <1>4, <1>5, <2>1 DEF InvalidateRemovesWhileUp, Removed, Did, Before
<1>6. CASE at[g] # "done"
  <2>1. Moved(g)
    BY <1>2, CallsMove DEF Begun
  <2>2. at[g] \in GetCommands
    BY <1>2, <1>6, <2>1 DEF Moved, PastOfCalls, GetCommands
  <2>3. s # None
    BY NoneAssumption
  <2>4. PICK q \in Queries : s = value[q]
    BY <2>2, <2>3, ReadsRedis
  <2>5. Query(s) = q
    BY <2>3, <2>4 DEF Stored
  <2>6. value[Query(i)] # s
    BY <1>1, <1>3, <1>4 DEF RemovedFromRedis, Did, Before
  <2> QED
    BY <1>4, <2>4, <2>5, <2>6
<1> QED
  BY <1>5, <1>6

LEMMA ExpiryHoldsKept ==
    ASSUME IInv, PastOfCalls, Stored, MemoryUnused, ExpiryHoldsWhileUp, [Next]_vars
    PROVE  ExpiryHoldsWhileUp'
<1> SUFFICES ASSUME failures' = 0, NEW g \in Calls,
                    at'[g] = "done", op'[g].kind = "get", result'[g] \in past'[g].overdue
             PROVE  FALSE
  BY DEF ExpiryHoldsWhileUp, Did
<1>1. failures = 0
  BY TimePasses
<1>2. at[g] # "idle" /\ op'[g] = op[g] /\ past'[g] = past[g]
  BY OverStays
<1>3. CASE at[g] = "done"
  BY <1>1, <1>2, <1>3, OverStays DEF ExpiryHoldsWhileUp, Did
<1>4. CASE at[g] # "done"
  <2>1. Moved(g)
    BY <1>2, CallsMove DEF Begun
  <2>2. at[g] \in GetCommands
    BY <1>2, <1>4, <2>1 DEF Moved, PastOfCalls, GetCommands
  <2>3. result'[g] \in overdue
    BY <1>2 DEF PastOfCalls
  <2>4. result'[g] # None
    BY <2>3, NoneAssumption DEF IInv, TypeOK
  <2>5. PICK q \in Queries : result'[g] = value[q]
    BY <2>2, <2>4, ReadsRedis
  <2> QED
    BY <2>3, <2>4, <2>5 DEF Stored
<1> QED
  BY <1>3, <1>4

\* A set is the latest after a step only if it was so before, and if Redis has
\* answered.
LEMMA LatestBefore ==
    ASSUME IInv, PastOfCalls, [Next]_vars, NEW s \in Calls, at[s] # "idle", Latest(s)'
    PROVE  Latest(s) /\ failures' = failures
<1>1. op'[s] = op[s] /\ past'[s] = past[s]
  BY OverStays
<1>2. /\ failures' = failures /\ UpSince(s)
      /\ s \notin overdue
  BY <1>1, TimePasses DEF Latest, UpSince, PastOfCalls
<1>3. LastWriter(s)
  <2> SUFFICES ASSUME NEW d \in Calls \ {s}, op[d] # None, op[d].kind # "get",
                      Query(d) = Query(s)
               PROVE  d \in past[s].over
    BY DEF LastWriter, Before
  <2>1. at[d] # "idle"
    BY DEF IInv, CallsInPlace
  <2>2. op'[d] = op[d]
    BY <2>1, OverStays
  <2> QED
    BY <1>1, <2>2 DEF Latest, LastWriter, Before, Query
<1> QED
  BY <1>1, <1>2, <1>3 DEF Latest

LEMMA LatestIsHeldKept ==
    ASSUME IInv, PastOfCalls, LatestIsHeld, [Next]_vars
    PROVE  LatestIsHeld'
<1> SUFFICES ASSUME NEW s \in Calls, Latest(s)', at'[s] \in {"embed", "push", "done"}
             PROVE  value'[op'[s].query] = s
  BY DEF LatestIsHeld, Query
<1>1. at[s] # "idle" /\ op'[s] = op[s]
  BY OverStays
<1>2. Latest(s) /\ failures' = failures /\ op[s].kind = "set"
  BY <1>1, LatestBefore DEF Latest
<1>3. Query(s) \in Queries
  BY <1>1, OpOfCall
<1>4. CASE at[s] \in {"embed", "push", "done"}
  <2>1. value[Query(s)] = s
    BY <1>2, <1>4 DEF LatestIsHeld
  <2>2. ASSUME NEW c \in Calls, at[c] \in {"write", "delete"}, Query(c) = Query(s)
        PROVE  FALSE
    <3>1. op[c] # None /\ op[c].kind # "get" /\ c # s
      BY <1>4, <2>2 DEF IInv, CallsInPlace, PastOfCalls
    <3>2. c \in past[s].over
      BY <1>2, <2>2, <3>1 DEF Latest, LastWriter, Before
    <3> QED
      BY <1>1, <2>2, <3>2 DEF PastOfCalls, Over
  <2>3. s \notin overdue'
    BY DEF Latest
  <2>4. value'[Query(s)] = value[Query(s)]
    BY <1>3, <2>1, <2>2, <2>3, RedisChanges
  <2> QED
    BY <1>1, <2>1, <2>4 DEF Query
<1>5. CASE at[s] \notin {"embed", "push", "done"}
  <2>1. Moved(s)
    BY <1>1, CallsMove DEF Begun
  <2>2. at[s] = "write" /\ at'[s] \in {"embed", "done"}
    BY <1>2, <1>5, <2>1 DEF Moved, PastOfCalls, GetCommands
  <2> QED
    BY <1>1, <1>2, <2>2, AnsweredTakesEffect DEF Query
<1> QED
  BY <1>4, <1>5

LEMMA LatestIsReadKept ==
    ASSUME IInv, PastOfCalls, LatestIsHeld, LatestIsRead, [Next]_vars
    PROVE  LatestIsRead'
<1> SUFFICES ASSUME NEW s \in Calls, NEW g \in Calls, Latest(s)', at'[s] = "done",
                    at'[g] # "idle", op'[g].kind = "get", op'[g].query = op'[s].query,
                    s \in past'[g].over
             PROVE  /\ at'[g] \notin {"keys", "scan", "fetch"}
                    /\ at'[g] = "done" => result'[g] = s
  BY DEF LatestIsRead, Query, Before
<1>1. CASE at[g] = "idle"
  BY <1>1, OverStays
<1>2. CASE at[g] # "idle"
  <2>1. op'[g] = op[g] /\ past'[g] = past[g] /\ Moved(g)
    BY <1>2, OverStays, CallsMove DEF Begun
  <2>2. at[s] = "done" /\ op'[s] = op[s]
    BY <1>2, <2>1, OverStays DEF PastOfCalls, Over
  <2>3. Latest(s) /\ failures' = failures /\ Query(g) = Query(s)
    BY <2>1, <2>2, LatestBefore DEF Query
  <2>4. /\ at[g] \notin {"keys", "scan", "fetch"}
        /\ at[g] = "done" => result[g] = s
    BY <1>2, <2>1, <2>2, <2>3 DEF LatestIsRead, Before
  <2>5. CASE at[g] = "done"
    BY <2>4, <2>5, OverStays
  <2>6. CASE at[g] = "exact"
    <3>1. value[Query(g)] = s /\ s # None
      BY <2>2, <2>3, NoneAssumption DEF LatestIsHeld
    <3>2. at'[g] \in {"keys", "done"} => at'[g] = "done" /\ result'[g] = s
      BY <2>3, <2>6, <3>1, AnsweredTakesEffect
    <3> QED
      BY <2>1, <2>6, <3>2 DEF Moved, GetCommands
  <2>7. CASE at[g] \notin {"done", "exact"}
    <3>1. at[g] \notin {"write", "embed", "push", "delete"}
      BY <2>1 DEF PastOfCalls
    <3> QED
      BY <2>1, <2>4, <2>7, <3>1 DEF Moved, GetCommands
  <2> QED
    BY <2>5, <2>6, <2>7
<1> QED
  BY <1>1, <1>2

LEMMA NextHistory == IInv /\ History /\ [Next]_vars => History'
BY PastKept, StoredKept, MemoryKept, RemovedKept, LatestIsHeldKept, LatestIsReadKept,
   InvalidateRemovesKept, ExpiryHoldsKept DEF History

LEMMA HistoryInvariant == Spec => []History
BY InitHistory, NextHistory, Invariance, PTL DEF Spec

\* Read your writes, across processes and whatever went wrong before the write:
\* a get that begins after the latest set returns exactly what it stored.
THEOREM LatestWriteIsRead == Spec => []ReadsLatestWrite
<1>1. IInv /\ History => ReadsLatestWrite
  BY DEF IInv, CallsInPlace, History, LatestIsRead, Latest, Did, ReadsLatestWrite
<1> QED
  BY <1>1, Invariance, HistoryInvariant, PTL

\* While Redis has not failed, nothing that an invalidate removed is found again,
\* by exact or by semantic lookup, in whatever process.
THEOREM InvalidationHolds == Spec => []InvalidateRemovesWhileUp
<1>1. History => InvalidateRemovesWhileUp
  BY DEF History
<1> QED
  BY <1>1, HistoryInvariant, PTL

\* While Redis has not failed, no get returns a response that was overdue when the
\* get began.
THEOREM ExpiryHolds == Spec => []ExpiryHoldsWhileUp
<1>1. History => ExpiryHoldsWhileUp
  BY DEF History
<1> QED
  BY <1>1, HistoryInvariant, PTL

-----------------------------------------------------------------------------
(* The refinement.  What CacheContract calls pending, servable and asked.  *)

Pending == {c \in Calls : at[c] = "write"}

Servable == {e \in Queries \X Calls :
               \/ value[e[1]] = e[2]
               \/ \E p \in Processes : memory[p][e[1]] = e[2]}

Asked == [c \in Calls |-> IF op[c] = None THEN None ELSE Query(c)]

\* Redis or a dictionary has v under the key of q.
Holds(q, v) == value[q] = v \/ \E p \in Processes : memory[p][q] = v

LEMMA ServableHolds ==
    /\ Servable \subseteq Queries \X Calls
    /\ \A q \in Queries, v \in Calls : <<q, v>> \in Servable <=> Holds(q, v)
BY DEF Servable, Holds

LEMMA ServableShrinks ==
    ASSUME \A q \in Queries, v \in Calls : Holds(q, v)' => Holds(q, v)
    PROVE  Servable' \subseteq Servable
BY DEF Servable, Holds

LEMMA InitRefines == Init => Contract!Init
<1> SUFFICES ASSUME Init PROVE Contract!Init
  OBVIOUS
<1>1. Pending = {}
  BY DEF Init, Pending
<1>2. Servable = {}
  BY NoneAssumption DEF Init, Servable
<1>3. Asked = [c \in Calls |-> None]
  BY DEF Init, Asked
<1> QED
  BY <1>1, <1>2, <1>3 DEF Init, Contract!Init, Pending, Servable, Asked

LEMMA AskedKept ==
    ASSUME UNCHANGED op
    PROVE  Asked' = Asked
BY DEF Asked, Query

LEMMA ForgetRefines ==
    ASSUME UNCHANGED <<op, result>>,
           Pending' \subseteq Pending, Servable' \subseteq Servable
    PROVE  Contract!Forget
BY AskedKept DEF Contract!Forget, Pending, Servable, Asked

LEMMA BeginRefines ==
    ASSUME IInv, NEW c \in Calls, Begin(c)
    PROVE  Contract!Call(c)
<1>1. PICK o \in Workload :
         /\ op' = [op EXCEPT ![c] = o]
         /\ at' = [at EXCEPT ![c] = FirstCommand[o.kind]]
  BY DEF Begin
<1>2. o \in Ops /\ o # None /\ o.query \in Queries
  BY <1>1, WorkloadAssumption, NoneAssumption DEF Ops
<1>3. at[c] = "idle" /\ op[c] = None /\ Asked[c] = None
  BY DEF Begin, IInv, CallsInPlace, Asked
<1>4. Asked' = [Asked EXCEPT ![c] = o.query]
  BY <1>1, <1>2 DEF IInv, TypeOK, Asked, Query
<1>5. Pending' \in {Pending, Pending \cup {c}}
  <2>1. at'[c] = "write" \/ at'[c] # "write"
    OBVIOUS
  <2>2. \A d \in Calls \ {c} : at'[d] = at[d]
    BY <1>1 DEF IInv, TypeOK
  <2> QED
    BY <1>3, <2>1, <2>2 DEF Pending
<1>6. Servable' = Servable /\ UNCHANGED result
  BY DEF Begin, remote, local, Servable
<1> QED
  BY <1>2, <1>3, <1>4, <1>5, <1>6 DEF Contract!Call, Pending, Servable, Asked

\* A get that moves on, or misses.
LEMMA GetSilent ==
    ASSUME IInv, NEW c \in Calls, at[c] \in {"exact", "keys", "scan", "fetch"},
           UNCHANGED <<op, remote, local, result>>,
           NEW next \in {"keys", "scan", "fetch", "done"},
           at' = [at EXCEPT ![c] = next]
    PROVE  Contract!Forget
<1>1. Pending' \subseteq Pending
  BY DEF IInv, TypeOK, Pending
<1>2. Servable' \subseteq Servable
  BY DEF Servable, remote, local
<1> QED
  BY <1>1, <1>2, ForgetRefines

\* A get that returns what it found for a query close to its own.
LEMMA FoundRefines ==
    ASSUME IInv, NEW c \in Calls, at[c] \in {"exact", "keys", "scan", "fetch"},
           UNCHANGED <<op, remote, local>>,
           NEW q \in Queries, q = Query(c) \/ Score[Query(c)][q] >= Threshold,
           NEW v \in Calls \cup {None}, Found(Process(c), q, v), Return(c, v)
    PROVE  Contract!Next
<1>1. /\ at' = [at EXCEPT ![c] = "done"]
      /\ result' = [result EXCEPT ![c] = v]
      /\ result[c] = None
  BY DEF Return, IInv, CallsInPlace
<1>2. CASE v = None
  <2>1. UNCHANGED result
    BY <1>1, <1>2 DEF IInv, TypeOK
  <2> QED
    BY <1>1, <2>1, GetSilent DEF Contract!Next
<1>3. CASE v \in Calls /\ v # None
  <2>1. op[c] \in Ops /\ Query(c) \in Queries /\ Process(c) \in Processes
    BY OpOfCall
  <2>2. Holds(q, v)
    BY <1>3, <2>1 DEF Found, Holds
  <2>3. <<q, v>> \in Servable
    BY <1>3, <2>2, ServableHolds
  <2>4. Asked[c] = Query(c) /\ Asked[c] # None
    BY <2>1, NoneAssumption DEF Asked
  <2> DEFINE alike == [p \in Queries |->
                         {p} \cup {k \in Queries : Score[p][k] >= Threshold}]
  <2>5. q \in alike[Asked[c]]
    BY <2>1, <2>4
  <2>6. Pending' = Pending /\ Servable' = Servable /\ Asked' = Asked
    BY <1>1, AskedKept DEF IInv, TypeOK, Pending, Servable, remote, local
  <2>7. Contract!Answer(c)
    BY <1>1, <1>3, <2>3, <2>4, <2>5, <2>6
       DEF Contract!Answer, Pending, Servable, Asked
  <2> QED
    BY <2>7 DEF Contract!Next
<1> QED
  BY <1>2, <1>3, NoneAssumption

LEMMA ContinueRefines ==
    ASSUME IInv, NEW c \in Calls, at[c] \in {"keys", "scan"},
           UNCHANGED <<op, remote, local>>,
           NEW left, NEW best, Continue(c, left, best)
    PROVE  Contract!Forget
<1>1. result[c] = None
  BY DEF IInv, CallsInPlace
<1>2. UNCHANGED result
  BY <1>1 DEF Continue, Return, IInv, TypeOK
<1>3. PICK next \in {"scan", "fetch", "done"} : at' = [at EXCEPT ![c] = next]
  BY DEF Continue, Return
<1> QED
  BY <1>2, <1>3, GetSilent

LEMMA GetRefines ==
    ASSUME IInv, NEW c \in Calls,
           GetExact(c) \/ GetKeys(c) \/ ScanKey(c) \/ Fetch(c)
    PROVE  Contract!Next
<1>1. at[c] \in {"exact", "keys", "scan", "fetch"} /\ UNCHANGED <<op, remote, local>>
  BY DEF GetExact, GetKeys, ScanKey, Fetch
<1>2. Query(c) \in Queries
  BY <1>1, OpOfCall
<1>3. CASE GetExact(c)
  <2>1. PICK v \in Calls \cup {None} :
           /\ Found(Process(c), Query(c), v)
           /\ \/ Return(c, v)
              \/ /\ v = None
                 /\ at' = [at EXCEPT ![c] = "keys"]
                 /\ UNCHANGED <<scan, result>>
    BY <1>3 DEF GetExact
  <2>2. CASE Return(c, v)
    BY <1>1, <1>2, <2>1, <2>2, FoundRefines
  <2>3. CASE at' = [at EXCEPT ![c] = "keys"] /\ UNCHANGED <<scan, result>>
    BY <1>1, <2>3, GetSilent DEF Contract!Next
  <2> QED
    BY <2>1, <2>2, <2>3
<1>4. CASE GetKeys(c)
  BY <1>1, <1>4, ContinueRefines DEF GetKeys, Contract!Next
<1>5. CASE ScanKey(c)
  BY <1>1, <1>5, ContinueRefines DEF ScanKey, Contract!Next
<1>6. CASE Fetch(c)
  <2>1. PICK v \in Calls \cup {None} : Found(Process(c), scan[c].best, v) /\ Return(c, v)
    BY <1>6 DEF Fetch
  <2>2. /\ scan[c].best \in Queries
        /\ Score[Query(c)][scan[c].best] >= Threshold
    BY <1>6, NoneAssumption DEF IInv, TypeOK, CallsInPlace, Fetch, Close
  <2> QED
    BY <1>1, <2>1, <2>2, FoundRefines
<1> QED
  BY <1>3, <1>4, <1>5, <1>6

LEMMA SetWriteRefines ==
    ASSUME IInv, NEW c \in Calls, SetWrite(c)
    PROVE  Contract!Put(c)
<1>1. at[c] = "write" /\ Query(c) \in Queries /\ Process(c) \in Processes /\ op[c] \in Ops
  BY OpOfCall DEF SetWrite
<1>2. TypeOK /\ value \in [Queries -> Calls \cup {None}]
  BY DEF IInv, TypeOK
<1>3. /\ UNCHANGED <<op, result>>
      /\ Pending' = Pending \ {c} /\ c \in Pending
  BY <1>1 DEF SetWrite, IInv, TypeOK, Pending
<1>4. Asked[c] = Query(c) /\ Asked' = Asked
  BY <1>1, <1>3, NoneAssumption, AskedKept DEF Asked
<1>5. /\ \/ UNCHANGED value
         \/ value' = [value EXCEPT ![Query(c)] = c]
      /\ \/ UNCHANGED memory
         \/ memory' = [memory EXCEPT ![Process(c)][Query(c)] = c]
      /\ \/ value' = [value EXCEPT ![Query(c)] = c]
         \/ memory' = [memory EXCEPT ![Process(c)][Query(c)] = c]
  BY DEF SetWrite
<1>6. \A o \in Processes, k \in Queries :
         \/ memory'[o][k] = memory[o][k]
         \/ k = Query(c) /\ memory'[o][k] = c
  BY <1>1, <1>2, <1>5, MemoryEntry
<1>7. \A k \in Queries : value'[k] = value[k] \/ (k = Query(c) /\ value'[k] = c)
  BY <1>1, <1>2, <1>5
<1>8. Holds(Query(c), c)'
  <2>1. CASE value' = [value EXCEPT ![Query(c)] = c]
    <3>1. value'[Query(c)] = c
      BY <1>1, <1>2, <2>1
    <3>2. op'[c].query = Query(c)
      BY <1>3 DEF Query
    <3> QED
      BY <3>1, <3>2 DEF Holds, Query
  <2>2. CASE memory' = [memory EXCEPT ![Process(c)][Query(c)] = c]
    <3>1. memory'[Process(c)][Query(c)] = c
      BY <1>1, <1>2, <2>2, MemoryEntry
    <3>2. op'[c].query = Query(c)
      BY <1>3 DEF Query
    <3> QED
      BY <1>1, <3>1, <3>2 DEF Holds, Query
  <2> QED
    BY <1>5, <2>1, <2>2
<1>9. \A k \in Queries, v \in Calls :
         Holds(k, v)' => Holds(k, v) \/ (k = Query(c) /\ v = c)
  BY <1>6, <1>7 DEF Holds
<1> DEFINE kept == Servable \cap Servable'
<1>10. Servable' = kept \cup {<<Asked[c], c>>}
  <2>1. Query(c)' = Query(c)
    BY <1>3 DEF Query
  <2>2. <<Query(c), c>> \in Servable'
    BY <1>1, <1>8, <2>1 DEF Servable, Holds
  <2>3. ASSUME NEW e \in Servable' PROVE e \in Servable \/ e = <<Query(c), c>>
    <3>1. PICK k \in Queries, v \in Calls : e = <<k, v>> /\ Holds(k, v)'
      BY <2>3 DEF Servable, Holds
    <3>2. CASE Holds(k, v)
      BY <3>1, <3>2 DEF Servable, Holds
    <3>3. CASE k = Query(c) /\ v = c
      BY <3>1, <3>3
    <3> QED
      BY <1>9, <3>1, <3>2, <3>3
  <2> QED
    BY <1>4, <2>2, <2>3
<1>11. kept \in SUBSET Servable
  OBVIOUS
<1> QED
  BY <1>3, <1>4, <1>10, <1>11 DEF Contract!Put, Pending, Servable, Asked

LEMMA OthersRefine ==
    ASSUME IInv, NEW c \in Calls,
           SetEmbedding(c) \/ SetPush(c) \/ Invalidate(c)
    PROVE  Contract!Forget
<1>1. UNCHANGED <<op, result>>
  BY DEF SetEmbedding, SetPush, Invalidate
<1>2. Pending' \subseteq Pending
  BY DEF IInv, TypeOK, Pending, SetEmbedding, SetPush, Invalidate
<1>3. CASE UNCHANGED <<value, memory>>
  BY <1>1, <1>2, <1>3, ForgetRefines DEF Servable
<1>4. CASE Invalidate(c)
  <2>1. Query(c) \in Queries /\ Process(c) \in Processes
    BY <1>4, OpOfCall DEF Invalidate
  <2>2. TypeOK /\ value \in [Queries -> Calls \cup {None}]
    BY DEF IInv, TypeOK
  <2>3. \A k \in Queries : value'[k] \in {value[k], None}
    BY <1>4, <2>1, <2>2 DEF Invalidate
  <2>4. \A o \in Processes, k \in Queries : memory'[o][k] \in {memory[o][k], None}
    <3>1. \/ UNCHANGED memory
          \/ memory' = [memory EXCEPT ![Process(c)][Query(c)] = None]
      BY <1>4 DEF Invalidate
    <3> QED
      BY <2>1, <2>2, <3>1, MemoryEntry
  <2>5. \A k \in Queries, v \in Calls : Holds(k, v)' => Holds(k, v)
    BY <2>3, <2>4, NoneAssumption DEF Holds
  <2> QED
    BY <1>1, <1>2, <2>5, ServableShrinks, ForgetRefines
<1> QED
  BY <1>3, <1>4 DEF SetEmbedding, SetPush, local

LEMMA EventRefines ==
    ASSUME IInv, Event
    PROVE  Contract!Forget
<1>1. UNCHANGED <<op, result>>
  BY DEF Event, Abandon, TtlPasses, Clear, Restart, EmbeddingExpires, IndexExpires
<1>2. \A c \in Calls : at'[c] \in {at[c], "abandoned"}
  BY DEF IInv, TypeOK, Event, Abandon, TtlPasses, Clear, Restart, EmbeddingExpires,
     IndexExpires
<1>3. Pending' \subseteq Pending
  BY <1>2 DEF Pending
<1>4. \A q \in Queries : value'[q] \in {value[q], None}
  BY DEF IInv, TypeOK, Event, Abandon, TtlPasses, Clear, Restart, EmbeddingExpires,
     IndexExpires, remote
<1>5. \A p \in Processes, q \in Queries : memory'[p][q] \in {memory[p][q], None}
  BY DEF IInv, TypeOK, Event, Abandon, TtlPasses, Clear, Restart, EmbeddingExpires,
     IndexExpires, local
<1>6. \A k \in Queries, v \in Calls : Holds(k, v)' => Holds(k, v)
  BY <1>4, <1>5, NoneAssumption DEF Holds
<1> QED
  BY <1>1, <1>3, <1>6, ServableShrinks, ForgetRefines

LEMMA NextRefines == IInv /\ [Next]_vars => [Contract!Next]_(Contract!vars)
<1> SUFFICES ASSUME IInv, [Next]_vars PROVE [Contract!Next]_(Contract!vars)
  OBVIOUS
<1>1. ASSUME NEW c \in Calls, Begin(c) PROVE Contract!Next
  BY <1>1, BeginRefines DEF Contract!Next
<1>2. ASSUME NEW c \in Calls, GetExact(c) \/ GetKeys(c) \/ ScanKey(c) \/ Fetch(c)
      PROVE  Contract!Next
  BY <1>2, GetRefines
<1>3. ASSUME NEW c \in Calls, SetWrite(c) PROVE Contract!Next
  BY <1>3, SetWriteRefines DEF Contract!Next
<1>4. ASSUME NEW c \in Calls, SetEmbedding(c) \/ SetPush(c) \/ Invalidate(c)
      PROVE  Contract!Next
  BY <1>4, OthersRefine DEF Contract!Next
<1>5. ASSUME Event PROVE Contract!Next
  BY <1>5, EventRefines DEF Contract!Next
<1>6. CASE UNCHANGED vars
  BY <1>6 DEF vars, remote, local, Contract!vars, Query
<1> QED
  BY <1>1, <1>2, <1>3, <1>4, <1>5, <1>6 DEF Next, Event

\* ResponseCache implements CacheContract: whatever fails, expires, restarts or is
\* cancelled, get returns only a response that is still held for a close query.
THEOREM Refinement == Spec => ImplementsCacheContract
<1>1. Spec => Contract!Spec
  BY InitRefines, NextRefines, Invariance, PTL DEF Spec, Contract!Spec
<1> QED
  BY <1>1 DEF ImplementsCacheContract

-----------------------------------------------------------------------------
(* What follows from the contract follows for the cache.                   *)

CloseTo == [q \in Queries |-> {q} \cup {k \in Queries : Score[q][k] >= Threshold}]

\* What is pending, held or was returned was brought by a call for that query.
Brought ==
    /\ Asked \in [Calls -> Queries \cup {None}]
    /\ result \in [Calls -> Calls \cup {None}]
    /\ \A c \in Pending : c \in Calls /\ Asked[c] # None
    /\ \A e \in Servable : e[2] \in Calls /\ Asked[e[2]] # None /\ Asked[e[2]] = e[1]
    /\ \A c \in Calls : result[c] # None =>
          Asked[c] # None /\ Asked[result[c]] # None
          /\ Asked[result[c]] \in CloseTo[Asked[c]]

\* CacheContract keeps it: a call asks one query, and no response changes its key.
LEMMA ContractFits == Contract!Spec => []Contract!AnswersFit
<1>1. Contract!Init => Brought
  BY NoneAssumption DEF Contract!Init, Brought, Pending, Servable, Asked
<1>2. Brought /\ [Contract!Next]_(Contract!vars) => Brought'
  <2> SUFFICES ASSUME Brought, [Contract!Next]_(Contract!vars)
               PROVE  Brought'
    OBVIOUS
  <2>1. CASE Contract!Forget
    <3>1. /\ Pending' \subseteq Pending /\ Servable' \subseteq Servable
          /\ Asked' = Asked /\ result' = result
      BY <2>1 DEF Contract!Forget, Pending, Servable, Asked
    <3> QED
      BY <3>1 DEF Brought
  <2>2. ASSUME NEW c \in Calls, Contract!Call(c)
        PROVE  Brought'
    <3>1. /\ Asked[c] = None
          /\ \E q \in Queries : Asked' = [Asked EXCEPT ![c] = q]
          /\ Pending' \subseteq Pending \cup {c}
          /\ Servable' = Servable /\ result' = result
      BY <2>2 DEF Contract!Call, Pending, Servable, Asked
    <3>2. Asked' \in [Calls -> Queries \cup {None}] /\ Asked'[c] # None
      BY <3>1, NoneAssumption DEF Brought
    <3>3. \A d \in Calls : Asked[d] # None => Asked'[d] = Asked[d]
      BY <3>1 DEF Brought
    <3> QED
      BY <3>1, <3>2, <3>3 DEF Brought
  <2>3. ASSUME NEW c \in Calls, Contract!Put(c)
        PROVE  Brought'
    <3>1. /\ c \in Pending /\ Pending' \subseteq Pending
          /\ Servable' \subseteq Servable \cup {<<Asked[c], c>>}
          /\ Asked' = Asked /\ result' = result
      BY <2>3 DEF Contract!Put, Pending, Servable, Asked
    <3> QED
      BY <3>1 DEF Brought
  <2>4. ASSUME NEW c \in Calls, Contract!Answer(c)
        PROVE  Brought'
    <3>1. /\ Asked[c] # None
          /\ \E q \in CloseTo[Asked[c]], v \in Calls :
                <<q, v>> \in Servable /\ result' = [result EXCEPT ![c] = v]
          /\ Pending' = Pending /\ Servable' = Servable /\ Asked' = Asked
      BY <2>4 DEF Contract!Answer, Pending, Servable, Asked, CloseTo
    <3>2. PICK q \in CloseTo[Asked[c]], v \in Calls :
             <<q, v>> \in Servable /\ result' = [result EXCEPT ![c] = v]
      BY <3>1
    <3>3. Asked[v] = q /\ Asked[v] # None
      BY <3>2 DEF Brought
    <3> QED
      BY <3>1, <3>2, <3>3 DEF Brought
  <2>5. CASE UNCHANGED Contract!vars
    <3>1. UNCHANGED <<Pending, Servable, Asked, result>>
      BY <2>5 DEF Contract!vars, Pending, Servable, Asked
    <3> QED
      BY <3>1 DEF Brought
  <2> QED
    BY <2>1, <2>2, <2>3, <2>4, <2>5 DEF Contract!Next
<1>3. Brought => Contract!AnswersFit
  BY DEF Brought, Contract!AnswersFit, Asked, CloseTo
<1> QED
  BY <1>1, <1>2, <1>3, PTL DEF Contract!Spec

\* What get returns was stored for a query that scores at least the threshold: a
\* consequence of the contract, so of every cache that keeps it.
THEOREM ResponsesDoFit == Spec => []ResponsesFit
BY Refinement, ContractFits, PTL DEF ImplementsCacheContract, ResponsesFit

=============================================================================
