---------------------------- MODULE CacheContract ----------------------------
(***************************************************************************)
(* What a caller of ResponseCache may rely on when Redis may fail at any   *)
(* time: get returns a response that some call of set stored for a query   *)
(* close enough to its own and that the cache still holds somewhere; what  *)
(* the cache has let go of it never returns again.  How long a response is *)
(* held, which of several is returned and whether any is, is left open.    *)
(***************************************************************************)
CONSTANTS
    Calls,      \* calls of the cache; one of set stands for what it stores
    Queries,    \* the queries that differ in their cache key
    Alike,      \* Alike[q]: the queries close enough to q
    None        \* no query, no response

VARIABLES
    pending,    \* calls of set whose response is still to be stored
    servable,   \* the <<query, response>> pairs the cache holds
    asked,      \* the query of each call, None before the call
    result      \* what each call of get has returned

vars == <<pending, servable, asked, result>>

Init ==
    /\ pending  = {}
    /\ servable = {}
    /\ asked    = [c \in Calls |-> None]
    /\ result   = [c \in Calls |-> None]

Call(c) ==
    /\ asked[c] = None
    /\ \E q \in Queries : asked' = [asked EXCEPT ![c] = q]
    /\ pending' \in {pending, pending \cup {c}}
    /\ UNCHANGED <<servable, result>>

\* The response of c is stored, once; others may give way to it.
Put(c) ==
    /\ c \in pending
    /\ pending' = pending \ {c}
    /\ \E kept \in SUBSET servable : servable' = kept \cup {<<asked[c], c>>}
    /\ UNCHANGED <<asked, result>>

\* Calls are given up; responses expire, are invalidated or are lost.
Forget ==
    /\ pending'  \in SUBSET pending
    /\ servable' \in SUBSET servable
    /\ UNCHANGED <<asked, result>>

Answer(c) ==
    /\ asked[c] # None
    /\ result[c] = None
    /\ \E q \in Alike[asked[c]], v \in Calls :
          /\ <<q, v>> \in servable
          /\ result' = [result EXCEPT ![c] = v]
    /\ UNCHANGED <<pending, servable, asked>>

Next ==
    \/ Forget
    \/ \E c \in Calls : Call(c) \/ Put(c) \/ Answer(c)

Spec == Init /\ [][Next]_vars

\* What get returns was brought by a call of set for a query close enough.
AnswersFit ==
    \A c \in Calls : result[c] # None =>
        /\ asked[c] # None
        /\ result[c] \in Calls
        /\ asked[result[c]] \in Alike[asked[c]]
=============================================================================
