--------------------------- MODULE MCResponseCache ---------------------------
(* A query, a paraphrase of it and one that is near but not near enough.   *)
EXTENDS ResponseCache, TLC

CONSTANTS q1, q2, q3

MCQueries == {q1, q2, q3}

MCScore ==
    [q \in MCQueries |-> [k \in MCQueries |->
       IF q = k THEN 100 ELSE IF {q, k} = {q1, q2} THEN 95 ELSE 94]]

\* Everything is stored, q1 is looked up and invalidated.
MCWorkload ==
    {o \in Ops : o.kind = "set" \/ o.query = q1}

\* Sound: no definition tells two calls or two processes apart.
Interchangeable == Permutations(Calls) \cup Permutations(Processes)
=============================================================================
