--------------------------- MODULE MCQueryPipeline ---------------------------
(* A few calls of three topics, two of them alike, and two worker processes. *)
EXTENDS QueryPipeline, TLC

CONSTANTS k1, k2, k3, small, large

MCTopics == {k1, k2, k3}
MCModels == {small, large}

\* k1 and k2 are paraphrases that the router sends to different models.
MCAlike   == [k \in MCTopics |-> IF k = k3 THEN {k3} ELSE {k1, k2}]
MCRouteOf == [k \in MCTopics |-> IF k = k1 THEN small ELSE large]

\* Sound for the safety properties: no definition tells two calls or two
\* processes apart.
Interchangeable == Permutations(Requests) \cup Permutations(Workers)
=============================================================================
