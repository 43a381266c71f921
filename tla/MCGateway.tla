------------------------------ MODULE MCGateway ------------------------------
(* A call about a topic in one process, then a call about the same topic in *)
(* the other process, or about a paraphrase of it in the same one.          *)
EXTENDS Gateway

CONSTANTS r1, r2, w1, w2, k1, k2, small, large

MCTopics == {k1, k2}
MCModels == {small, large}

MCScore == [k \in MCTopics |-> [j \in MCTopics |-> IF k = j THEN 100 ELSE 95]]

\* The paraphrases are sent to different models.
MCRouteOf == [k \in MCTopics |-> IF k = k1 THEN small ELSE large]

MCWorkload == {<<r1, k1, w1>>, <<r2, k1, w2>>, <<r2, k2, w1>>}
=============================================================================
