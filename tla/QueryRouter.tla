----------------------------- MODULE QueryRouter -----------------------------
(***************************************************************************)
(* routing/query_router.py: the complexity score of a prompt and the model *)
(* it is sent to.  Scores are counted in tenths: the float sums of the     *)
(* code fall on the same side of 0.5 as these.                             *)
(***************************************************************************)
EXTENDS Integers

SmallModel == "gpt-3.5-turbo"
LargeModel == "gpt-4"

ShortQueryThreshold == 80
LongQueryThreshold  == 500

\* What the router looks at: the length in characters, the matches of
\* _COMPLEX_RE, and the full stops, question and exclamation marks.
Signals == [chars : Nat, keywords : Nat, stops : Nat]

LengthSignal(p) ==
    IF p.chars >= LongQueryThreshold THEN 3
    ELSE IF p.chars >= ShortQueryThreshold THEN 1 ELSE 0

KeywordSignal(p) == IF p.keywords * 3 < 6 THEN p.keywords * 3 ELSE 6

SentenceSignal(p) ==
    IF p.stops >= 3 THEN 2 ELSE IF p.stops >= 2 THEN 1 ELSE 0

\* _complexity_score
ComplexityScore(p) ==
    LET score == LengthSignal(p) + KeywordSignal(p) + SentenceSignal(p)
    IN  IF score < 10 THEN score ELSE 10

Route_Above(p) == IF ComplexityScore(p) > 5 THEN LargeModel ELSE SmallModel

Route(p) == IF ComplexityScore(p) >= 5 THEN LargeModel ELSE SmallModel

-----------------------------------------------------------------------------
\* The combinations of signals that earn the large model, the ones that meet the
\* threshold exactly included.
DeservesLarge(p) ==
    LET long == p.chars >= LongQueryThreshold
        mid  == p.chars >= ShortQueryThreshold
    IN  \/ p.keywords >= 2
        \/ p.keywords = 1 /\ (long \/ p.stops >= 3 \/ (mid /\ p.stops >= 2))
        \/ long /\ p.stops >= 3

\* p is no shorter than q and has all that q has.
AtLeast(p, q) ==
    p.chars >= q.chars /\ p.keywords >= q.keywords /\ p.stops >= q.stops
=============================================================================
