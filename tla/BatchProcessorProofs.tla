------------------------- MODULE BatchProcessorProofs -------------------------
(***************************************************************************)
(* The bookkeeping of BatchProcessor, and that it implements BatchService, *)
(* for any number of requests and loops and any batch size.                *)
(***************************************************************************)
EXTENDS BatchProcessor, FiniteSetTheorems, SequenceTheorems, TLAPS

-----------------------------------------------------------------------------
(* The inductive invariant.                                                *)

\* What a loop may hold, by where it is.
BatchesPlaced ==
    \A l \in Loops :
        /\ loop[l] \in {"unborn", "created", "getting", "exited"} => batch[l] = <<>>
        /\ loop[l] = "collecting" =>
              Len(batch[l]) = 1 /\ \A r \in ToSet(batch[l]) : infer[r] = "none"
        /\ loop[l] \in {"flushing", "crashed"} =>
              \A r \in ToSet(batch[l]) : infer[r] # "none"

\* What came of the prompt of r, in a list of results.
OutcomeOf(r, ok) == [of |-> r, ok |-> ok]

\* How the item, the future and the caller of a request go together: a future has
\* been given the outcome of its own prompt, or nothing.
ItemsTracked ==
    \A r \in Requests :
        /\ caller[r] = "idle" <=> future[r] = "none"
        /\ future[r] = "none" => infer[r] = "none"
        /\ future[r] = "result" => infer[r] = "ok" /\ given[r] = {OutcomeOf(r, TRUE)}
        /\ future[r] = "error"  =>
              infer[r] = "failed" /\ given[r] = {OutcomeOf(r, FALSE)}
        /\ future[r] \notin {"result", "error"} => given[r] = {}
        /\ r \in queue => infer[r] = "none"
        /\ r \in Held => future[r] \in {"pending", "cancelled"}
        /\ caller[r] \in {"returned", "raised"} => future[r] \in {"result", "error"}

IInv ==
    /\ TypeOK
    /\ HeldOnce
    /\ UnfinishedIsHeld
    /\ BatchesPlaced
    /\ ItemsTracked
-----------------------------------------------------------------------------
(* Sequences without repetition.                                           *)

LEMMA ToSetConcat ==
    ASSUME NEW S, NEW s \in Seq(S), NEW t \in Seq(S)
    PROVE  ToSet(s \o t) = ToSet(s) \cup ToSet(t)
<1>1. /\ s \o t \in Seq(S)
      /\ Len(s \o t) = Len(s) + Len(t)
      /\ \A i \in 1..Len(s) + Len(t) :
            (s \o t)[i] = IF i <= Len(s) THEN s[i] ELSE t[i - Len(s)]
  BY ConcatProperties
<1>2. /\ DOMAIN s = 1..Len(s) /\ DOMAIN t = 1..Len(t)
      /\ DOMAIN (s \o t) = 1..Len(s) + Len(t)
      /\ Len(s) \in Nat /\ Len(t) \in Nat
  BY <1>1, LenProperties
<1> HIDE DEF ToSet
<1>3. ASSUME NEW x \in ToSet(s \o t) PROVE x \in ToSet(s) \cup ToSet(t)
  <2>1. PICK i \in 1..Len(s) + Len(t) : x = (s \o t)[i]
    BY <1>2, <1>3 DEF ToSet
  <2>2. CASE i <= Len(s)
    BY <1>1, <1>2, <2>1, <2>2 DEF ToSet
  <2>3. CASE ~(i <= Len(s))
    <3>1. i - Len(s) \in 1..Len(t)
      BY <1>2, <2>3
    <3> QED
      BY <1>1, <1>2, <2>1, <2>3, <3>1 DEF ToSet
  <2> QED
    BY <2>2, <2>3
<1>4. ASSUME NEW x \in ToSet(s) PROVE x \in ToSet(s \o t)
  <2>1. PICK i \in 1..Len(s) : x = s[i]
    BY <1>2, <1>4 DEF ToSet
  <2>2. i \in 1..Len(s) + Len(t) /\ i <= Len(s)
    BY <1>2
  <2> QED
    BY <1>1, <1>2, <2>1, <2>2 DEF ToSet
<1>5. ASSUME NEW x \in ToSet(t) PROVE x \in ToSet(s \o t)
  <2>1. PICK i \in 1..Len(t) : x = t[i]
    BY <1>2, <1>5 DEF ToSet
  <2>2. /\ Len(s) + i \in 1..Len(s) + Len(t)
        /\ ~(Len(s) + i <= Len(s)) /\ (Len(s) + i) - Len(s) = i
    BY <1>2
  <2> QED
    BY <1>1, <1>2, <2>1, <2>2 DEF ToSet
<1> QED
  BY <1>3, <1>4, <1>5

LEMMA InjectiveConcat ==
    ASSUME NEW S, NEW s \in Seq(S), NEW t \in Seq(S),
           IsInjective(s), IsInjective(t), ToSet(s) \cap ToSet(t) = {}
    PROVE  IsInjective(s \o t)
<1>1. /\ s \o t \in Seq(S)
      /\ Len(s \o t) = Len(s) + Len(t)
      /\ \A i \in 1..Len(s) + Len(t) :
            (s \o t)[i] = IF i <= Len(s) THEN s[i] ELSE t[i - Len(s)]
  BY ConcatProperties
<1>2. /\ DOMAIN s = 1..Len(s) /\ DOMAIN t = 1..Len(t)
      /\ DOMAIN (s \o t) = 1..Len(s) + Len(t)
      /\ Len(s) \in Nat /\ Len(t) \in Nat
  BY <1>1, LenProperties
<1>3. \A i \in 1..Len(s), j \in 1..Len(t) : s[i] # t[j]
  BY <1>2 DEF ToSet
<1> SUFFICES ASSUME NEW i \in 1..Len(s) + Len(t), NEW j \in 1..Len(s) + Len(t),
                    (s \o t)[i] = (s \o t)[j]
             PROVE  i = j
  BY <1>2 DEF IsInjective
<1>4. CASE i <= Len(s) /\ j <= Len(s)
  BY <1>1, <1>2, <1>4 DEF IsInjective
<1>5. CASE ~(i <= Len(s)) /\ ~(j <= Len(s))
  <2>1. i - Len(s) \in 1..Len(t) /\ j - Len(s) \in 1..Len(t)
    BY <1>2, <1>5
  <2>2. t[i - Len(s)] = t[j - Len(s)]
    BY <1>1, <1>5
  <2>3. i - Len(s) = j - Len(s)
    BY <1>2, <2>1, <2>2 DEF IsInjective
  <2> QED
    BY <1>2, <2>3
<1>6. CASE i <= Len(s) /\ ~(j <= Len(s))
  <2>1. i \in 1..Len(s) /\ j - Len(s) \in 1..Len(t)
    BY <1>2, <1>6
  <2> QED
    BY <1>1, <1>3, <1>6, <2>1
<1>7. CASE ~(i <= Len(s)) /\ j <= Len(s)
  <2>1. j \in 1..Len(s) /\ i - Len(s) \in 1..Len(t)
    BY <1>2, <1>7
  <2> QED
    BY <1>1, <1>3, <1>7, <2>1
<1> QED
  BY <1>4, <1>5, <1>6, <1>7

LEMMA FirstCardinality ==
    ASSUME NEW S, NEW s \in Seq(S), IsInjective(s), NEW n \in 0..Len(s)
    PROVE  IsFiniteSet(First(s, n)) /\ Cardinality(First(s, n)) = n
<1>1. DOMAIN s = 1..Len(s) /\ Len(s) \in Nat
  BY LenProperties
<1> DEFINE f == [i \in 1..n |-> s[i]]
<1>2. f \in Bijection(1..n, First(s, n))
  BY <1>1 DEF Bijection, Injection, Surjection, IsInjective, First
<1>3. ExistsBijection(1..n, First(s, n))
  BY <1>2 DEF ExistsBijection
<1>4. IsFiniteSet(1..n) /\ Cardinality(1..n) = n
  BY FS_Interval
<1> QED
  BY <1>3, <1>4, FS_Bijection

LEMMA SuffixOf ==
    ASSUME NEW S, NEW s \in Seq(S), IsInjective(s), NEW n \in 0..Len(s)
    PROVE  LET t == SubSeq(s, n + 1, Len(s)) IN
           /\ t \in Seq(S)
           /\ IsInjective(t)
           /\ ToSet(t) = ToSet(s) \ First(s, n)
<1> DEFINE t == SubSeq(s, n + 1, Len(s))
           k == Len(s)
           d == k - n
<1>1. DOMAIN s = 1..k /\ k \in Nat /\ n \in Nat /\ n <= k
  BY LenProperties
<1>2. t \in Seq(S) /\ \A i \in 1..(k - (n + 1) + 1) : t[i] = s[(n + 1) + i - 1]
  <2> DEFINE m == n + 1
  <2>1. m \in Int /\ k \in Int /\ \A i \in m..k : s[i] \in S
    BY <1>1, ElementOfSeq
  <2> HIDE DEF m, k
  <2>2. /\ SubSeq(s, m, k) \in Seq(S)
        /\ \A i \in 1..k - m + 1 : SubSeq(s, m, k)[i] = s[m + i - 1]
    BY <2>1, SubSeqProperties
  <2> QED
    BY <2>2 DEF m, k
<1>3. Len(t) = IF n + 1 <= k THEN k - (n + 1) + 1 ELSE 0
  <2> DEFINE m == n + 1
  <2>1. m \in Int /\ k \in Int /\ \A i \in m..k : s[i] \in S
    BY <1>1, ElementOfSeq
  <2> HIDE DEF m, k
  <2>2. Len(SubSeq(s, m, k)) = IF m <= k THEN k - m + 1 ELSE 0
    BY <2>1, SubSeqProperties
  <2> QED
    BY <2>2 DEF m, k
<1> HIDE DEF t, k
<1>4. d \in Nat /\ k - (n + 1) + 1 = d /\ (~(n + 1 <= k) => d = 0)
  BY <1>1
<1>5. Len(t) = d
  BY <1>3, <1>4
<1>6. \A i \in 1..d : t[i] = s[n + i] /\ n + i \in 1..k
  <2> SUFFICES ASSUME NEW i \in 1..d PROVE t[i] = s[n + i] /\ n + i \in 1..k
    OBVIOUS
  <2>1. i \in 1..(k - (n + 1) + 1) /\ (n + 1) + i - 1 = n + i /\ n + i \in 1..k
    BY <1>1, <1>4
  <2> QED
    BY <1>2, <2>1
<1>7. DOMAIN t = 1..d
  BY <1>2, <1>5, LenProperties
<1>8. IsInjective(t)
  <2> SUFFICES ASSUME NEW i \in 1..d, NEW j \in 1..d, t[i] = t[j]
               PROVE  i = j
    BY <1>7 DEF IsInjective
  <2>1. n + i = n + j
    BY <1>1, <1>6 DEF IsInjective
  <2> QED
    BY <1>1, <1>4, <2>1
<1>9. ASSUME NEW x \in ToSet(t) PROVE x \in ToSet(s) \ First(s, n)
  <2>1. PICK i \in 1..d : x = t[i]
    BY <1>7, <1>9 DEF ToSet
  <2>2. n + i \in 1..k /\ x = s[n + i]
    BY <1>6, <2>1
  <2>3. \A j \in 1..n : j \in 1..k /\ j # n + i
    BY <1>1, <1>4, <2>2
  <2>4. \A j \in 1..n : s[j] # x
    BY <1>1, <2>2, <2>3 DEF IsInjective
  <2> QED
    BY <1>1, <2>2, <2>4 DEF ToSet, First
<1>10. ASSUME NEW x \in ToSet(s) \ First(s, n) PROVE x \in ToSet(t)
  <2>1. PICK j \in 1..k : x = s[j]
    BY <1>1, <1>10 DEF ToSet
  <2>2. j \notin 1..n
    BY <1>10, <2>1 DEF First
  <2>3. j - n \in 1..d /\ n + (j - n) = j
    BY <1>1, <2>2
  <2> QED
    BY <1>6, <1>7, <2>1, <2>3 DEF ToSet
<1> QED
  BY <1>2, <1>8, <1>9, <1>10 DEF t

LEMMA ShortSequences ==
    /\ ToSet(<<>>) = {} /\ IsInjective(<<>>)
    /\ \A r : ToSet(<<r>>) = {r} /\ IsInjective(<<r>>)
BY DEF ToSet, IsInjective

-----------------------------------------------------------------------------
(* Who holds what.                                                         *)

LEMMA HeldFinite ==
    ASSUME TypeOK
    PROVE  /\ Held \subseteq Requests
           /\ IsFiniteSet(Held)
           /\ Cardinality(Held) \in Nat
<1>1. \A l \in Loops : ToSet(batch[l]) \subseteq Requests
  <2> SUFFICES ASSUME NEW l \in Loops PROVE ToSet(batch[l]) \subseteq Requests
    OBVIOUS
  <2>1. batch[l] \in Seq(Requests)
    BY DEF TypeOK
  <2> QED
    BY <2>1, LenProperties, ElementOfSeq DEF ToSet
<1>2. Held \subseteq Requests
  BY <1>1 DEF TypeOK, Held, InBatches
<1>3. IsFiniteSet(Held)
  BY <1>2, RequestsAssumption, FS_Subset
<1> QED
  BY <1>2, <1>3, FS_CardinalityType

\* The items in the hands of the loops other than l.
Others(l) == UNION {ToSet(batch[m]) : m \in Loops \ {l}}

LEMMA OneBatch ==
    ASSUME TypeOK, NEW l \in Loops, NEW new,
           batch' = [batch EXCEPT ![l] = new]
    PROVE  /\ InBatches  = Others(l) \cup ToSet(batch[l])
           /\ InBatches' = Others(l) \cup ToSet(new)
<1>1. batch'[l] = new /\ \A m \in Loops \ {l} : batch'[m] = batch[m]
  BY DEF TypeOK
<1> QED
  BY <1>1 DEF InBatches, Others

LEMMA HeldOnceKept ==
    ASSUME TypeOK, HeldOnce, NEW l \in Loops, NEW new,
           batch' = [batch EXCEPT ![l] = new],
           IsInjective(new),
           queue' \subseteq queue,
           ToSet(new) \cap (queue' \cup Others(l)) = {}
    PROVE  HeldOnce'
<1>1. batch'[l] = new /\ \A m \in Loops \ {l} : batch'[m] = batch[m]
  BY DEF TypeOK
<1>2. queue' \cap InBatches' = {}
  BY OneBatch DEF HeldOnce
<1>3. \A m \in Loops : IsInjective(batch'[m])
  BY <1>1 DEF HeldOnce
<1>4. ASSUME NEW k \in Loops, NEW m \in Loops, k # m
      PROVE  ToSet(batch'[k]) \cap ToSet(batch'[m]) = {}
  <2>1. CASE k # l /\ m # l
    BY <1>1, <1>4, <2>1 DEF HeldOnce
  <2>2. CASE k = l
    BY <1>1, <1>4, <2>2 DEF Others
  <2>3. CASE m = l
    BY <1>1, <1>4, <2>3 DEF Others
  <2> QED
    BY <2>1, <2>2, <2>3
<1> QED
  BY <1>2, <1>3, <1>4 DEF HeldOnce

\* Loop l lets go of the first n items of its batch.
LEMMA Unload ==
    ASSUME TypeOK, HeldOnce, unfinished = Cardinality(Held),
           NEW l \in Loops, NEW n \in 0..Len(batch[l]),
           batch' = [batch EXCEPT ![l] = SubSeq(batch[l], n + 1, Len(batch[l]))],
           UNCHANGED queue, unfinished' = unfinished - n
    PROVE  /\ batch' \in [Loops -> Seq(Requests)]
           /\ HeldOnce'
           /\ First(batch[l], n) \subseteq ToSet(batch[l])
           /\ First(batch[l], n) \subseteq Held
           /\ Held' = Held \ First(batch[l], n)
           /\ unfinished' = Cardinality(Held') /\ unfinished' \in Nat
           /\ \A m \in Loops : ToSet(batch'[m]) \subseteq ToSet(batch[m])
<1> DEFINE s == batch[l]
           rest == SubSeq(s, n + 1, Len(s))
<1>1. s \in Seq(Requests) /\ IsInjective(s) /\ n \in 0..Len(s)
  BY DEF TypeOK, HeldOnce
<1>2. /\ rest \in Seq(Requests) /\ IsInjective(rest)
      /\ ToSet(rest) = ToSet(s) \ First(s, n)
  BY <1>1, SuffixOf
<1>3. IsFiniteSet(First(s, n)) /\ Cardinality(First(s, n)) = n
  BY <1>1, FirstCardinality
<1>4. First(s, n) \subseteq ToSet(s)
  <2>1. DOMAIN s = 1..Len(s) /\ 1..n \subseteq 1..Len(s)
    BY <1>1, LenProperties
  <2> QED
    BY <2>1 DEF First, ToSet
<1> HIDE DEF rest
<1>5. batch' = [batch EXCEPT ![l] = rest]
  BY DEF rest
<1> HIDE DEF s
<1>6. InBatches = Others(l) \cup ToSet(s) /\ InBatches' = Others(l) \cup ToSet(rest)
  BY <1>5, OneBatch DEF s
<1>7. ToSet(s) \cap (queue \cup Others(l)) = {}
  BY DEF HeldOnce, Others, InBatches, s
<1>8. Held' = Held \ First(s, n) /\ First(s, n) \subseteq Held
  BY <1>2, <1>4, <1>6, <1>7 DEF Held
<1>9. HeldOnce'
  BY <1>2, <1>5, <1>7, HeldOnceKept
<1>10. unfinished' = Cardinality(Held')
  <2>1. Held \cap First(s, n) = First(s, n)
    BY <1>8
  <2>2. Cardinality(Held \ First(s, n)) = Cardinality(Held) - Cardinality(First(s, n))
    BY <2>1, HeldFinite, FS_Difference
  <2> QED
    BY <1>3, <1>8, <2>2
<1>11. unfinished' \in Nat
  BY <1>8, <1>10, HeldFinite, FS_Difference, FS_CardinalityType
<1>12. batch' \in [Loops -> Seq(Requests)]
  BY <1>2, <1>5 DEF TypeOK
<1>13. ASSUME NEW m \in Loops PROVE ToSet(batch'[m]) \subseteq ToSet(batch[m])
  BY <1>2, <1>5 DEF TypeOK, s
<1> QED
  BY <1>4, <1>8, <1>9, <1>10, <1>11, <1>12, <1>13 DEF s

-----------------------------------------------------------------------------
(* Every action preserves the invariant.                                   *)

\* The steps that touch neither an item nor a future.
LEMMA QuietStep ==
    ASSUME IInv, TypeOK',
           UNCHANGED <<queue, unfinished, future, given, infer, batch>>,
           \A r \in Requests :
              \/ caller'[r] = caller[r]
              \/ /\ caller[r] # "idle" /\ caller'[r] # "idle"
                 /\ future[r] \in {"result", "error"},
           \A l \in Loops :
              \/ loop'[l] = loop[l]
              \/ batch[l] = <<>> /\ loop'[l] \in {"created", "getting", "exited"}
    PROVE  IInv'
<1>1. InBatches' = InBatches /\ Held' = Held
  BY DEF InBatches, Held
<1>2. HeldOnce' /\ UnfinishedIsHeld'
  BY <1>1 DEF IInv, HeldOnce, UnfinishedIsHeld
<1>3. BatchesPlaced'
  BY DEF IInv, BatchesPlaced
<1>4. ItemsTracked'
  BY <1>1 DEF IInv, ItemsTracked
<1> QED
  BY <1>2, <1>3, <1>4 DEF IInv

LEMMA ResumeQuiet ==
    ASSUME IInv, NEW r \in Requests, Resume(r)
    PROVE  IInv'
<1>1. TypeOK'
  BY DEF IInv, TypeOK, Resume
<1> QED
  BY <1>1, QuietStep DEF IInv, TypeOK, BatchesPlaced, Resume

LEMMA StartQuiet ==
    ASSUME IInv, NEW l \in Loops, Start(l)
    PROVE  IInv'
<1>1. TypeOK'
  BY DEF IInv, TypeOK, Start
<1> QED
  BY <1>1, QuietStep DEF IInv, TypeOK, BatchesPlaced, Start

LEMMA StopCallQuiet ==
    ASSUME IInv, StopCall
    PROVE  IInv'
<1>1. TypeOK'
  BY DEF IInv, TypeOK, StopCall
<1> QED
  BY <1>1, QuietStep DEF IInv, TypeOK, BatchesPlaced, StopCall

LEMMA StopReturnQuiet ==
    ASSUME IInv, StopReturn
    PROVE  IInv'
<1>1. TypeOK'
  BY DEF IInv, TypeOK, StopReturn
<1> QED
  BY <1>1, QuietStep DEF IInv, TypeOK, BatchesPlaced, StopReturn

LEMMA LoopBeginQuiet ==
    ASSUME IInv, NEW l \in Loops, LoopBegin(l)
    PROVE  IInv'
<1>1. TypeOK'
  BY DEF IInv, TypeOK, LoopBegin, WhileRunning
<1> QED
  BY <1>1, QuietStep DEF IInv, TypeOK, BatchesPlaced, LoopBegin, WhileRunning

LEMMA TimeoutExitQuiet ==
    ASSUME IInv, NEW l \in Loops, TimeoutExit(l)
    PROVE  IInv'
<1>1. TypeOK'
  BY DEF IInv, TypeOK, TimeoutExit, WhileRunning
<1> QED
  BY <1>1, QuietStep DEF IInv, TypeOK, BatchesPlaced, TimeoutExit, WhileRunning

LEMMA SubmitStep ==
    ASSUME IInv, NEW r \in Requests, Submit(r)
    PROVE  IInv'
<1>1. r \notin Held /\ future[r] = "none" /\ infer[r] = "none"
  BY DEF IInv, ItemsTracked, Submit
<1>2. InBatches' = InBatches /\ Held' = Held \cup {r}
  BY DEF Submit, InBatches, Held
<1>3. TypeOK'
  BY DEF IInv, TypeOK, Submit
<1>4. HeldOnce'
  BY <1>1, <1>2 DEF IInv, HeldOnce, Held, Submit
<1>5. UnfinishedIsHeld'
  <2>1. Cardinality(Held') = Cardinality(Held) + 1
    BY <1>1, <1>2, HeldFinite, FS_AddElement DEF IInv
  <2>2. \A q \in Requests : future'[q] = "pending" => q \in Held'
    BY <1>2 DEF IInv, TypeOK, UnfinishedIsHeld, Submit
  <2> QED
    BY <2>1, <2>2 DEF IInv, UnfinishedIsHeld, Submit
<1>6. BatchesPlaced'
  BY DEF IInv, BatchesPlaced, Submit
<1>7. ItemsTracked'
  BY <1>1, <1>2 DEF IInv, TypeOK, ItemsTracked, Submit
<1> QED
  BY <1>3, <1>4, <1>5, <1>6, <1>7 DEF IInv

LEMMA CancelCallerStep ==
    ASSUME IInv, NEW r \in Requests, CancelCaller(r)
    PROVE  IInv'
<1>1. InBatches' = InBatches /\ Held' = Held
  BY DEF CancelCaller, InBatches, Held
<1>2. TypeOK'
  BY DEF IInv, TypeOK, CancelCaller
<1>3. HeldOnce' /\ UnfinishedIsHeld'
  BY <1>1 DEF IInv, TypeOK, HeldOnce, UnfinishedIsHeld, CancelCaller
<1>4. BatchesPlaced'
  BY DEF IInv, BatchesPlaced, CancelCaller
<1>5. ItemsTracked'
  BY <1>1 DEF IInv, TypeOK, ItemsTracked, CancelCaller
<1> QED
  BY <1>2, <1>3, <1>4, <1>5 DEF IInv

LEMMA InferEndStep ==
    ASSUME IInv, NEW r \in Requests, InferEnd(r)
    PROVE  IInv'
<1>1. InBatches' = InBatches /\ Held' = Held
  BY DEF InferEnd, InBatches, Held
<1>2. TypeOK'
  BY DEF IInv, TypeOK, InferEnd
<1>3. HeldOnce' /\ UnfinishedIsHeld'
  BY <1>1 DEF IInv, HeldOnce, UnfinishedIsHeld, InferEnd
<1>4. PICK outcome \in {"ok", "failed"} : infer' = [infer EXCEPT ![r] = outcome]
  BY DEF InferEnd
<1>5. /\ infer[r] = "running" /\ infer'[r] # "none"
      /\ \A q \in Requests \ {r} : infer'[q] = infer[q]
  BY <1>4 DEF IInv, TypeOK, InferEnd
<1>6. BatchesPlaced'
  <2>1. \A l \in Loops : ToSet(batch[l]) \subseteq Requests
    BY HeldFinite DEF IInv, Held, InBatches
  <2> QED
    BY <1>5, <2>1 DEF IInv, BatchesPlaced, InferEnd
<1>7. ItemsTracked'
  BY <1>1, <1>5 DEF IInv, ItemsTracked, InferEnd
<1> QED
  BY <1>2, <1>3, <1>6, <1>7 DEF IInv

LEMMA GetFirstStep ==
    ASSUME IInv, NEW l \in Loops, GetFirst(l)
    PROVE  IInv'
<1>1. PICK r \in queue : /\ queue' = queue \ {r}
                        /\ batch' = [batch EXCEPT ![l] = <<r>>]
  BY DEF GetFirst, Poppable
<1>2. r \in Requests /\ infer[r] = "none" /\ batch[l] = <<>>
  BY DEF IInv, TypeOK, ItemsTracked, BatchesPlaced, GetFirst
<1>3. ToSet(<<r>>) = {r} /\ IsInjective(<<r>>) /\ ToSet(batch[l]) = {}
  BY <1>2, ShortSequences
<1>4. <<r>> \in Seq(Requests) /\ Len(<<r>>) = 1
  BY <1>2
<1>5. InBatches = Others(l) /\ InBatches' = Others(l) \cup {r}
  BY <1>1, <1>3, OneBatch DEF IInv
<1>6. Held' = Held
  BY <1>1, <1>5 DEF Held
<1>7. TypeOK'
  BY <1>1, <1>4 DEF IInv, TypeOK, GetFirst
<1>8. HeldOnce'
  <2>1. ToSet(<<r>>) \cap (queue' \cup Others(l)) = {}
    BY <1>1, <1>3, <1>5 DEF IInv, HeldOnce
  <2>2. TypeOK /\ HeldOnce /\ queue' \subseteq queue
    BY <1>1 DEF IInv
  <2> QED
    BY <1>1, <1>3, <2>1, <2>2, HeldOnceKept
<1>9. UnfinishedIsHeld'
  BY <1>6 DEF IInv, UnfinishedIsHeld, GetFirst
<1>10. BatchesPlaced'
  <2> SUFFICES ASSUME NEW m \in Loops
               PROVE  /\ loop'[m] \in {"unborn", "created", "getting", "exited"}
                           => batch'[m] = <<>>
                      /\ loop'[m] = "collecting" =>
                            /\ Len(batch'[m]) = 1
                            /\ \A q \in ToSet(batch'[m]) : infer'[q] = "none"
                      /\ loop'[m] \in {"flushing", "crashed"} =>
                            \A q \in ToSet(batch'[m]) : infer'[q] # "none"
    BY DEF BatchesPlaced
  <2>1. infer' = infer
    BY DEF GetFirst
  <2>2. CASE m = l
    <3>1. batch'[m] = <<r>> /\ loop'[m] = "collecting"
      BY <1>1, <2>2 DEF IInv, TypeOK, GetFirst
    <3> QED
      BY <1>2, <1>3, <1>4, <2>1, <3>1
  <2>3. CASE m # l
    <3>1. batch'[m] = batch[m] /\ loop'[m] = loop[m]
      BY <1>1, <2>3 DEF IInv, TypeOK, GetFirst
    <3> QED
      BY <2>1, <3>1 DEF IInv, BatchesPlaced
  <2> QED
    BY <2>2, <2>3
<1>11. ItemsTracked'
  BY <1>1, <1>6 DEF IInv, ItemsTracked, GetFirst
<1> QED
  BY <1>7, <1>8, <1>9, <1>10, <1>11 DEF IInv

\* What get_nowait took is a sequence of distinct items of the queue.
LEMMA PopsFromQueue ==
    ASSUME NEW q \in SUBSET Requests, NEW n \in Nat, NEW more \in Pops(q, n)
    PROVE  /\ more \in Seq(Requests)
           /\ Len(more) <= n
           /\ IsInjective(more)
           /\ ToSet(more) \subseteq q
<1>1. PICK m \in 0..n : more \in [1..m -> q]
  BY DEF Pops
<1>2. more \in Seq(q) /\ Len(more) = m /\ ToSet(more) \subseteq q
  BY <1>1 DEF ToSet
<1>3. more \in Seq(Requests)
  BY <1>2, SeqMonotonic
<1>4. IsInjective(more)
  BY DEF Pops
<1> QED
  BY <1>2, <1>3, <1>4

\* How Collect hands a batch to the engine.
LEMMA Collected ==
    ASSUME IInv, NEW l \in Loops, Collect(l)
    PROVE  \E taken \in Seq(Requests) :
              /\ batch' = [batch EXCEPT ![l] = taken]
              /\ IsInjective(taken)
              /\ Len(taken) \in 1..BatchSize
              /\ ToSet(taken) = ToSet(batch[l]) \cup (queue \ queue')
              /\ ToSet(batch[l]) \subseteq ToSet(taken)
              /\ queue' \subseteq queue
              /\ ToSet(taken) \cap (queue' \cup Others(l)) = {}
              /\ \A r \in ToSet(taken) : r \in Held /\ infer[r] = "none"
              /\ infer' = [r \in Requests |->
                             IF r \in ToSet(taken) THEN "running" ELSE infer[r]]
<1>1. PICK more \in Pops(queue, BatchSize - 1) :
         /\ batch' = [batch EXCEPT ![l] = batch[l] \o more]
         /\ queue' = queue \ ToSet(more)
         /\ infer' = [r \in Requests |-> IF r \in ToSet(batch[l] \o more)
                                         THEN "running" ELSE infer[r]]
  BY DEF Collect
<1>2. BatchSize - 1 \in Nat /\ queue \subseteq Requests
  BY BatchSizeAssumption DEF IInv, TypeOK
<1>3. /\ more \in Seq(Requests) /\ Len(more) <= BatchSize - 1 /\ Len(more) \in Nat
      /\ IsInjective(more) /\ ToSet(more) \subseteq queue
  BY <1>2, PopsFromQueue, LenProperties
<1>4. /\ batch[l] \in Seq(Requests) /\ Len(batch[l]) = 1 /\ IsInjective(batch[l])
      /\ \A r \in ToSet(batch[l]) : infer[r] = "none"
  BY DEF IInv, TypeOK, HeldOnce, BatchesPlaced, Collect
<1>5. /\ ToSet(batch[l]) \subseteq InBatches
      /\ Others(l) \subseteq InBatches
      /\ ToSet(batch[l]) \cap Others(l) = {}
      /\ queue \cap InBatches = {}
  BY DEF IInv, HeldOnce, InBatches, Others
<1> DEFINE taken == batch[l] \o more
<1>6. /\ taken \in Seq(Requests)
      /\ Len(taken) = 1 + Len(more)
      /\ ToSet(taken) = ToSet(batch[l]) \cup ToSet(more)
  <2>1. taken \in Seq(Requests) /\ Len(taken) = Len(batch[l]) + Len(more)
    BY <1>3, <1>4, ConcatProperties
  <2>2. ToSet(taken) = ToSet(batch[l]) \cup ToSet(more)
    BY <1>3, <1>4, ToSetConcat
  <2> QED
    BY <1>4, <2>1, <2>2
<1>7. IsInjective(taken)
  <2>1. ToSet(batch[l]) \cap ToSet(more) = {}
    BY <1>3, <1>5
  <2> QED
    BY <1>3, <1>4, <2>1, InjectiveConcat
<1> HIDE DEF taken
<1>8. Len(taken) \in 1..BatchSize
  BY <1>3, <1>6, BatchSizeAssumption
<1>9. ToSet(taken) = ToSet(batch[l]) \cup (queue \ queue') /\ queue' \subseteq queue
  BY <1>1, <1>3, <1>6
<1>10. ToSet(taken) \cap (queue' \cup Others(l)) = {}
  BY <1>1, <1>3, <1>5, <1>6
<1>11. \A r \in ToSet(taken) : r \in Held /\ infer[r] = "none"
  BY <1>2, <1>3, <1>4, <1>5, <1>6 DEF IInv, ItemsTracked, Held
<1> QED
  BY <1>1, <1>6, <1>7, <1>8, <1>9, <1>10, <1>11 DEF taken

LEMMA CollectStep ==
    ASSUME IInv, NEW l \in Loops, Collect(l)
    PROVE  IInv'
<1>1. PICK taken \in Seq(Requests) :
              /\ batch' = [batch EXCEPT ![l] = taken]
              /\ IsInjective(taken)
              /\ ToSet(taken) = ToSet(batch[l]) \cup (queue \ queue')
              /\ queue' \subseteq queue
              /\ ToSet(taken) \cap (queue' \cup Others(l)) = {}
              /\ \A r \in ToSet(taken) : r \in Held /\ infer[r] = "none"
              /\ infer' = [r \in Requests |->
                             IF r \in ToSet(taken) THEN "running" ELSE infer[r]]
  BY Collected
<1>2. TypeOK /\ HeldOnce
  BY DEF IInv
<1>3. InBatches = Others(l) \cup ToSet(batch[l]) /\ InBatches' = Others(l) \cup ToSet(taken)
  BY <1>1, <1>2, OneBatch
<1>4. Held' = Held
  BY <1>1, <1>3 DEF Held
<1>5. TypeOK'
  BY <1>1 DEF IInv, TypeOK, Collect
<1>6. HeldOnce'
  BY <1>1, <1>2, HeldOnceKept
<1>7. UnfinishedIsHeld'
  BY <1>4 DEF IInv, UnfinishedIsHeld, Collect
<1>8. BatchesPlaced'
  <2> SUFFICES ASSUME NEW m \in Loops
               PROVE  /\ loop'[m] \in {"unborn", "created", "getting", "exited"}
                           => batch'[m] = <<>>
                      /\ loop'[m] = "collecting" =>
                            /\ Len(batch'[m]) = 1
                            /\ \A q \in ToSet(batch'[m]) : infer'[q] = "none"
                      /\ loop'[m] \in {"flushing", "crashed"} =>
                            \A q \in ToSet(batch'[m]) : infer'[q] # "none"
    BY DEF BatchesPlaced
  <2>1. CASE m = l
    <3>1. batch'[m] = taken /\ loop'[m] = "flushing"
      BY <1>1, <2>1 DEF IInv, TypeOK, Collect
    <3>2. \A q \in ToSet(taken) : q \in Requests /\ infer'[q] = "running"
      BY <1>1, <1>2, HeldFinite
    <3> QED
      BY <3>1, <3>2
  <2>2. CASE m # l
    <3>1. batch'[m] = batch[m] /\ loop'[m] = loop[m]
      BY <1>1, <2>2 DEF IInv, TypeOK, Collect
    <3>2. \A q \in ToSet(batch[m]) : q \in Held /\ q \in Others(l)
      BY <2>2 DEF Held, InBatches, Others
    <3>3. \A q \in ToSet(batch[m]) : q \in Requests /\ infer'[q] = infer[q]
      BY <1>1, <1>2, <3>2, HeldFinite
    <3> QED
      BY <3>1, <3>3 DEF IInv, BatchesPlaced
  <2> QED
    BY <2>1, <2>2
<1>9. ItemsTracked'
  <2> SUFFICES ASSUME NEW q \in Requests
               PROVE  /\ caller'[q] = "idle" <=> future'[q] = "none"
                      /\ future'[q] = "none" => infer'[q] = "none"
                      /\ future'[q] = "result" =>
                            infer'[q] = "ok" /\ given'[q] = {OutcomeOf(q, TRUE)}
                      /\ future'[q] = "error" =>
                            infer'[q] = "failed" /\ given'[q] = {OutcomeOf(q, FALSE)}
                      /\ future'[q] \notin {"result", "error"} => given'[q] = {}
                      /\ q \in queue' => infer'[q] = "none"
                      /\ q \in Held' => future'[q] \in {"pending", "cancelled"}
                      /\ caller'[q] \in {"returned", "raised"} =>
                            future'[q] \in {"result", "error"}
    BY DEF ItemsTracked
  <2>1. UNCHANGED <<future, given, caller>>
    BY DEF Collect
  <2>2. CASE q \in ToSet(taken)
    BY <1>1, <1>4, <2>1, <2>2 DEF IInv, ItemsTracked
  <2>3. CASE q \notin ToSet(taken)
    BY <1>1, <1>4, <2>1, <2>3 DEF IInv, ItemsTracked
  <2> QED
    BY <2>2, <2>3
<1> QED
  BY <1>5, <1>6, <1>7, <1>8, <1>9 DEF IInv

-----------------------------------------------------------------------------
(* A batch is delivered.                                                   *)

\* zip gives every future the outcome of its own prompt.
LEMMA Resolved ==
    ASSUME TypeOK, NEW s \in Seq(Requests), NEW k \in 0..Len(s), Resolve(s, k)
    PROVE  /\ \A r \in First(s, k) :
                 /\ future'[r] = IF infer[r] = "ok" THEN "result" ELSE "error"
                 /\ infer[r] = "ok" => given'[r] = given[r] \cup {OutcomeOf(r, TRUE)}
                 /\ infer[r] # "ok" => given'[r] = given[r] \cup {OutcomeOf(r, FALSE)}
           /\ \A r \in Requests \ First(s, k) :
                 future'[r] = future[r] /\ given'[r] = given[r]
           /\ First(s, k) \subseteq Requests
           /\ future' \in [Requests -> {"none", "pending", "result", "error", "cancelled"}]
           /\ given' \in [Requests -> SUBSET [of : Requests, ok : BOOLEAN]]
<1> DEFINE places(r) == {j \in 1..k : s[j] = r}
           handed(r) == {Gather(s)[i] : i \in places(r)}
<1>1. /\ DOMAIN s = 1..Len(s) /\ 1..k \subseteq 1..Len(s)
      /\ \A i \in 1..Len(s) : s[i] \in Requests
  BY LenProperties, ElementOfSeq
<1>2. First(s, k) \subseteq Requests
  BY <1>1 DEF First
<1>3. \A i \in 1..k : Gather(s)[i] = OutcomeOf(s[i], infer[s[i]] = "ok")
  BY <1>1 DEF Gather, OutcomeOf
<1>4. ASSUME NEW r \in First(s, k)
      PROVE  /\ infer[r] = "ok" => handed(r) = {OutcomeOf(r, TRUE)}
             /\ infer[r] # "ok" => handed(r) = {OutcomeOf(r, FALSE)}
  <2>1. \E i \in 1..k : s[i] = r
    BY <1>4 DEF First
  <2>2. handed(r) = {OutcomeOf(r, infer[r] = "ok")}
    BY <1>3, <2>1
  <2> HIDE DEF handed
  <2>3. (infer[r] = "ok") \in BOOLEAN
    OBVIOUS
  <2>4. CASE infer[r] = "ok"
    <3>1. OutcomeOf(r, infer[r] = "ok") = OutcomeOf(r, TRUE)
      BY <2>4 DEF OutcomeOf
    <3> QED  BY <2>2, <2>4, <3>1
  <2>5. CASE infer[r] # "ok"
    <3>1. OutcomeOf(r, infer[r] = "ok") = OutcomeOf(r, FALSE)
      BY <2>5 DEF OutcomeOf
    <3> QED  BY <2>2, <2>5, <3>1
  <2> QED
    BY <2>4, <2>5
<1>5. ASSUME NEW r \in Requests \ First(s, k) PROVE handed(r) = {}
  BY DEF First
<1>6. /\ given'  = [r \in Requests |-> given[r] \cup handed(r)]
      /\ future' = [r \in Requests |->
                      IF handed(r) = {} THEN future[r]
                      ELSE IF \E outcome \in handed(r) : outcome.ok THEN "result"
                      ELSE "error"]
  BY DEF Resolve
<1> HIDE DEF handed
<1>7. \A r : OutcomeOf(r, TRUE).ok = TRUE /\ OutcomeOf(r, FALSE).ok = FALSE
  BY DEF OutcomeOf
<1>8. ASSUME NEW r \in First(s, k)
      PROVE  /\ future'[r] = IF infer[r] = "ok" THEN "result" ELSE "error"
             /\ infer[r] = "ok" => given'[r] = given[r] \cup {OutcomeOf(r, TRUE)}
             /\ infer[r] # "ok" => given'[r] = given[r] \cup {OutcomeOf(r, FALSE)}
  <2>1. r \in Requests
    BY <1>2
  <2>2. CASE infer[r] = "ok"
    BY <1>4, <1>6, <1>7, <2>1, <2>2
  <2>3. CASE infer[r] # "ok"
    BY <1>4, <1>6, <1>7, <2>1, <2>3
  <2> QED
    BY <2>2, <2>3
<1>9. \A r \in Requests \ First(s, k) : future'[r] = future[r] /\ given'[r] = given[r]
  BY <1>5, <1>6
<1>10. future' \in [Requests -> {"none", "pending", "result", "error", "cancelled"}]
  BY <1>6 DEF TypeOK
<1>11. given' \in [Requests -> SUBSET [of : Requests, ok : BOOLEAN]]
  <2>1. \A r \in Requests : OutcomeOf(r, TRUE) \in [of : Requests, ok : BOOLEAN]
                          /\ OutcomeOf(r, FALSE) \in [of : Requests, ok : BOOLEAN]
    BY DEF OutcomeOf
  <2>2. \A r \in Requests : handed(r) \subseteq [of : Requests, ok : BOOLEAN]
    BY <1>4, <1>5, <2>1
  <2> QED
    BY <1>6, <2>2 DEF TypeOK
<1> QED
  BY <1>2, <1>8, <1>9, <1>10, <1>11

\* The successes among the first n results are those of the first n items.
LEMMA Successes ==
    ASSUME NEW s \in Seq(Requests), IsInjective(s), NEW n \in 0..Len(s),
           CountProcessed(s, n)
    PROVE  totalProcessed' = totalProcessed
                             + Cardinality({r \in First(s, n) : infer[r] = "ok"})
<1> DEFINE good == {i \in 1..n : Gather(s)[i].ok}
           items == {r \in First(s, n) : infer[r] = "ok"}
           f == [i \in good |-> s[i]]
<1>1. DOMAIN s = 1..Len(s) /\ 1..n \subseteq 1..Len(s)
  BY LenProperties
<1>2. good = {i \in 1..n : infer[s[i]] = "ok"}
  BY <1>1 DEF Gather
<1>3. f \in Bijection(good, items)
  BY <1>1, <1>2 DEF Bijection, Injection, Surjection, IsInjective, First
<1>4. IsFiniteSet(good)
  <2>1. IsFiniteSet(1..n) /\ good \subseteq 1..n
    BY FS_Interval
  <2> QED
    BY <2>1, FS_Subset
<1>5. Cardinality(items) = Cardinality(good)
  <2> HIDE DEF good, items
  <2>1. ExistsBijection(good, items)
    BY <1>3 DEF ExistsBijection
  <2> QED
    BY <1>4, <2>1, FS_Bijection
<1> QED
  BY <1>5 DEF CountProcessed

\* What Flush and FlushCrash share: loop l is done with the first n items of
\* its batch, of which the first k had a caller to answer.
LEMMA Delivered ==
    ASSUME IInv, NEW l \in Loops, Gathered(l),
           NEW n \in 0..Len(batch[l]), NEW k \in 0..n,
           \A r \in First(batch[l], n) \ First(batch[l], k) : future[r] = "cancelled",
           NEW next, loop' = [loop EXCEPT ![l] = next],
           \/ next = "crashed"
           \/ next \in {"getting", "exited"} /\ n = Len(batch[l]),
           Resolve(batch[l], k), TaskDone(n), CountProcessed(batch[l], n),
           batch' = [batch EXCEPT ![l] = SubSeq(batch[l], n + 1, Len(batch[l]))],
           UNCHANGED <<running, queue, caller, infer>>
    PROVE  IInv'
<1> DEFINE gone == First(batch[l], n)
           done == First(batch[l], k)
<1>1. /\ batch' \in [Loops -> Seq(Requests)]
      /\ HeldOnce'
      /\ gone \subseteq ToSet(batch[l]) /\ gone \subseteq Held
      /\ Held' = Held \ gone
      /\ unfinished' = Cardinality(Held') /\ unfinished' \in Nat
      /\ \A m \in Loops : ToSet(batch'[m]) \subseteq ToSet(batch[m])
  BY Unload DEF IInv, UnfinishedIsHeld, TaskDone
<1>2. Held \subseteq Requests
  BY HeldFinite DEF IInv
<1>3. /\ \A r \in done :
            /\ future'[r] = IF infer[r] = "ok" THEN "result" ELSE "error"
            /\ infer[r] = "ok" => given'[r] = given[r] \cup {OutcomeOf(r, TRUE)}
            /\ infer[r] # "ok" => given'[r] = given[r] \cup {OutcomeOf(r, FALSE)}
      /\ \A r \in Requests \ done : future'[r] = future[r] /\ given'[r] = given[r]
      /\ future' \in [Requests -> {"none", "pending", "result", "error", "cancelled"}]
      /\ given' \in [Requests -> SUBSET [of : Requests, ok : BOOLEAN]]
  <2>1. TypeOK /\ batch[l] \in Seq(Requests) /\ k \in 0..Len(batch[l])
    BY LenProperties DEF IInv, TypeOK
  <2> QED
    BY <2>1, Resolved
<1>4. totalProcessed' \in Nat
  <2>1. batch[l] \in Seq(Requests) /\ IsInjective(batch[l])
    BY DEF IInv, TypeOK, HeldOnce
  <2>2. totalProcessed' = totalProcessed + Cardinality({r \in gone : infer[r] = "ok"})
    BY <2>1, Successes
  <2>3. IsFiniteSet({r \in gone : infer[r] = "ok"})
    BY <1>1, <1>2, RequestsAssumption, FS_Subset
  <2>4. Cardinality({r \in gone : infer[r] = "ok"}) \in Nat
    BY <2>3, FS_CardinalityType
  <2> QED
    BY <2>2, <2>4 DEF IInv, TypeOK
<1>12. done \subseteq gone
  <2>1. 1..k \subseteq 1..n
    OBVIOUS
  <2> QED
    BY <2>1 DEF First
<1>13. \A r \in gone \ done : future[r] = "cancelled"
  OBVIOUS
<1> HIDE DEF done, gone
<1>5. TypeOK'
  BY <1>1, <1>3, <1>4 DEF IInv, TypeOK, TaskDone
<1>6. UnfinishedIsHeld'
  <2> SUFFICES ASSUME NEW r \in Requests, future'[r] = "pending"
               PROVE  r \in Held'
    BY <1>1 DEF UnfinishedIsHeld
  <2>1. r \notin done /\ future[r] = "pending"
    BY <1>3
  <2>2. r \in Held /\ r \notin gone
    BY <1>13, <2>1 DEF IInv, UnfinishedIsHeld
  <2> QED
    BY <1>1, <2>2
<1>7. BatchesPlaced'
  <2> SUFFICES ASSUME NEW m \in Loops
               PROVE  /\ loop'[m] \in {"unborn", "created", "getting", "exited"}
                           => batch'[m] = <<>>
                      /\ loop'[m] = "collecting" =>
                            /\ Len(batch'[m]) = 1
                            /\ \A q \in ToSet(batch'[m]) : infer'[q] = "none"
                      /\ loop'[m] \in {"flushing", "crashed"} =>
                            \A q \in ToSet(batch'[m]) : infer'[q] # "none"
    BY DEF BatchesPlaced
  <2>1. CASE m # l
    <3>1. batch'[m] = batch[m] /\ loop'[m] = loop[m]
      BY <2>1 DEF IInv, TypeOK
    <3> QED
      BY <3>1 DEF IInv, BatchesPlaced
  <2>2. CASE m = l
    <3>1. /\ batch'[m] = SubSeq(batch[m], n + 1, Len(batch[m]))
          /\ loop'[m] = next
      BY <2>2 DEF IInv, TypeOK
    <3>2. \A q \in ToSet(batch'[m]) : infer'[q] # "none"
      BY <1>1, <2>2 DEF Gathered
    <3>3. CASE next = "crashed"
      BY <3>1, <3>2, <3>3
    <3>4. CASE next \in {"getting", "exited"} /\ n = Len(batch[l])
      <4>1. batch[l] \in Seq(Requests) /\ Len(batch[l]) \in Nat
        BY LenProperties DEF IInv, TypeOK
      <4>2. batch'[m] = <<>>
        BY <2>2, <3>1, <3>4, <4>1, SubSeqEmpty
      <4> QED
        BY <3>1, <3>4, <4>2
    <3> QED
      BY <3>3, <3>4
  <2> QED
    BY <2>1, <2>2
<1>8. ItemsTracked'
  <2> SUFFICES ASSUME NEW r \in Requests
               PROVE  /\ caller'[r] = "idle" <=> future'[r] = "none"
                      /\ future'[r] = "none" => infer'[r] = "none"
                      /\ future'[r] = "result" =>
                            infer'[r] = "ok" /\ given'[r] = {OutcomeOf(r, TRUE)}
                      /\ future'[r] = "error" =>
                            infer'[r] = "failed" /\ given'[r] = {OutcomeOf(r, FALSE)}
                      /\ future'[r] \notin {"result", "error"} => given'[r] = {}
                      /\ r \in queue' => infer'[r] = "none"
                      /\ r \in Held' => future'[r] \in {"pending", "cancelled"}
                      /\ caller'[r] \in {"returned", "raised"} =>
                            future'[r] \in {"result", "error"}
    BY DEF ItemsTracked
  <2>1. CASE r \in done
    <3>1. r \notin Held' /\ r \in Held
      BY <1>1, <1>12, <2>1
    <3>2. infer[r] \in {"ok", "failed"}
      BY <1>1, <1>12, <2>1 DEF Gathered
    <3>3. given[r] = {} /\ caller[r] # "idle"
      BY <3>1 DEF IInv, ItemsTracked
    <3>4. CASE infer[r] = "ok"
      <4>1. future'[r] = "result" /\ given'[r] = {OutcomeOf(r, TRUE)}
        BY <1>3, <2>1, <3>3, <3>4
      <4> QED
        BY <3>1, <3>3, <3>4, <4>1 DEF IInv, ItemsTracked
    <3>5. CASE infer[r] = "failed"
      <4>1. future'[r] = "error" /\ given'[r] = {OutcomeOf(r, FALSE)}
        BY <1>3, <2>1, <3>3, <3>5
      <4> QED
        BY <3>1, <3>3, <3>5, <4>1 DEF IInv, ItemsTracked
    <3> QED
      BY <3>2, <3>4, <3>5
  <2>2. CASE r \notin done
    BY <1>1, <1>3, <2>2 DEF IInv, ItemsTracked
  <2> QED
    BY <2>1, <2>2
<1> QED
  BY <1>1, <1>5, <1>6, <1>7, <1>8 DEF IInv

LEMMA WholeBatch ==
    ASSUME NEW S, NEW s \in Seq(S)
    PROVE  /\ Len(s) \in 0..Len(s)
           /\ First(s, Len(s)) = ToSet(s)
           /\ SubSeq(s, Len(s) + 1, Len(s)) = <<>>
<1>1. DOMAIN s = 1..Len(s) /\ Len(s) \in Nat
  BY LenProperties
<1> QED
  BY <1>1, SubSeqEmpty DEF First, ToSet

LEMMA FlushStep ==
    ASSUME IInv, NEW l \in Loops, Flush(l)
    PROVE  IInv'
<1>1. batch[l] \in Seq(Requests)
  BY DEF IInv, TypeOK
<1>2. /\ Len(batch[l]) \in 0..Len(batch[l])
      /\ First(batch[l], Len(batch[l])) = ToSet(batch[l])
      /\ SubSeq(batch[l], Len(batch[l]) + 1, Len(batch[l])) = <<>>
  BY <1>1, WholeBatch
<1>3. PICK next \in {"getting", "exited"} : loop' = [loop EXCEPT ![l] = next]
  BY DEF Flush, WhileRunning
<1>4. /\ Gathered(l)
      /\ Resolve(batch[l], Len(batch[l]))
      /\ TaskDone(Len(batch[l]))
      /\ CountProcessed(batch[l], Len(batch[l]))
      /\ batch' = [batch EXCEPT ![l] =
                     SubSeq(batch[l], Len(batch[l]) + 1, Len(batch[l]))]
      /\ UNCHANGED <<running, queue, caller, infer>>
  BY <1>2 DEF Flush
<1> QED
  BY <1>2, <1>3, <1>4, Delivered

LEMMA FlushCrashStep ==
    ASSUME IInv, NEW l \in Loops, FlushCrash(l)
    PROVE  IInv'
<1>1. PICK n \in 1..Len(batch[l]) :
         /\ future[batch[l][n]] = "cancelled"
         /\ Resolve(batch[l], n - 1)
         /\ TaskDone(n)
         /\ CountProcessed(batch[l], n)
         /\ batch' = [batch EXCEPT ![l] = SubSeq(batch[l], n + 1, Len(batch[l]))]
  BY DEF FlushCrash
<1>2. n \in 0..Len(batch[l]) /\ n \in Nat \ {0} /\ n - 1 \in 0..n
  OBVIOUS
<1>3. 1..n = 1..(n - 1) \cup {n}
  BY <1>2
<1>4. First(batch[l], n) = First(batch[l], n - 1) \cup {batch[l][n]}
  BY <1>3 DEF First
<1>5. \A r \in First(batch[l], n) \ First(batch[l], n - 1) : future[r] = "cancelled"
  BY <1>1, <1>4
<1>6. /\ Gathered(l)
      /\ loop' = [loop EXCEPT ![l] = "crashed"]
      /\ UNCHANGED <<running, queue, caller, infer>>
  BY DEF FlushCrash
<1> QED
  BY <1>1, <1>2, <1>4, <1>5, <1>6, Delivered

-----------------------------------------------------------------------------
(* The invariant holds in every behaviour.                                 *)

LEMMA InitIInv == Init => IInv
<1> SUFFICES ASSUME Init PROVE IInv
  OBVIOUS
<1>1. \A l \in Loops : batch[l] = <<>> /\ ToSet(batch[l]) = {} /\ IsInjective(batch[l])
  BY ShortSequences DEF Init
<1>2. InBatches = {} /\ Held = {}
  BY <1>1 DEF Init, InBatches, Held
<1>3. TypeOK
  <2>1. <<>> \in Seq(Requests)
    BY EmptySeq
  <2>2. batch \in [Loops -> Seq(Requests)]
    BY <2>1 DEF Init
  <2> QED
    BY <2>2 DEF Init, TypeOK
<1>4. HeldOnce
  BY <1>1, <1>2 DEF Init, HeldOnce
<1>5. UnfinishedIsHeld
  BY <1>2, FS_EmptySet DEF Init, UnfinishedIsHeld
<1>6. BatchesPlaced
  BY <1>1 DEF Init, BatchesPlaced
<1>7. ItemsTracked
  BY <1>2 DEF Init, ItemsTracked
<1> QED
  BY <1>3, <1>4, <1>5, <1>6, <1>7 DEF IInv

LEMMA NextIInv == IInv /\ [Next]_vars => IInv'
<1> SUFFICES ASSUME IInv, [Next]_vars PROVE IInv'
  OBVIOUS
<1>1. ASSUME NEW r \in Requests, Submit(r) PROVE IInv'
  BY <1>1, SubmitStep
<1>2. ASSUME NEW r \in Requests, Resume(r) PROVE IInv'
  BY <1>2, ResumeQuiet
<1>3. ASSUME NEW r \in Requests, CancelCaller(r) PROVE IInv'
  BY <1>3, CancelCallerStep
<1>4. ASSUME NEW r \in Requests, InferEnd(r) PROVE IInv'
  BY <1>4, InferEndStep
<1>5. ASSUME NEW l \in Loops, Start(l) PROVE IInv'
  BY <1>5, StartQuiet
<1>6. ASSUME NEW l \in Loops, LoopStep(l) PROVE IInv'
  BY <1>6, LoopBeginQuiet, GetFirstStep, TimeoutExitQuiet, CollectStep, FlushStep,
     FlushCrashStep DEF LoopStep
<1>7. CASE StopCall
  BY <1>7, StopCallQuiet
<1>8. CASE StopReturn
  BY <1>8, StopReturnQuiet
<1>9. CASE UNCHANGED vars
  <2>1. TypeOK'
    BY <1>9 DEF vars, IInv, TypeOK
  <2> QED
    BY <1>9, <2>1, QuietStep DEF vars
<1> QED
  BY <1>1, <1>2, <1>3, <1>4, <1>5, <1>6, <1>7, <1>8, <1>9 DEF Next

\* The inductive invariant.
THEOREM Invariance == Spec => []IInv
BY InitIInv, NextIInv, PTL DEF Spec

\* Type correctness, of _unfinished_tasks and total_processed in particular:
\* task_done() is never called more often than put().
THEOREM TypeCorrect == Spec => []TypeOK
<1>1. IInv => TypeOK
  BY DEF IInv
<1> QED
  BY <1>1, Invariance, PTL

\* Whatever start, stop and cancellation do to the loops, no item is in two
\* places: _flush_batch hands no prompt to the engine a second time.
THEOREM ItemsAreHeldOnce == Spec => []HeldOnce
<1>1. IInv => HeldOnce
  BY DEF IInv
<1> QED
  BY <1>1, Invariance, PTL

\* The count join() waits for is the number of items on the queue or in the
\* hands of a loop, a crashed one included, and every pending future is one of
\* theirs.
THEOREM NothingDropsOutOfSight == Spec => []UnfinishedIsHeld
<1>1. IInv => UnfinishedIsHeld
  BY DEF IInv
<1> QED
  BY <1>1, Invariance, PTL

\* stop() gets through the join only when no caller is left with a pending
\* future: the count join() waits for never forgets one.
THEOREM StopReturnsDrained == Spec => StopMeansDrained
<1>1. TypeOK => Held \subseteq Requests
  BY HeldFinite
<1>2. TypeOK' => (Held \subseteq Requests)'
  BY <1>1, PTL
<1>3. ASSUME IInv, IInv', [Next]_vars
      PROVE  [stopper # "released" /\ stopper' = "released"
              => \A r \in Requests : future'[r] # "pending"]_vars
  <2> SUFFICES ASSUME stopper # "released", stopper' = "released",
                      NEW r \in Requests, future'[r] = "pending"
               PROVE  FALSE
    OBVIOUS
  <2>1. unfinished' = 0
    <3>1. CASE StopCall
      BY <3>1 DEF StopCall
    <3>2. CASE \E l \in Loops : Flush(l) \/ FlushCrash(l)
      BY <3>2 DEF Flush, FlushCrash, TaskDone
    <3>3. CASE /\ ~StopCall
               /\ ~\E l \in Loops : Flush(l) \/ FlushCrash(l)
      BY <1>3, <3>3 DEF Next, LoopStep, vars, Submit, Resume, CancelCaller, InferEnd,
         Start, LoopBegin, GetFirst, TimeoutExit, Collect, StopReturn
    <3> QED
      BY <3>1, <3>2, <3>3
  <2>2. Cardinality(Held') = 0 /\ r \in Held'
    BY <1>3, <2>1 DEF IInv, UnfinishedIsHeld
  <2>3. Held' \subseteq Requests
    BY <1>2, <1>3 DEF IInv
  <2>4. IsFiniteSet(Held')
    BY <2>3, RequestsAssumption, FS_Subset
  <2> QED
    BY <2>2, <2>4, FS_EmptySet
<1> QED
  BY <1>3, Invariance, PTL DEF Spec, StopMeansDrained

-----------------------------------------------------------------------------
(* What is counted: the successes flushed, and the loops that crashed.     *)

Flushed == {r \in Requests \ Held : infer[r] = "ok"}
GivenUp == {r \in Requests \ Held : future[r] = "cancelled"}
Crashed == {l \in Loops : loop[l] = "crashed"}

\* Inductive together with IInv: an inference that has still to end belongs to an
\* item somebody holds, so that no success is missing from the count of a flush.
Counts ==
    /\ \A r \in Requests : infer[r] = "running" => r \in Held
    /\ totalProcessed = Cardinality(Flushed)
    /\ IsFiniteSet(Crashed)
    /\ Cardinality(Crashed) <= Cardinality(GivenUp)

\* The steps that neither deliver a batch nor end a loop.
LEMMA CountsKept ==
    ASSUME Counts,
           totalProcessed' = totalProcessed,
           \A r \in Requests :
              /\ infer'[r] = "running" => r \in Held'
              /\ r \notin Held' /\ infer'[r] = "ok" <=> r \notin Held /\ infer[r] = "ok"
              /\ r \notin Held' /\ future'[r] = "cancelled"
                   <=> r \notin Held /\ future[r] = "cancelled",
           \A l \in Loops : loop'[l] = "crashed" <=> loop[l] = "crashed"
    PROVE  Counts'
<1>1. Flushed' = Flushed /\ GivenUp' = GivenUp /\ Crashed' = Crashed
  BY DEF Flushed, GivenUp, Crashed
<1> QED
  BY <1>1 DEF Counts

LEMMA CallersKeepCounts ==
    ASSUME IInv, Counts, NEW r \in Requests,
           Submit(r) \/ Resume(r) \/ CancelCaller(r) \/ InferEnd(r)
    PROVE  Counts'
<1>1. CASE Submit(r)
  <2>1. future[r] = "none" /\ infer[r] = "none" /\ future'[r] = "pending"
    BY <1>1 DEF IInv, TypeOK, ItemsTracked, Submit
  <2>2. Held' = Held \cup {r}
    BY <1>1 DEF Submit, InBatches, Held
  <2>3. \A q \in Requests \ {r} : future'[q] = future[q]
    BY <1>1 DEF IInv, TypeOK, Submit
  <2>4. UNCHANGED <<infer, loop, totalProcessed>>
    BY <1>1 DEF Submit
  <2> QED
    BY <2>1, <2>2, <2>3, <2>4, CountsKept DEF Counts
<1>2. CASE Resume(r)
  <2>1. Held' = Held
    BY <1>2 DEF Resume, InBatches, Held
  <2> QED
    BY <1>2, <2>1, CountsKept DEF Counts, Resume
<1>3. CASE CancelCaller(r)
  <2>1. Held' = Held /\ UNCHANGED <<infer, loop, totalProcessed>>
    BY <1>3 DEF CancelCaller, InBatches, Held
  <2>2. \A q \in Requests :
           future'[q] # future[q] => future[q] = "pending" /\ q \in Held
    BY <1>3 DEF IInv, TypeOK, UnfinishedIsHeld, CancelCaller
  <2> QED
    BY <2>1, <2>2, CountsKept DEF Counts
<1>4. CASE InferEnd(r)
  <2>1. Held' = Held /\ UNCHANGED <<future, loop, totalProcessed>>
    BY <1>4 DEF InferEnd, InBatches, Held
  <2>2. r \in Held /\ \A q \in Requests \ {r} : infer'[q] = infer[q]
    BY <1>4 DEF IInv, TypeOK, Counts, InferEnd
  <2> QED
    BY <2>1, <2>2, CountsKept DEF Counts
<1> QED
  BY <1>1, <1>2, <1>3, <1>4

LEMMA LoopsKeepCounts ==
    ASSUME IInv, Counts, NEW l \in Loops,
           Start(l) \/ LoopBegin(l) \/ TimeoutExit(l) \/ GetFirst(l) \/ Collect(l)
    PROVE  Counts'
<1>1. \A m \in Loops : loop'[m] = "crashed" <=> loop[m] = "crashed"
  BY DEF IInv, TypeOK, Start, LoopBegin, TimeoutExit, WhileRunning, GetFirst, Collect
<1>2. UNCHANGED <<future, totalProcessed>>
  BY DEF Start, LoopBegin, TimeoutExit, GetFirst, Collect
<1>3. CASE Start(l) \/ LoopBegin(l) \/ TimeoutExit(l)
  <2>1. Held' = Held /\ infer' = infer
    BY <1>3 DEF Start, LoopBegin, TimeoutExit, InBatches, Held
  <2> QED
    BY <1>1, <1>2, <2>1, CountsKept DEF Counts
<1>4. CASE GetFirst(l)
  <2>1. PICK r \in queue : queue' = queue \ {r} /\ batch' = [batch EXCEPT ![l] = <<r>>]
    BY <1>4 DEF GetFirst, Poppable
  <2>2. batch[l] = <<>> /\ infer' = infer
    BY <1>4 DEF IInv, BatchesPlaced, GetFirst
  <2>3. ToSet(<<r>>) = {r} /\ ToSet(batch[l]) = {}
    BY <2>2, ShortSequences
  <2>4. InBatches = Others(l) /\ InBatches' = Others(l) \cup {r}
    BY <2>1, <2>3, OneBatch DEF IInv
  <2>5. Held' = Held
    BY <2>1, <2>4 DEF Held
  <2> QED
    BY <1>1, <1>2, <2>2, <2>5, CountsKept DEF Counts
<1>5. CASE Collect(l)
  <2>1. PICK taken \in Seq(Requests) :
           /\ batch' = [batch EXCEPT ![l] = taken]
           /\ ToSet(taken) = ToSet(batch[l]) \cup (queue \ queue')
           /\ queue' \subseteq queue
           /\ \A r \in ToSet(taken) : r \in Held
           /\ infer' = [r \in Requests |->
                          IF r \in ToSet(taken) THEN "running" ELSE infer[r]]
    BY <1>5, Collected
  <2>2. InBatches = Others(l) \cup ToSet(batch[l]) /\ InBatches' = Others(l) \cup ToSet(taken)
    BY <2>1, OneBatch DEF IInv
  <2>3. Held' = Held
    BY <2>1, <2>2 DEF Held
  <2> QED
    BY <1>1, <1>2, <2>1, <2>3, CountsKept DEF Counts
<1> QED
  BY <1>3, <1>4, <1>5

\* Loop l is done with the first n items of its batch, as in Delivered: the count
\* grows by the successes among them, and a crash is paid for by one of them whose
\* caller had given up.
LEMMA DeliveredCounts ==
    ASSUME IInv, Counts, NEW l \in Loops, Gathered(l),
           NEW n \in 0..Len(batch[l]), NEW k \in 0..n,
           NEW next, loop' = [loop EXCEPT ![l] = next],
           next = "crashed" => \E r \in First(batch[l], n) \ First(batch[l], k) :
                                  future[r] = "cancelled",
           Resolve(batch[l], k), TaskDone(n), CountProcessed(batch[l], n),
           batch' = [batch EXCEPT ![l] = SubSeq(batch[l], n + 1, Len(batch[l]))],
           UNCHANGED <<queue, infer>>
    PROVE  Counts'
<1> DEFINE gone == First(batch[l], n)
           done == First(batch[l], k)
           good == {r \in gone : infer[r] = "ok"}
<1>1. gone \subseteq ToSet(batch[l]) /\ gone \subseteq Held /\ Held' = Held \ gone
  BY Unload DEF IInv, UnfinishedIsHeld, TaskDone
<1>2. Held \subseteq Requests
  BY HeldFinite DEF IInv
<1>3. \A r \in Requests \ done : future'[r] = future[r]
  <2>1. TypeOK /\ batch[l] \in Seq(Requests) /\ k \in 0..Len(batch[l])
    BY LenProperties DEF IInv, TypeOK
  <2>2. \A r \in Requests \ First(batch[l], k) : future'[r] = future[r]
    BY ONLY <2>1, Resolve(batch[l], k), Resolved
  <2> QED
    BY <2>2
<1>11. \A r \in done : future[r] # "cancelled" \/ r \in gone
  <2>1. 1..k \subseteq 1..n
    OBVIOUS
  <2> QED
    BY <2>1 DEF First
<1>4. \A r \in Requests : infer'[r] = "running" => r \in Held'
  BY <1>1 DEF Counts, Gathered
<1>12. totalProcessed' = totalProcessed + Cardinality(good)
  <2>1. batch[l] \in Seq(Requests) /\ IsInjective(batch[l])
    BY DEF IInv, TypeOK, HeldOnce
  <2> QED
    BY <2>1, Successes
<1> HIDE DEF gone, done
<1>5. totalProcessed' = Cardinality(Flushed')
  <2>1. Flushed' = Flushed \cup good /\ Flushed \cap good = {}
    BY <1>1, <1>2 DEF Flushed
  <2>2. Flushed \in SUBSET Requests /\ good \in SUBSET Requests
    BY <1>1, <1>2 DEF Flushed
  <2>3. IsFiniteSet(Flushed) /\ IsFiniteSet(good)
    BY <2>2, RequestsAssumption, FS_Subset
  <2> HIDE DEF good
  <2>4. /\ Cardinality(Flushed \cup good)
             = Cardinality(Flushed) + Cardinality(good) - Cardinality(Flushed \cap good)
        /\ Cardinality(Flushed \cap good) = 0
        /\ Cardinality(Flushed) \in Nat /\ Cardinality(good) \in Nat
    BY <2>1, <2>3, FS_Union, FS_EmptySet, FS_CardinalityType
  <2> QED
    BY <1>12, <2>1, <2>4 DEF Counts
<1>6. GivenUp \subseteq GivenUp'
  BY <1>1, <1>2, <1>3, <1>11 DEF GivenUp
<1>7. /\ IsFiniteSet(GivenUp) /\ IsFiniteSet(GivenUp')
      /\ Cardinality(GivenUp) \in Nat /\ Cardinality(GivenUp') \in Nat
      /\ Cardinality(GivenUp) <= Cardinality(GivenUp')
  <2>1. GivenUp \in SUBSET Requests /\ GivenUp' \in SUBSET Requests
    BY DEF GivenUp
  <2>2. IsFiniteSet(GivenUp) /\ IsFiniteSet(GivenUp')
    BY <2>1, RequestsAssumption, FS_Subset
  <2> QED
    BY <1>6, <2>2, FS_Subset, FS_CardinalityType
<1>8. loop[l] # "crashed" /\ Crashed' = IF next = "crashed" THEN Crashed \cup {l} ELSE Crashed
  BY DEF IInv, TypeOK, Gathered, Crashed
<1>9. CASE next = "crashed"
  <2>1. PICK r \in gone \ done : future[r] = "cancelled"
    BY <1>9 DEF gone, done
  <2>2. r \in GivenUp' /\ r \notin GivenUp
    BY <1>1, <1>2, <1>3, <2>1 DEF GivenUp
  <2>3. (GivenUp \cup {r}) \in SUBSET GivenUp'
    BY <1>6, <2>2
  <2>4. /\ Cardinality(GivenUp \cup {r}) = Cardinality(GivenUp) + 1
        /\ Cardinality(GivenUp \cup {r}) <= Cardinality(GivenUp')
    BY <1>7, <2>2, <2>3, FS_AddElement, FS_Subset
  <2>5. l \notin Crashed /\ Crashed' = Crashed \cup {l}
    BY <1>8, <1>9 DEF Crashed
  <2>6. /\ IsFiniteSet(Crashed') /\ Cardinality(Crashed') = Cardinality(Crashed) + 1
        /\ Cardinality(Crashed) \in Nat
    BY <2>5, FS_AddElement, FS_CardinalityType DEF Counts
  <2>7. Cardinality(Crashed') <= Cardinality(GivenUp')
    BY <1>7, <2>4, <2>6 DEF Counts
  <2> QED
    BY <1>4, <1>5, <2>6, <2>7 DEF Counts
<1>10. CASE next # "crashed"
  <2>1. Crashed' = Crashed
    BY <1>8, <1>10
  <2>2. Cardinality(Crashed) \in Nat
    BY FS_CardinalityType DEF Counts
  <2>3. Cardinality(Crashed') <= Cardinality(GivenUp')
    BY <1>7, <2>1, <2>2 DEF Counts
  <2> QED
    BY <1>4, <1>5, <2>1, <2>3 DEF Counts
<1> QED
  BY <1>9, <1>10

LEMMA FlushCounts ==
    ASSUME IInv, Counts, NEW l \in Loops, Flush(l)
    PROVE  Counts'
<1>1. batch[l] \in Seq(Requests)
  BY DEF IInv, TypeOK
<1>2. /\ Len(batch[l]) \in 0..Len(batch[l])
      /\ First(batch[l], Len(batch[l])) = ToSet(batch[l])
      /\ SubSeq(batch[l], Len(batch[l]) + 1, Len(batch[l])) = <<>>
  BY <1>1, WholeBatch
<1>3. PICK next \in {"getting", "exited"} : loop' = [loop EXCEPT ![l] = next]
  BY DEF Flush, WhileRunning
<1>4. /\ Gathered(l)
      /\ Resolve(batch[l], Len(batch[l]))
      /\ TaskDone(Len(batch[l]))
      /\ CountProcessed(batch[l], Len(batch[l]))
      /\ batch' = [batch EXCEPT ![l] =
                     SubSeq(batch[l], Len(batch[l]) + 1, Len(batch[l]))]
      /\ UNCHANGED <<queue, infer>>
  BY <1>2 DEF Flush
<1> QED
  BY <1>2, <1>3, <1>4, DeliveredCounts

LEMMA FlushCrashCounts ==
    ASSUME IInv, Counts, NEW l \in Loops, FlushCrash(l)
    PROVE  Counts'
<1>1. PICK n \in 1..Len(batch[l]) :
         /\ future[batch[l][n]] = "cancelled"
         /\ \A r \in First(batch[l], n - 1) : future[r] # "cancelled"
         /\ Resolve(batch[l], n - 1)
         /\ TaskDone(n)
         /\ CountProcessed(batch[l], n)
         /\ batch' = [batch EXCEPT ![l] = SubSeq(batch[l], n + 1, Len(batch[l]))]
  BY DEF FlushCrash
<1>2. n \in 0..Len(batch[l]) /\ n \in Nat \ {0} /\ n - 1 \in 0..n
  OBVIOUS
<1>3. 1..n = 1..(n - 1) \cup {n}
  BY <1>2
<1>4. First(batch[l], n) = First(batch[l], n - 1) \cup {batch[l][n]}
  BY <1>3 DEF First
<1>5. \E r \in First(batch[l], n) \ First(batch[l], n - 1) : future[r] = "cancelled"
  BY <1>1, <1>4
<1>6. /\ Gathered(l)
      /\ loop' = [loop EXCEPT ![l] = "crashed"]
      /\ UNCHANGED <<queue, infer>>
  BY DEF FlushCrash
<1> QED
  BY <1>1, <1>2, <1>4, <1>5, <1>6, DeliveredCounts

LEMMA InitCounts == Init => Counts
<1> SUFFICES ASSUME Init PROVE Counts
  OBVIOUS
<1>1. Flushed = {} /\ GivenUp = {} /\ Crashed = {}
  BY DEF Init, Flushed, GivenUp, Crashed
<1> QED
  BY <1>1, FS_EmptySet DEF Init, Counts

LEMMA NextCounts == IInv /\ Counts /\ [Next]_vars => Counts'
<1> SUFFICES ASSUME IInv, Counts, [Next]_vars PROVE Counts'
  OBVIOUS
<1>1. ASSUME NEW r \in Requests,
             Submit(r) \/ Resume(r) \/ CancelCaller(r) \/ InferEnd(r)
      PROVE  Counts'
  BY <1>1, CallersKeepCounts
<1>2. ASSUME NEW l \in Loops, Start(l) \/ LoopStep(l) PROVE Counts'
  BY <1>2, LoopsKeepCounts, FlushCounts, FlushCrashCounts DEF LoopStep
<1>3. CASE StopCall \/ StopReturn \/ UNCHANGED vars
  <2>1. Held' = Held /\ UNCHANGED <<infer, future, loop, totalProcessed>>
    BY <1>3 DEF StopCall, StopReturn, vars, InBatches, Held
  <2> QED
    BY <2>1, CountsKept DEF Counts
<1> QED
  BY <1>1, <1>2, <1>3 DEF Next

LEMMA CountsInvariant == Spec => []Counts
BY InitCounts, NextCounts, Invariance, PTL DEF Spec

\* total_processed is exact: every success that was flushed is counted once, also
\* the one whose dead future ends the loop, and nothing still held is counted.
THEOREM ProcessedIsExact == Spec => []ProcessedIsFlushed
<1>1. Counts => ProcessedIsFlushed
  BY DEF Counts, Flushed, ProcessedIsFlushed
<1> QED
  BY <1>1, CountsInvariant, PTL

\* There are never more crashed loops than callers who gave up, whatever the engine
\* raises and however many loops there are.
THEOREM CrashesStayCancellations == Spec => []CrashesAreCancellations
<1>1. Counts => CrashesAreCancellations
  BY DEF Counts, Crashed, GivenUp, CrashesAreCancellations
<1> QED
  BY <1>1, CountsInvariant, PTL

-----------------------------------------------------------------------------
(* Nothing is done in vain.                                                *)

\* How a count of members changes.
LEMMA CountShrinks ==
    ASSUME NEW S, IsFiniteSet(S), NEW T, T \subseteq S
    PROVE  /\ Cardinality(T) \in Nat /\ Cardinality(S) \in Nat
           /\ Cardinality(T) <= Cardinality(S)
           /\ T # S => Cardinality(T) < Cardinality(S)
BY FS_Subset, FS_CardinalityType

LEMMA CountGrows ==
    ASSUME NEW S, IsFiniteSet(S), NEW x, NEW T, T \subseteq S \cup {x}
    PROVE  /\ Cardinality(T) \in Nat /\ Cardinality(S) \in Nat
           /\ Cardinality(T) <= Cardinality(S) + 1
<1>1. /\ IsFiniteSet(S \cup {x})
      /\ Cardinality(S \cup {x}) <= Cardinality(S) + 1
      /\ Cardinality(S) \in Nat
  BY FS_AddElement, FS_CardinalityType
<1> QED
  BY <1>1, CountShrinks

LEMMA CountsFinite ==
    ASSUME IInv
    PROVE  /\ IsFiniteSet(IdleCallers) /\ IsFiniteSet(OpenCallers)
           /\ IsFiniteSet(queue)
           /\ IsFiniteSet(NewPrompts) /\ IsFiniteSet(OpenPrompts)
           /\ IsFiniteSet(ForwardLoops) /\ IsFiniteSet(EngagedLoops)
           /\ IsFiniteSet(ActiveLoops)
<1>1. /\ IdleCallers \subseteq Requests /\ OpenCallers \subseteq Requests
      /\ NewPrompts \subseteq Requests /\ OpenPrompts \subseteq Requests
  BY DEF IdleCallers, OpenCallers, NewPrompts, OpenPrompts
<1>2. /\ ForwardLoops \subseteq Loops /\ EngagedLoops \subseteq Loops
      /\ ActiveLoops \subseteq Loops
  BY DEF ForwardLoops, EngagedLoops, ActiveLoops
<1>3. queue \subseteq Requests
  BY DEF IInv, TypeOK
<1> QED
  BY <1>1, <1>2, <1>3, RequestsAssumption, LoopsAssumption, FS_Subset

\* A step that adds to nothing adds no work, and less work if it takes from
\* something.
LEMMA NothingAdded ==
    ASSUME IInv,
           IdleCallers' \subseteq IdleCallers, OpenCallers' \subseteq OpenCallers,
           queue' \subseteq queue,
           NewPrompts' \subseteq NewPrompts, OpenPrompts' \subseteq OpenPrompts,
           ForwardLoops' \subseteq ForwardLoops,
           EngagedLoops' \subseteq EngagedLoops, ActiveLoops' \subseteq ActiveLoops
    PROVE  /\ WorkLeft' <= WorkLeft
           /\ \/ OpenCallers' # OpenCallers \/ OpenPrompts' # OpenPrompts
              \/ ForwardLoops' # ForwardLoops \/ EngagedLoops' # EngagedLoops
              \/ ActiveLoops' # ActiveLoops
              => WorkLeft' < WorkLeft
<1>1. /\ Cardinality(IdleCallers') \in Nat /\ Cardinality(IdleCallers) \in Nat
      /\ Cardinality(IdleCallers') <= Cardinality(IdleCallers)
  BY CountsFinite, CountShrinks
<1>2. /\ Cardinality(OpenCallers') \in Nat /\ Cardinality(OpenCallers) \in Nat
      /\ Cardinality(OpenCallers') <= Cardinality(OpenCallers)
      /\ OpenCallers' # OpenCallers
            => Cardinality(OpenCallers') < Cardinality(OpenCallers)
  BY CountsFinite, CountShrinks
<1>3. /\ Cardinality(queue') \in Nat /\ Cardinality(queue) \in Nat
      /\ Cardinality(queue') <= Cardinality(queue)
  BY CountsFinite, CountShrinks
<1>4. /\ Cardinality(NewPrompts') \in Nat /\ Cardinality(NewPrompts) \in Nat
      /\ Cardinality(NewPrompts') <= Cardinality(NewPrompts)
  BY CountsFinite, CountShrinks
<1>5. /\ Cardinality(OpenPrompts') \in Nat /\ Cardinality(OpenPrompts) \in Nat
      /\ Cardinality(OpenPrompts') <= Cardinality(OpenPrompts)
      /\ OpenPrompts' # OpenPrompts
            => Cardinality(OpenPrompts') < Cardinality(OpenPrompts)
  BY CountsFinite, CountShrinks
<1>6. /\ Cardinality(ForwardLoops') \in Nat /\ Cardinality(ForwardLoops) \in Nat
      /\ Cardinality(ForwardLoops') <= Cardinality(ForwardLoops)
      /\ ForwardLoops' # ForwardLoops
            => Cardinality(ForwardLoops') < Cardinality(ForwardLoops)
  BY CountsFinite, CountShrinks
<1>7. /\ Cardinality(EngagedLoops') \in Nat /\ Cardinality(EngagedLoops) \in Nat
      /\ Cardinality(EngagedLoops') <= Cardinality(EngagedLoops)
      /\ EngagedLoops' # EngagedLoops
            => Cardinality(EngagedLoops') < Cardinality(EngagedLoops)
  BY CountsFinite, CountShrinks
<1>8. /\ Cardinality(ActiveLoops') \in Nat /\ Cardinality(ActiveLoops) \in Nat
      /\ Cardinality(ActiveLoops') <= Cardinality(ActiveLoops)
      /\ ActiveLoops' # ActiveLoops
            => Cardinality(ActiveLoops') < Cardinality(ActiveLoops)
  BY CountsFinite, CountShrinks
<1> QED
  BY <1>1, <1>2, <1>3, <1>4, <1>5, <1>6, <1>7, <1>8 DEF WorkLeft

LEMMA SubmitWorks ==
    ASSUME IInv, NEW r \in Requests, Submit(r)
    PROVE  WorkLeft' < WorkLeft
<1>1. /\ IdleCallers' \subseteq IdleCallers /\ IdleCallers' # IdleCallers
      /\ OpenCallers' = OpenCallers
  BY DEF IInv, TypeOK, Submit, IdleCallers, OpenCallers
<1>2. /\ queue' \subseteq queue \cup {r}
      /\ NewPrompts' = NewPrompts /\ OpenPrompts' = OpenPrompts
      /\ ForwardLoops' = ForwardLoops /\ EngagedLoops' = EngagedLoops
      /\ ActiveLoops' = ActiveLoops
  BY DEF Submit, NewPrompts, OpenPrompts, ForwardLoops, EngagedLoops, ActiveLoops
<1>3. /\ Cardinality(IdleCallers') \in Nat /\ Cardinality(IdleCallers) \in Nat
      /\ Cardinality(IdleCallers') < Cardinality(IdleCallers)
  BY <1>1, CountsFinite, CountShrinks
<1>4. /\ Cardinality(queue') \in Nat /\ Cardinality(queue) \in Nat
      /\ Cardinality(queue') <= Cardinality(queue) + 1
  BY <1>2, CountsFinite, CountGrows
<1>5. /\ Cardinality(OpenCallers) \in Nat
      /\ Cardinality(NewPrompts) \in Nat /\ Cardinality(OpenPrompts) \in Nat
      /\ Cardinality(ForwardLoops) \in Nat /\ Cardinality(EngagedLoops) \in Nat
      /\ Cardinality(ActiveLoops) \in Nat
  BY CountsFinite, FS_CardinalityType
<1> QED
  BY <1>1, <1>2, <1>3, <1>4, <1>5 DEF WorkLeft

\* The item taken off the queue pays for the batch that is begun with it.
LEMMA GetFirstWorks ==
    ASSUME IInv, NEW l \in Loops, GetFirst(l)
    PROVE  WorkLeft' < WorkLeft
<1>1. queue' \subseteq queue /\ queue' # queue
  BY DEF IInv, TypeOK, GetFirst, Poppable
<1>2. /\ ForwardLoops' \subseteq ForwardLoops \cup {l}
      /\ EngagedLoops' \subseteq EngagedLoops \cup {l}
      /\ ActiveLoops' \subseteq ActiveLoops
  BY DEF IInv, TypeOK, GetFirst, ForwardLoops, EngagedLoops, ActiveLoops
<1>3. /\ IdleCallers' = IdleCallers /\ OpenCallers' = OpenCallers
      /\ NewPrompts' = NewPrompts /\ OpenPrompts' = OpenPrompts
  BY DEF GetFirst, IdleCallers, OpenCallers, NewPrompts, OpenPrompts
<1>4. /\ Cardinality(queue') \in Nat /\ Cardinality(queue) \in Nat
      /\ Cardinality(queue') < Cardinality(queue)
  BY <1>1, CountsFinite, CountShrinks
<1>5. /\ Cardinality(ForwardLoops') \in Nat /\ Cardinality(ForwardLoops) \in Nat
      /\ Cardinality(ForwardLoops') <= Cardinality(ForwardLoops) + 1
  BY <1>2, CountsFinite, CountGrows
<1>6. /\ Cardinality(EngagedLoops') \in Nat /\ Cardinality(EngagedLoops) \in Nat
      /\ Cardinality(EngagedLoops') <= Cardinality(EngagedLoops) + 1
  BY <1>2, CountsFinite, CountGrows
<1>7. /\ Cardinality(ActiveLoops') \in Nat /\ Cardinality(ActiveLoops) \in Nat
      /\ Cardinality(ActiveLoops') <= Cardinality(ActiveLoops)
  BY <1>2, CountsFinite, CountShrinks
<1>8. /\ Cardinality(IdleCallers) \in Nat /\ Cardinality(OpenCallers) \in Nat
      /\ Cardinality(NewPrompts) \in Nat /\ Cardinality(OpenPrompts) \in Nat
  BY CountsFinite, FS_CardinalityType
<1> QED
  BY <1>3, <1>4, <1>5, <1>6, <1>7, <1>8 DEF WorkLeft

\* A loop that gets on without taking an item.
LEMMA LoopWorks ==
    ASSUME IInv, NEW l \in Loops, NEW next,
           loop' = [loop EXCEPT ![l] = next],
           \/ loop[l] = "unborn"     /\ next = "created"
           \/ loop[l] = "created"    /\ next \in {"getting", "exited"}
           \/ loop[l] = "getting"    /\ next = "exited"
           \/ loop[l] = "collecting" /\ next = "flushing"
           \/ loop[l] = "flushing"   /\ next \in {"getting", "exited", "crashed"},
           UNCHANGED caller, queue' \subseteq queue,
           NewPrompts' \subseteq NewPrompts, OpenPrompts' \subseteq OpenPrompts
    PROVE  WorkLeft' < WorkLeft
<1>1. /\ \A m \in Loops \ {l} : loop'[m] = loop[m]
      /\ loop'[l] = next
  BY DEF IInv, TypeOK
<1>2. /\ ForwardLoops' \subseteq ForwardLoops
      /\ EngagedLoops' \subseteq EngagedLoops /\ ActiveLoops' \subseteq ActiveLoops
      /\ \/ ForwardLoops' # ForwardLoops \/ EngagedLoops' # EngagedLoops
         \/ ActiveLoops' # ActiveLoops
  <2>1. /\ ForwardLoops' \subseteq ForwardLoops
        /\ EngagedLoops' \subseteq EngagedLoops /\ ActiveLoops' \subseteq ActiveLoops
    BY <1>1 DEF ForwardLoops, EngagedLoops, ActiveLoops
  <2>2. \/ l \in ForwardLoops /\ l \notin ForwardLoops'
        \/ l \in EngagedLoops /\ l \notin EngagedLoops'
        \/ l \in ActiveLoops /\ l \notin ActiveLoops'
    BY <1>1 DEF ForwardLoops, EngagedLoops, ActiveLoops
  <2> QED
    BY <2>1, <2>2
<1>3. IdleCallers' = IdleCallers /\ OpenCallers' = OpenCallers
  BY DEF IdleCallers, OpenCallers
<1> QED
  BY <1>2, <1>3, NothingAdded

\* Every step but those of stop does some of the work that is left.
LEMMA StepWorks ==
    ASSUME IInv, Next
    PROVE  \/ WorkLeft' < WorkLeft
           \/ WorkLeft' = WorkLeft /\ (StopCall \/ StopReturn)
<1>1. ASSUME NEW r \in Requests, Submit(r)
      PROVE  WorkLeft' < WorkLeft
  BY <1>1, SubmitWorks
<1>2. ASSUME NEW r \in Requests, Resume(r) \/ CancelCaller(r)
      PROVE  WorkLeft' < WorkLeft
  <2>1. \E last \in {"returned", "raised", "cancelled"} :
           caller[r] = "waiting" /\ caller' = [caller EXCEPT ![r] = last]
    BY <1>2 DEF Resume, CancelCaller
  <2>2. /\ IdleCallers' \subseteq IdleCallers
        /\ OpenCallers' \subseteq OpenCallers /\ OpenCallers' # OpenCallers
    BY <2>1 DEF IInv, TypeOK, IdleCallers, OpenCallers
  <2>3. /\ queue' = queue
        /\ NewPrompts' = NewPrompts /\ OpenPrompts' = OpenPrompts
        /\ ForwardLoops' = ForwardLoops /\ EngagedLoops' = EngagedLoops
        /\ ActiveLoops' = ActiveLoops
    BY <1>2 DEF Resume, CancelCaller, NewPrompts, OpenPrompts, ForwardLoops,
                EngagedLoops, ActiveLoops
  <2> QED
    BY <2>2, <2>3, NothingAdded
<1>3. ASSUME NEW r \in Requests, InferEnd(r)
      PROVE  WorkLeft' < WorkLeft
  <2>1. \E outcome \in {"ok", "failed"} :
           infer[r] = "running" /\ infer' = [infer EXCEPT ![r] = outcome]
    BY <1>3 DEF InferEnd
  <2>2. /\ NewPrompts' \subseteq NewPrompts
        /\ OpenPrompts' \subseteq OpenPrompts /\ OpenPrompts' # OpenPrompts
    BY <2>1 DEF IInv, TypeOK, NewPrompts, OpenPrompts
  <2>3. /\ queue' = queue
        /\ IdleCallers' = IdleCallers /\ OpenCallers' = OpenCallers
        /\ ForwardLoops' = ForwardLoops /\ EngagedLoops' = EngagedLoops
        /\ ActiveLoops' = ActiveLoops
    BY <1>3 DEF InferEnd, IdleCallers, OpenCallers, ForwardLoops, EngagedLoops,
                ActiveLoops
  <2> QED
    BY <2>2, <2>3, NothingAdded
<1>4. ASSUME NEW l \in Loops, GetFirst(l)
      PROVE  WorkLeft' < WorkLeft
  BY <1>4, GetFirstWorks
<1>5. ASSUME NEW l \in Loops, Start(l) \/ LoopBegin(l) \/ TimeoutExit(l)
      PROVE  WorkLeft' < WorkLeft
  <2>1. /\ UNCHANGED <<caller, queue, infer>>
        /\ \/ loop[l] = "unborn"  /\ loop' = [loop EXCEPT ![l] = "created"]
           \/ loop[l] = "created" /\ \/ loop' = [loop EXCEPT ![l] = "getting"]
                                     \/ loop' = [loop EXCEPT ![l] = "exited"]
           \/ loop[l] = "getting" /\ loop' = [loop EXCEPT ![l] = "exited"]
    BY <1>5 DEF Start, LoopBegin, TimeoutExit, WhileRunning
  <2>2. NewPrompts' = NewPrompts /\ OpenPrompts' = OpenPrompts
    BY <2>1 DEF NewPrompts, OpenPrompts
  <2> QED
    BY <2>1, <2>2, LoopWorks
<1>6. ASSUME NEW l \in Loops, Collect(l)
      PROVE  WorkLeft' < WorkLeft
  <2>1. /\ loop[l] = "collecting" /\ loop' = [loop EXCEPT ![l] = "flushing"]
        /\ UNCHANGED caller /\ queue' \subseteq queue
    BY <1>6 DEF Collect
  <2>2. PICK taken \in Seq(Requests) :
           /\ \A r \in ToSet(taken) : infer[r] = "none"
           /\ infer' = [r \in Requests |->
                          IF r \in ToSet(taken) THEN "running" ELSE infer[r]]
    BY <1>6, Collected
  <2>3. NewPrompts' \subseteq NewPrompts /\ OpenPrompts' \subseteq OpenPrompts
    BY <2>2 DEF NewPrompts, OpenPrompts
  <2> QED
    BY <2>1, <2>3, LoopWorks
<1>7. ASSUME NEW l \in Loops, Flush(l) \/ FlushCrash(l)
      PROVE  WorkLeft' < WorkLeft
  <2>1. /\ loop[l] = "flushing" /\ UNCHANGED <<caller, queue, infer>>
        /\ \E next \in {"getting", "exited", "crashed"} :
              loop' = [loop EXCEPT ![l] = next]
    BY <1>7 DEF Flush, FlushCrash, Gathered, WhileRunning
  <2>2. NewPrompts' = NewPrompts /\ OpenPrompts' = OpenPrompts
    BY <2>1 DEF NewPrompts, OpenPrompts
  <2> QED
    BY <2>1, <2>2, LoopWorks
<1>8. CASE StopCall \/ StopReturn
  BY <1>8 DEF StopCall, StopReturn, WorkLeft, IdleCallers, OpenCallers, NewPrompts,
              OpenPrompts, ForwardLoops, EngagedLoops, ActiveLoops
<1> QED
  BY <1>1, <1>2, <1>3, <1>4, <1>5, <1>6, <1>7, <1>8 DEF Next, LoopStep

LEMMA WorkLeftIsNatural == IInv => WorkLeft \in Nat
<1> SUFFICES ASSUME IInv PROVE WorkLeft \in Nat
  OBVIOUS
<1>1. /\ Cardinality(IdleCallers) \in Nat /\ Cardinality(OpenCallers) \in Nat
      /\ Cardinality(queue) \in Nat
      /\ Cardinality(NewPrompts) \in Nat /\ Cardinality(OpenPrompts) \in Nat
      /\ Cardinality(ForwardLoops) \in Nat /\ Cardinality(EngagedLoops) \in Nat
      /\ Cardinality(ActiveLoops) \in Nat
  BY CountsFinite, FS_CardinalityType
<1> QED
  BY <1>1 DEF WorkLeft

\* The work that is left is a natural number that every step brings down, those of
\* stop apart, which leave it as it is: between two calls of stop the processor
\* comes to rest, however often it was started and whoever gives up.
THEOREM NothingInVain == Spec => WorkRunsOut /\ [](WorkLeft \in Nat)
<1>1. IInv /\ IInv' /\ [Next]_vars =>
         [/\ WorkLeft' <= WorkLeft
          /\ WorkLeft' = WorkLeft => StopCall \/ StopReturn]_vars
  <2> SUFFICES ASSUME IInv, IInv', Next
               PROVE  /\ WorkLeft' <= WorkLeft
                      /\ WorkLeft' = WorkLeft => StopCall \/ StopReturn
    OBVIOUS
  <2>1. WorkLeft \in Nat
    BY WorkLeftIsNatural
  <2>2. (IInv => WorkLeft \in Nat)'
    BY WorkLeftIsNatural, PTL
  <2> QED
    BY <2>1, <2>2, StepWorks
<1> QED
  BY <1>1, Invariance, WorkLeftIsNatural, PTL DEF Spec, WorkRunsOut

-----------------------------------------------------------------------------
(* The refinement.                                                         *)

\* What BatchService calls `work`.
Work == [r \in Requests |->
           IF infer[r] # "none" THEN infer[r]
           ELSE IF caller[r] = "idle" THEN "new" ELSE "queued"]

\* What BatchService calls `told`.
Told == [r \in Requests |->
           IF caller[r] \in {"returned", "raised"} THEN given[r] ELSE {}]

LEMMA InitRefines == Init => Service!Init
BY DEF Init, Service!Init

\* A step that starts and ends no inference, leaves the callers alone, and gives
\* nothing to those that have been told already.
LEMMA Stutters ==
    ASSUME UNCHANGED <<infer, caller>>,
           \A r \in Requests : caller[r] \in {"returned", "raised"} => given'[r] = given[r]
    PROVE  UNCHANGED Service!vars
<1>1. Told' = Told
  BY DEF Told
<1> QED
  BY <1>1 DEF Service!vars, Told

\* What a flush hands over goes to callers that have not been told of anything.
LEMMA DeliveryIsNews ==
    ASSUME IInv, NEW l \in Loops, NEW k \in 0..Len(batch[l]), Resolve(batch[l], k),
           UNCHANGED <<infer, caller>>
    PROVE  UNCHANGED Service!vars
<1>1. batch[l] \in Seq(Requests) /\ Len(batch[l]) \in Nat
  BY LenProperties DEF IInv, TypeOK
<1>2. \A r \in Requests \ First(batch[l], k) : given'[r] = given[r]
  BY <1>1, Resolved DEF IInv
<1>3. First(batch[l], k) \subseteq ToSet(batch[l])
  BY <1>1, LenProperties DEF First, ToSet
<1>4. ToSet(batch[l]) \subseteq Held
  BY DEF Held, InBatches
<1>5. \A r \in Requests : caller[r] \in {"returned", "raised"} => r \notin Held
  BY DEF IInv, ItemsTracked
<1> QED
  BY <1>2, <1>3, <1>4, <1>5, Stutters

LEMMA SubmitRefines ==
    ASSUME IInv, NEW r \in Requests, Submit(r)
    PROVE  Service!Submit(r)
<1>1. infer[r] = "none"
  BY DEF IInv, ItemsTracked, Submit
<1>2. Work' = [Work EXCEPT ![r] = "queued"]
  BY <1>1 DEF IInv, TypeOK, Submit, Work
<1>3. Told' = Told
  BY DEF IInv, TypeOK, Submit, Told
<1> QED
  BY <1>2, <1>3 DEF Submit, Service!Submit, Work, Told

LEMMA ResumeRefines ==
    ASSUME IInv, NEW r \in Requests, Resume(r)
    PROVE  Service!Return(r)
<1>1. /\ future[r] = "result" => Work[r] = "ok"
      /\ future[r] = "error"  => Work[r] = "failed"
  BY DEF IInv, ItemsTracked, Work
<1>2. Work' = Work
  BY DEF IInv, TypeOK, Resume, Work
<1>3. CASE future[r] = "result" /\ caller' = [caller EXCEPT ![r] = "returned"]
  <2>1. given[r] = {OutcomeOf(r, TRUE)} /\ given' = given
    BY <1>3 DEF IInv, ItemsTracked, Resume
  <2>2. given[r] = {[of |-> r, ok |-> Work[r] = "ok"]}
    BY <1>1, <1>3, <2>1 DEF OutcomeOf
  <2>3. Told' = [Told EXCEPT ![r] = given[r]]
    BY <1>3, <2>1 DEF IInv, TypeOK, Told
  <2>4. Told' = [Told EXCEPT ![r] = {[of |-> r, ok |-> Work[r] = "ok"]}]
    BY <2>2, <2>3
  <2> QED
    BY <1>1, <1>2, <1>3, <2>4 DEF Resume, Service!Return, Work, Told
<1>4. CASE future[r] = "error" /\ caller' = [caller EXCEPT ![r] = "raised"]
  <2>1. given[r] = {OutcomeOf(r, FALSE)} /\ given' = given
    BY <1>4 DEF IInv, ItemsTracked, Resume
  <2>2. given[r] = {[of |-> r, ok |-> Work[r] = "ok"]}
    BY <1>1, <1>4, <2>1 DEF OutcomeOf
  <2>3. Told' = [Told EXCEPT ![r] = given[r]]
    BY <1>4, <2>1 DEF IInv, TypeOK, Told
  <2>4. Told' = [Told EXCEPT ![r] = {[of |-> r, ok |-> Work[r] = "ok"]}]
    BY <2>2, <2>3
  <2> QED
    BY <1>1, <1>2, <1>4, <2>4 DEF Resume, Service!Return, Work, Told
<1> QED
  BY <1>3, <1>4 DEF Resume

LEMMA CancelCallerRefines ==
    ASSUME IInv, NEW r \in Requests, CancelCaller(r)
    PROVE  Service!Withdraw(r)
<1>1. Work' = Work
  BY DEF IInv, TypeOK, CancelCaller, Work
<1>2. Told' = Told
  BY DEF IInv, TypeOK, CancelCaller, Told
<1> QED
  BY <1>1, <1>2 DEF CancelCaller, Service!Withdraw, Work, Told

LEMMA InferEndRefines ==
    ASSUME IInv, NEW r \in Requests, InferEnd(r)
    PROVE  Service!Finish(r)
<1>1. PICK outcome \in {"ok", "failed"} : infer' = [infer EXCEPT ![r] = outcome]
  BY DEF InferEnd
<1>2. Work[r] = "running" /\ Work' = [Work EXCEPT ![r] = outcome]
  BY <1>1 DEF IInv, TypeOK, InferEnd, Work
<1>3. Told' = Told
  BY DEF InferEnd, Told
<1> QED
  BY <1>2, <1>3 DEF InferEnd, Service!Finish, Work, Told

LEMMA CollectRefines ==
    ASSUME IInv, NEW l \in Loops, Collect(l)
    PROVE  \E items \in SUBSET Requests : Service!Begin(items)
<1>1. PICK taken \in Seq(Requests) :
              /\ IsInjective(taken)
              /\ Len(taken) \in 1..BatchSize
              /\ \A r \in ToSet(taken) : r \in Held /\ infer[r] = "none"
              /\ infer' = [r \in Requests |->
                             IF r \in ToSet(taken) THEN "running" ELSE infer[r]]
  BY Collected
<1>2. /\ Len(taken) \in 0..Len(taken) /\ Len(taken) \in Nat
      /\ First(taken, Len(taken)) = ToSet(taken)
  BY <1>1, WholeBatch, LenProperties
<1>3. IsFiniteSet(ToSet(taken)) /\ Cardinality(ToSet(taken)) = Len(taken)
  BY <1>1, <1>2, FirstCardinality
<1>4. ToSet(taken) # {} /\ Cardinality(ToSet(taken)) <= BatchSize
  BY <1>1, <1>3, FS_EmptySet, BatchSizeAssumption
<1>5. ToSet(taken) \subseteq Requests
  BY <1>1, HeldFinite DEF IInv
<1>6. \A r \in ToSet(taken) : Work[r] = "queued"
  BY <1>1, <1>5 DEF IInv, ItemsTracked, Work
<1>7. caller' = caller /\ Told' = Told
  BY DEF Collect, Told
<1>8. Work' = [r \in Requests |-> IF r \in ToSet(taken) THEN "running" ELSE Work[r]]
  BY <1>1, <1>7 DEF Work
<1>9. Service!Begin(ToSet(taken))
  <2>1. Service!Cardinality(ToSet(taken)) = Cardinality(ToSet(taken))
    BY DEF Cardinality, Service!Cardinality
  <2> QED
    BY <1>4, <1>6, <1>7, <1>8, <2>1 DEF Service!Begin, Work, Told
<1> QED
  BY <1>5, <1>9

LEMMA NextRefines == IInv /\ [Next]_vars => [Service!Next]_(Service!vars)
<1> SUFFICES ASSUME IInv, [Next]_vars PROVE [Service!Next]_(Service!vars)
  OBVIOUS
<1>1. ASSUME NEW r \in Requests, Submit(r) PROVE Service!Next
  BY <1>1, SubmitRefines DEF Service!Next
<1>2. ASSUME NEW r \in Requests, Resume(r) PROVE Service!Next
  BY <1>2, ResumeRefines DEF Service!Next
<1>3. ASSUME NEW r \in Requests, CancelCaller(r) PROVE Service!Next
  BY <1>3, CancelCallerRefines DEF Service!Next
<1>4. ASSUME NEW r \in Requests, InferEnd(r) PROVE Service!Next
  BY <1>4, InferEndRefines DEF Service!Next
<1>5. ASSUME NEW l \in Loops, Collect(l) PROVE Service!Next
  BY <1>5, CollectRefines DEF Service!Next
<1>6. CASE UNCHANGED <<infer, caller, given>>
  BY <1>6, Stutters
<1>7. ASSUME NEW l \in Loops, Flush(l) PROVE UNCHANGED Service!vars
  <2>1. Len(batch[l]) \in 0..Len(batch[l])
    BY WholeBatch DEF IInv, TypeOK
  <2> QED
    BY <1>7, <2>1, DeliveryIsNews DEF Flush
<1>8. ASSUME NEW l \in Loops, FlushCrash(l) PROVE UNCHANGED Service!vars
  <2>1. PICK n \in 1..Len(batch[l]) : Resolve(batch[l], n - 1)
    BY <1>8 DEF FlushCrash
  <2>2. n - 1 \in 0..Len(batch[l])
    OBVIOUS
  <2> QED
    BY <1>8, <2>1, <2>2, DeliveryIsNews DEF FlushCrash
<1> QED
  BY <1>1, <1>2, <1>3, <1>4, <1>5, <1>6, <1>7, <1>8 DEF Next, LoopStep, vars, Start,
     LoopBegin, GetFirst, TimeoutExit, StopCall, StopReturn

\* BatchProcessor implements BatchService: a prompt goes to the engine at most
\* once, in a batch of at most batch_size, and submit ends with the outcome of
\* that inference, whatever the loops do.
THEOREM Refinement == Spec => ImplementsBatchService
<1>1. Spec => Service!Spec
  BY InitRefines, NextRefines, Invariance, PTL DEF Spec, Service!Spec
<1> QED
  BY <1>1 DEF ImplementsBatchService

=============================================================================
