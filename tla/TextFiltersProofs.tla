-------------------------- MODULE TextFiltersProofs --------------------------
(* What sanitize and redact leave of a text, whatever the text: a pass of one *)
(* pattern uncovers nothing for another, unless it puts the placeholder of      *)
(* PHONE right behind it.                                                      *)
EXTENDS TextFilters, FiniteSetTheorems, WellFoundedInduction, TLAPS

-----------------------------------------------------------------------------
(* Taking pieces out of a text.                                            *)

\* Later positions have higher ranks, and there is a rank for each.
LEMMA RanksRise ==
    ASSUME NEW n \in Nat, NEW kept \in SUBSET (1..n)
    PROVE  /\ IsFiniteSet(kept) /\ Cardinality(kept) \in Nat
           /\ \A i \in kept : Rank(kept, i) \in 1..Cardinality(kept)
           /\ \A i, j \in kept : i < j => Rank(kept, i) < Rank(kept, j)
<1>1. /\ IsFiniteSet(kept) /\ Cardinality(kept) \in Nat
      /\ \A i \in kept : i \in Int
  <2>1. IsFiniteSet(1..n)
      BY FS_Interval
  <2>2. IsFiniteSet(kept)
      BY <2>1, FS_Subset
  <2> QED  BY <2>2, FS_CardinalityType
<1> DEFINE upTo(i) == {j \in kept : j <= i}
<1>2. ASSUME NEW i \in kept
      PROVE  IsFiniteSet(upTo(i)) /\ Cardinality(upTo(i)) \in 1..Cardinality(kept)
  <2>1. /\ upTo(i) \in SUBSET kept /\ i \in upTo(i)
      OBVIOUS
  <2>2. IsFiniteSet(upTo(i)) /\ Cardinality(upTo(i)) <= Cardinality(kept)
      BY <1>1, <2>1, FS_Subset
  <2>3. Cardinality(upTo(i)) \in Nat /\ Cardinality(upTo(i)) # 0
      BY <2>1, <2>2, FS_CardinalityType, FS_EmptySet
  <2> HIDE DEF upTo
  <2> QED  BY <1>1, <2>2, <2>3
<1>3. ASSUME NEW i \in kept, NEW j \in kept, i < j
      PROVE  Cardinality(upTo(i)) < Cardinality(upTo(j))
  <2> SUFFICES ASSUME i \in Int, j \in Int, \A x \in kept : x \in Int
               PROVE  Cardinality(upTo(i)) < Cardinality(upTo(j))
      BY <1>1
  <2>1. /\ \A x \in upTo(i) : x \in upTo(j)
        /\ j \in upTo(j) /\ j \notin upTo(i)
      BY <1>3
  <2>2. upTo(i) # upTo(j)
      BY <2>1
  <2>3. /\ IsFiniteSet(upTo(j))
        /\ Cardinality(upTo(i)) \in Nat /\ Cardinality(upTo(j)) \in Nat
      BY <1>1, <1>2
  <2> HIDE DEF upTo
  <2>4. /\ Cardinality(upTo(i)) <= Cardinality(upTo(j))
        /\ Cardinality(upTo(j)) = Cardinality(upTo(i)) => upTo(j) = upTo(i)
      BY <2>1, <2>3, FS_Subset
  <2> QED  BY <2>2, <2>3, <2>4
<1> QED  BY <1>1, <1>2, <1>3 DEF Rank

\* Nth lists the positions in their order, each one once.
LEMMA NthLists ==
    ASSUME NEW n \in Nat, NEW kept \in SUBSET (1..n)
    PROVE  /\ Cardinality(kept) \in Nat
           /\ \A k \in 1..Cardinality(kept) : Nth(kept, k) \in kept
           /\ \A i \in kept : Rank(kept, i) \in 1..Cardinality(kept)
                              /\ Nth(kept, Rank(kept, i)) = i
           /\ \A k, l \in 1..Cardinality(kept) : k < l => Nth(kept, k) < Nth(kept, l)
<1> DEFINE N == Cardinality(kept)
           r == [i \in kept |-> Rank(kept, i)]
<1>1. /\ IsFiniteSet(kept) /\ N \in Nat
      /\ \A i \in kept : Rank(kept, i) \in 1..N
      /\ \A i, j \in kept : i < j => Rank(kept, i) < Rank(kept, j)
    BY RanksRise
<1> HIDE DEF N
<1>2. \A i, j \in kept : Rank(kept, i) = Rank(kept, j) => i = j
    BY <1>1
<1>3. r \in Injection(kept, 1..N)
    BY <1>1, <1>2 DEF Injection, IsInjective
<1>4. IsFiniteSet(1..N) /\ Cardinality(1..N) = N
    BY <1>1, FS_Interval
<1>5. r \in Surjection(kept, 1..N)
    BY <1>3, <1>4, FS_Injection DEF N
<1>6. \A k \in 1..N : \E i \in kept : Rank(kept, i) = k
    BY <1>5 DEF Surjection
<1>7. \A k \in 1..N : Nth(kept, k) \in kept /\ Rank(kept, Nth(kept, k)) = k
    BY <1>6 DEF Nth
<1>8. ASSUME NEW i \in kept
      PROVE  Nth(kept, Rank(kept, i)) = i
    BY <1>1, <1>2, <1>7
<1>9. ASSUME NEW k \in 1..N, NEW l \in 1..N, k < l
      PROVE  Nth(kept, k) < Nth(kept, l)
  <2>1. /\ Nth(kept, k) \in 1..n /\ Nth(kept, l) \in 1..n
      BY <1>7
  <2> QED  BY <1>1, <1>7, <1>9, <2>1
<1> QED  BY <1>1, <1>7, <1>8, <1>9 DEF N

\* t is s without the pieces gone, and f tells where its pieces come from.
Kept(s, gone, t, f) ==
    /\ f \in [DOMAIN t -> DOMAIN s \ gone]
    /\ \A k \in DOMAIN t : t[k] = s[f[k]]
    /\ \A i \in DOMAIN s \ gone : \E k \in DOMAIN t : f[k] = i
    /\ \A k, l \in DOMAIN t : k < l => f[k] < f[l]

LEMMA WithoutKeeps ==
    ASSUME NEW s \in Seq(Pieces), NEW gone
    PROVE  /\ Without(s, gone) \in Seq(Pieces)
           /\ \E f : Kept(s, gone, Without(s, gone), f)
<1> DEFINE kept == DOMAIN s \ gone
           N    == Cardinality(kept)
           t    == Without(s, gone)
           f    == [k \in 1..N |-> Nth(kept, k)]
<1>1. Len(s) \in Nat /\ kept \in SUBSET (1..Len(s)) /\ DOMAIN s = 1..Len(s)
    OBVIOUS
<1> HIDE DEF kept
<1>2. /\ N \in Nat
      /\ \A k \in 1..N : Nth(kept, k) \in kept
      /\ \A i \in kept : Rank(kept, i) \in 1..N /\ Nth(kept, Rank(kept, i)) = i
      /\ \A k, l \in 1..N : k < l => Nth(kept, k) < Nth(kept, l)
    BY <1>1, NthLists
<1> HIDE DEF N
<1>3. t = [k \in 1..N |-> s[Nth(kept, k)]]
    BY DEF Without, N, kept
<1> HIDE DEF t
<1>4. \A i \in kept : s[i] \in Pieces
    BY <1>1
<1>5. t \in [1..N -> Pieces]
    BY <1>2, <1>3, <1>4
<1>6. t \in Seq(Pieces) /\ DOMAIN t = 1..N
    BY <1>2, <1>5
<1>7. Kept(s, gone, t, f)
    BY <1>2, <1>3, <1>6 DEF Kept, kept
<1> QED  BY <1>6, <1>7 DEF t

\* Neighbours in t were neighbours in s, but for what went between them.
LEMMA KeptNeighbours ==
    ASSUME NEW s \in Seq(Pieces), NEW gone, NEW t \in Seq(Pieces), NEW f,
           Kept(s, gone, t, f)
    PROVE  /\ \A k \in DOMAIN t : f[k] \in DOMAIN s /\ f[k] \notin gone
           /\ \A k \in DOMAIN t : \A i \in DOMAIN s \ gone : i > f[k] =>
                 k + 1 \in DOMAIN t /\ f[k + 1] <= i
           /\ \A k \in DOMAIN t : \A i \in DOMAIN s \ gone : i < f[k] =>
                 k - 1 \in DOMAIN t /\ f[k - 1] >= i
           /\ \A k \in DOMAIN t : k + 1 \in DOMAIN t => f[k] < f[k + 1]
           /\ \A k \in DOMAIN t : k - 1 \in DOMAIN t => f[k - 1] < f[k]
           /\ \A i \in DOMAIN s \ gone : 1 \in DOMAIN t /\ f[1] <= i
<1>1. /\ DOMAIN s = 1..Len(s) /\ Len(s) \in Nat
      /\ DOMAIN t = 1..Len(t) /\ Len(t) \in Nat
    OBVIOUS
<1>2. \A k \in DOMAIN t : f[k] \in DOMAIN s /\ f[k] \notin gone /\ f[k] \in Int
    BY <1>1 DEF Kept
<1>3. \A k, l \in DOMAIN t : f[k] < f[l] => k < l
    BY <1>1, <1>2 DEF Kept
<1>4. \A k, l \in DOMAIN t : k <= l => f[k] <= f[l]
    BY <1>1, <1>2 DEF Kept
<1>5. ASSUME NEW k \in DOMAIN t, NEW i \in DOMAIN s \ gone, i > f[k]
      PROVE  k + 1 \in DOMAIN t /\ f[k + 1] <= i
  <2>1. PICK l \in DOMAIN t : f[l] = i
      BY DEF Kept
  <2>2. k < l
      BY <1>3, <1>5, <2>1
  <2> QED  BY <1>1, <1>4, <2>1, <2>2
<1>6. ASSUME NEW k \in DOMAIN t, NEW i \in DOMAIN s \ gone, i < f[k]
      PROVE  k - 1 \in DOMAIN t /\ f[k - 1] >= i
  <2>1. PICK l \in DOMAIN t : f[l] = i
      BY DEF Kept
  <2>2. l < k
      BY <1>3, <1>6, <2>1
  <2>3. k - 1 \in DOMAIN t /\ l <= k - 1
      BY <1>1, <2>2
  <2> QED  BY <1>1, <1>4, <2>1, <2>3, <1>2
<1>7. ASSUME NEW i \in DOMAIN s \ gone
      PROVE  1 \in DOMAIN t /\ f[1] <= i
  <2>1. PICK l \in DOMAIN t : f[l] = i
      BY DEF Kept
  <2> QED  BY <1>1, <1>4, <2>1
<1>8. ASSUME NEW k \in DOMAIN t, k + 1 \in DOMAIN t
      PROVE  f[k] < f[k + 1]
    BY <1>1, <1>8 DEF Kept
<1>9. ASSUME NEW k \in DOMAIN t, k - 1 \in DOMAIN t
      PROVE  f[k - 1] < f[k]
    BY <1>1, <1>9 DEF Kept
<1> QED  BY <1>2, <1>5, <1>6, <1>7, <1>8, <1>9

\* Where nothing goes, everything stays where it was.
LEMMA WithoutNothing ==
    ASSUME NEW s \in Seq(Pieces)
    PROVE  Without(s, {}) = s
<1> DEFINE n == Len(s)
           kept == 1..n
<1>1. n \in Nat /\ DOMAIN s = 1..n /\ s = [k \in 1..n |-> s[k]]
    OBVIOUS
<1>2. Cardinality(kept) = n
    BY <1>1, FS_Interval
<1>3. ASSUME NEW k \in kept
      PROVE  Nth(kept, k) = k
  <2>1. {j \in kept : j <= k} = 1..k
      BY <1>1
  <2>2. Cardinality(1..k) = k
      BY FS_Interval
  <2>3. Rank(kept, k) = k
      BY <2>1, <2>2 DEF Rank
  <2>4. kept \in SUBSET (1..n)
      OBVIOUS
  <2> QED  BY <1>1, <2>3, <2>4, NthLists
<1>4. Without(s, {}) = [k \in 1..n |-> s[Nth(kept, k)]]
    BY <1>1, <1>2 DEF Without
<1> QED  BY <1>1, <1>3, <1>4

-----------------------------------------------------------------------------
(* sanitize.                                                               *)

\* No markup; white space only between words, and never twice.
Tidy(s) ==
    \A i \in DOMAIN s :
        /\ s[i] # "tag"
        /\ s[i] = "sp" => i # 1 /\ i # Len(s) /\ s[i - 1] # "sp"

\* The white space that sanitize takes from a text without markup.
Extra(s) ==
    {i \in DOMAIN s : /\ s[i] = "sp"
                      /\ \/ i = 1 \/ s[i - 1] = "sp"
                         \/ All(s, i, Len(s), {"sp"})}

\* A piece that sanitize keeps stays where text is on both sides of it.
LEMMA ExtraGoneIsTidy ==
    ASSUME NEW s \in Seq(Pieces), \A i \in DOMAIN s : s[i] # "tag",
           NEW t \in Seq(Pieces), NEW f, Kept(s, Extra(s), t, f)
    PROVE  Tidy(t)
<1>1. /\ DOMAIN s = 1..Len(s) /\ Len(s) \in Nat
      /\ DOMAIN t = 1..Len(t) /\ Len(t) \in Nat
    OBVIOUS
<1>2. /\ \A k \in DOMAIN t : f[k] \in DOMAIN s /\ f[k] \notin Extra(s)
      /\ \A k \in DOMAIN t : \A i \in DOMAIN s \ Extra(s) : i > f[k] =>
            k + 1 \in DOMAIN t /\ f[k + 1] <= i
      /\ \A k \in DOMAIN t : \A i \in DOMAIN s \ Extra(s) : i < f[k] =>
            k - 1 \in DOMAIN t /\ f[k - 1] >= i
      /\ \A k \in DOMAIN t : k - 1 \in DOMAIN t => f[k - 1] < f[k]
    BY KeptNeighbours
<1>3. \A k \in DOMAIN t : t[k] = s[f[k]] /\ t[k] # "tag"
    BY <1>2 DEF Kept
<1>4. ASSUME NEW k \in DOMAIN t, t[k] = "sp"
      PROVE  k # 1 /\ k # Len(t) /\ t[k - 1] # "sp"
  <2> DEFINE i == f[k]
  <2>1. /\ i \in 1..Len(s) /\ s[i] = "sp" /\ i # 1 /\ s[i - 1] # "sp"
        /\ ~All(s, i, Len(s), {"sp"})
      BY <1>1, <1>2, <1>3, <1>4 DEF Extra
  <2>2. i - 1 \in DOMAIN s \ Extra(s)
      BY <1>1, <2>1 DEF Extra
  <2>3. k - 1 \in DOMAIN t /\ f[k - 1] >= i - 1
      BY <1>1, <1>2, <2>1, <2>2
  <2>4. f[k - 1] < i /\ f[k - 1] \in Int
      BY <1>1, <1>2, <2>3
  <2>5. f[k - 1] = i - 1
      BY <1>1, <2>1, <2>3, <2>4
  <2>6. t[k - 1] # "sp"
      BY <1>3, <2>1, <2>3, <2>5
  <2>7. PICK j \in i..Len(s) : s[j] # "sp"
      BY <1>1, <2>1 DEF All
  <2>8. j \in DOMAIN s \ Extra(s) /\ j > i
      BY <1>1, <2>1, <2>7 DEF Extra
  <2>9. k + 1 \in DOMAIN t
      BY <1>2, <2>8
  <2> QED  BY <1>1, <2>3, <2>6, <2>9
<1> QED  BY <1>3, <1>4 DEF Tidy

\* sanitize leaves a tidy text.
THEOREM SanitizeTidies ==
    ASSUME NEW text \in Seq(Pieces), NEW maxLength \in Nat
    PROVE  /\ Sanitize(text, maxLength) \in Seq(Pieces)
           /\ Tidy(Sanitize(text, maxLength))
<1> DEFINE n     == IF Len(text) < maxLength THEN Len(text) ELSE maxLength
           cut   == SubSeq(text, 1, n)
           tags  == {i \in DOMAIN cut : cut[i] = "tag"}
           plain == Without(cut, tags)
           clean == Without(plain, Extra(plain))
<1>1. Sanitize(text, maxLength) = clean
    BY DEF Sanitize, Extra
<1>2. cut \in Seq(Pieces)
    OBVIOUS
<1> HIDE DEF cut
<1>3. plain \in Seq(Pieces) /\ \E f : Kept(cut, tags, plain, f)
    BY <1>2, WithoutKeeps
<1>4. \A k \in DOMAIN plain : plain[k] # "tag"
    BY <1>3 DEF Kept
<1> HIDE DEF plain
<1>5. clean \in Seq(Pieces) /\ \E f : Kept(plain, Extra(plain), clean, f)
    BY <1>3, WithoutKeeps
<1> HIDE DEF clean
<1>6. Tidy(clean)
    BY <1>3, <1>4, <1>5, ExtraGoneIsTidy
<1> QED  BY <1>1, <1>5, <1>6

\* sanitize leaves a tidy text as it is.
THEOREM TidyIsSanitized ==
    ASSUME NEW s \in Seq(Pieces), Tidy(s)
    PROVE  Sanitize(s, Len(s)) = s
<1>1. DOMAIN s = 1..Len(s) /\ Len(s) \in Nat
    OBVIOUS
<1>2. SubSeq(s, 1, Len(s)) = s
    OBVIOUS
<1>3. {i \in DOMAIN s : s[i] = "tag"} = {}
    BY DEF Tidy
<1>4. Extra(s) = {}
  <2> SUFFICES ASSUME NEW i \in DOMAIN s, s[i] = "sp",
                      All(s, i, Len(s), {"sp"})
               PROVE  FALSE
      BY DEF Extra, Tidy
  <2>1. Len(s) \in i..Len(s)
      BY <1>1
  <2>2. s[Len(s)] = "sp" /\ Len(s) \in DOMAIN s
      BY <1>1, <2>1 DEF All
  <2> QED  BY <2>2 DEF Tidy
<1>5. Without(s, {}) = s
    BY WithoutNothing
<1> QED  BY <1>2, <1>3, <1>4, <1>5 DEF Sanitize, Extra

-----------------------------------------------------------------------------
(* Least numbers, in place of induction.                                   *)

LEMMA Least ==
    ASSUME NEW T \in SUBSET Nat, T # {}
    PROVE  \E n \in T : \A m \in T : n <= m
<1> DEFINE R == {ss \in Nat \X Nat : ss[1] < ss[2]}
<1>1. OpToRel(<, Nat) = R
    BY Zenon DEF OpToRel
<1>2. IsWellFoundedOn(R, Nat)
    BY <1>1, NatLessThanWellFounded, Zenon
<1>3. \A x, y \in Nat : x < y => <<x, y>> \in R
    OBVIOUS
<1> HIDE DEF R
<1>4. PICK n \in T : \A m \in T : <<m, n>> \notin R
    BY <1>2, WFMin, T \subseteq Nat
<1>5. n \in Nat /\ \A m \in T : m \in Nat /\ ~(m < n)
    BY <1>3, <1>4
<1> QED  BY <1>5

-----------------------------------------------------------------------------
(* What the patterns read.                                                 *)

Characters == Words \cup Punctuation \cup {"sp"}

\* Shapes over some pieces can be joined.
LEMMA JoinedShapes ==
    ASSUME NEW P, NEW A \in SUBSET Seq(SUBSET P), NEW B \in SUBSET Seq(SUBSET P)
    PROVE  A ** B \in SUBSET Seq(SUBSET P)
<1>1. ASSUME NEW a \in A, NEW b \in B
      PROVE  a \o b \in Seq(SUBSET P)
  <2>1. a \in Seq(SUBSET P) /\ b \in Seq(SUBSET P)
      OBVIOUS
  <2> QED  BY <2>1
<1>2. ASSUME NEW x \in A ** B
      PROVE  x \in Seq(SUBSET P)
  <2>1. PICK a \in A, b \in B : x = a \o b
    <3>1. x \in {a \o b : a \in A, b \in B}
        BY DEF **
    <3> QED  BY <3>1
  <2> QED  BY <1>1, <2>1
<1> QED  BY <1>2

LEMMA SmallShapes ==
    ASSUME NEW P, NEW c \in SUBSET P, NEW n \in Nat
    PROVE  /\ One(c) \in SUBSET Seq(SUBSET P) /\ Maybe(c) \in SUBSET Seq(SUBSET P)
           /\ Times(c, n) \in SUBSET Seq(SUBSET P)
BY DEF One, Maybe, Times

\* No shape has room for markup, a placeholder or a notice, and those of redact end
\* in a digit.
LEMMA ShapesOfCharacters ==
    ASSUME NEW pattern \in Patterns \ {"EMAIL", "suicide-method"}
    PROVE  /\ Shapes(pattern) \in SUBSET Seq(SUBSET Characters)
           /\ pattern \in PiiTypes =>
                 \A shape \in Shapes(pattern) : shape # <<>> /\ shape[Len(shape)] = Digits
<1> DEFINE Over == SUBSET Seq(SUBSET Characters)
           Ended(S) == \A shape \in S : shape # <<>> /\ shape[Len(shape)] = Digits
<1>1. /\ Digits \in SUBSET Characters /\ Separator \in SUBSET Characters
      /\ Digits \ {"9"} \in SUBSET Characters
      /\ \A c \in Characters : {c} \in SUBSET Characters
      /\ {"-", "sp"} \in SUBSET Characters /\ {"1", "5"} \in SUBSET Characters
      /\ {"/", "-"} \in SUBSET Characters
      /\ {"+", "1", "9", "(", ")", ".", "jail", "break", "DAN", "debug", "self", "harm"}
            \in SUBSET Characters
    BY DEF Characters, Words, Digits, Letters, Punctuation, Separator
<1> HIDE DEF Characters
<1>2. ASSUME NEW A \in Over, NEW B \in Over
      PROVE  A ** B \in Over
    BY JoinedShapes
<1>3. ASSUME NEW c \in SUBSET Characters, NEW n \in Nat
      PROVE  One(c) \in Over /\ Maybe(c) \in Over /\ Times(c, n) \in Over
    BY SmallShapes
<1>4. ASSUME NEW A \in Over, NEW B \in Over, Ended(B)
      PROVE  Ended(A ** B)
  <2> SUFFICES ASSUME NEW a \in A, NEW b \in B
               PROVE  a \o b # <<>> /\ (a \o b)[Len(a \o b)] = Digits
      BY DEF **
  <2>1. a \in Seq(SUBSET Characters) /\ b \in Seq(SUBSET Characters)
      OBVIOUS
  <2>2. b # <<>> /\ b[Len(b)] = Digits
      BY <1>4
  <2> QED  BY <2>1, <2>2
<1>5. ASSUME NEW n \in Nat \ {0}
      PROVE  Times(Digits, n) \in Over /\ Ended(Times(Digits, n))
  <2>1. Times(Digits, n) \in Over
      BY <1>1, <1>3
  <2>2. ASSUME NEW shape \in Times(Digits, n)
        PROVE  shape # <<>> /\ shape[Len(shape)] = Digits
    <3>1. shape = [i \in 1..n |-> Digits]
        BY DEF Times
    <3>2. Len(shape) = n /\ n \in 1..n
        BY <3>1
    <3> QED  BY <3>1, <3>2
  <2> QED  BY <2>1, <2>2
<1> DEFINE D(n) == Times(Digits, n)
<1>6. /\ D(1) \in Over /\ D(2) \in Over /\ D(3) \in Over /\ D(4) \in Over /\ D(14) \in Over
      /\ Ended(D(1)) /\ Ended(D(2)) /\ Ended(D(4)) /\ Ended(D(14))
    BY <1>5
<1>7. /\ Maybe({"+"}) \in Over /\ Maybe(Separator) \in Over
      /\ Maybe({"("}) \in Over /\ Maybe({")"}) \in Over /\ Times({"1"}, 2) \in Over
    BY <1>1, <1>3
<1>8. /\ One({"1"}) \in Over /\ One({"9"}) \in Over /\ One({"."}) \in Over
      /\ One({"jail"}) \in Over /\ One({"break"}) \in Over /\ One({"DAN"}) \in Over
      /\ One({"debug"}) \in Over /\ One({"self"}) \in Over /\ One({"harm"}) \in Over
    BY <1>1, <1>3
<1>9. /\ One({"5"}) \in Over /\ One({"1", "5"}) \in Over /\ One(Digits \ {"9"}) \in Over
      /\ One({"-", "sp"}) \in Over /\ One({"sp", "-"}) \in Over /\ One({"/", "-"}) \in Over
  <2>1. {"5"} \in SUBSET Characters /\ {"sp", "-"} \in SUBSET Characters
      BY <1>1
  <2> QED  BY <1>1, <1>3, <2>1
<1> HIDE DEF Over, Ended
<1>10. Phone \in Over /\ Ended(Phone)
  <2> DEFINE prefix == Maybe({"+"}) ** One({"1"}) ** Maybe(Separator)
             front  == ({<<>>} \cup prefix) ** Maybe({"("}) ** D(3) ** Maybe({")"})
                       ** Maybe(Separator) ** D(3) ** Maybe(Separator)
  <2>1. prefix \in Over
      BY <1>2, <1>7, <1>8
  <2>2. {<<>>} \cup prefix \in Over
    <3>1. <<>> \in Seq(SUBSET Characters)
        OBVIOUS
    <3> HIDE DEF prefix
    <3> QED  BY <2>1, <3>1 DEF Over
  <2>3. front \in Over
      BY <1>2, <1>6, <1>7, <2>2
  <2>4. Phone = front ** D(4)
      BY DEF Phone
  <2> QED  BY <1>2, <1>4, <1>6, <2>3, <2>4
<1>11. Ssn \in Over /\ Ended(Ssn)
  <2> DEFINE front == One(Digits \ {"9"}) ** D(2) ** One({"-", "sp"}) ** D(2)
                      ** One({"-", "sp"})
  <2>1. front \in Over
      BY <1>2, <1>6, <1>9
  <2>2. Ssn = front ** D(4)
      BY DEF Ssn
  <2> QED  BY <1>2, <1>4, <1>6, <2>1, <2>2
<1>12. CreditCard \in Over /\ Ended(CreditCard)
  <2>1. One({"5"}) ** One({"1", "5"}) \in Over
      BY <1>2, <1>9
  <2> QED  BY <1>2, <1>4, <1>6, <2>1 DEF CreditCard
<1>13. IpAddress \in Over /\ Ended(IpAddress)
  <2>1. One({"1"}) ** D(2) \in Over /\ Ended(One({"1"}) ** D(2))
      BY <1>2, <1>4, <1>6, <1>8
  <2>2. Octet \in Over /\ Ended(Octet)
      BY <1>6, <2>1 DEF Octet, Over, Ended
  <2> DEFINE front == Octet ** One({"."}) ** Octet ** One({"."}) ** Octet ** One({"."})
  <2>3. front \in Over
      BY <1>2, <1>8, <2>2
  <2>4. IpAddress = front ** Octet
      BY DEF IpAddress
  <2> QED  BY <1>2, <1>4, <2>2, <2>3, <2>4
<1>14. DateOfBirth \in Over /\ Ended(DateOfBirth)
  <2> DEFINE month == D(1) \cup Times({"1"}, 2)
             day   == D(1) \cup (One({"1"}) ** D(1))
             front == month ** One({"/", "-"}) ** day ** One({"/", "-"})
                      ** One({"1"}) ** One({"9"})
  <2>1. One({"1"}) ** D(1) \in Over
      BY <1>2, <1>6, <1>8
  <2>2. month \in Over /\ day \in Over
      BY <1>6, <1>7, <2>1 DEF Over
  <2>3. front \in Over
      BY <1>2, <1>8, <1>9, <2>2
  <2>4. DateOfBirth = front ** D(2)
      BY DEF DateOfBirth
  <2> QED  BY <1>2, <1>4, <1>6, <2>3, <2>4
<1>15. /\ One({"jail"}) ** One({"break"}) \in Over
       /\ One({"self"}) ** One({"sp", "-"}) ** One({"harm"}) \in Over
    BY <1>2, <1>8, <1>9
<1>16. pattern \in {"PHONE", "SSN", "CREDIT_CARD", "IP_ADDRESS", "DATE_OF_BIRTH",
                    "jailbreak", "dan", "keyword", "self-harm"}
    BY DEF Patterns, PiiTypes, Injections, Harms, Keywords
<1>17. Shapes(pattern) \in Over /\ (pattern \in PiiTypes => Ended(Shapes(pattern)))
  <2>1. CASE pattern \in {"jailbreak", "dan", "keyword", "self-harm"}
      BY <2>1, <1>8, <1>15 DEF Shapes, PiiTypes
  <2>2. CASE pattern \notin {"jailbreak", "dan", "keyword", "self-harm"}
      BY <2>2, <1>16, <1>10, <1>11, <1>12, <1>13, <1>14 DEF Shapes
  <2> QED  BY <2>1, <2>2
<1> QED  BY <1>17 DEF Over, Ended

\* What a pattern reads are characters, and what redact replaces, addresses apart,
\* ends in a digit.
LEMMA CharactersAreRead ==
    ASSUME NEW s \in Seq(Pieces), NEW pattern \in Patterns,
           NEW i \in DOMAIN s, NEW j \in DOMAIN s, i <= j, Reads(pattern, s, i, j)
    PROVE  /\ \A k \in i..j : s[k] \in Characters
           /\ pattern \in PiiTypes \ {"EMAIL"} => s[j] \in Digits
           /\ pattern = "EMAIL" => \E k \in i..j : s[k] = "@"
<1>1. DOMAIN s = 1..Len(s) /\ Len(s) \in Nat
    OBVIOUS
<1>2. CASE pattern = "EMAIL"
  <2>1. PICK at \in i..j, dot \in i..j :
            /\ i < at /\ at + 1 < dot /\ dot < j
            /\ s[at] = "@" /\ s[dot] = "."
            /\ All(s, i, at - 1, Words \cup {".", "+", "-"})
            /\ All(s, at + 1, dot - 1, Words \cup {".", "-"})
            /\ All(s, dot + 1, j, Letters)
      BY <1>2 DEF Reads, Email
  <2>2. ASSUME NEW k \in i..j
        PROVE  s[k] \in Characters
    <3>1. \/ k \in i..(at - 1) \/ k = at \/ k \in (at + 1)..(dot - 1)
          \/ k = dot \/ k \in (dot + 1)..j
        BY <1>1, <2>1
    <3>2. /\ Words \cup {".", "+", "-"} \subseteq Characters
          /\ Words \cup {".", "-"} \subseteq Characters
          /\ "@" \in Characters /\ "." \in Characters /\ Letters \subseteq Characters
        BY DEF Characters, Words, Punctuation
    <3> QED  BY <2>1, <3>1, <3>2 DEF All
  <2> QED  BY <1>2, <2>1, <2>2
<1>3. CASE pattern = "suicide-method"
  <2>1. s[i] = "suicide" /\ s[j] = "method" /\ All(s, i + 1, j - 1, {"sp"})
      BY <1>3 DEF Reads
  <2>2. ASSUME NEW k \in i..j
        PROVE  s[k] \in Characters
    <3>1. k = i \/ k = j \/ k \in (i + 1)..(j - 1)
        BY <1>1
    <3> QED  BY <2>1, <3>1 DEF All, Characters, Words, Letters
  <2> QED  BY <1>3, <2>2 DEF PiiTypes
<1>4. CASE pattern \in Patterns \ {"EMAIL", "suicide-method"}
  <2>1. PICK shape \in Shapes(pattern) :
            /\ Len(shape) = j - i + 1
            /\ \A k \in DOMAIN shape : s[i + k - 1] \in shape[k]
      BY <1>4 DEF Reads
  <2>2. /\ shape \in Seq(SUBSET Characters)
        /\ pattern \in PiiTypes => shape[Len(shape)] = Digits
      BY <1>4, ShapesOfCharacters
  <2>3. DOMAIN shape = 1..(j - i + 1)
      BY <2>1, <2>2
  <2>4. ASSUME NEW k \in i..j
        PROVE  s[k] \in Characters
    <3>1. k - i + 1 \in DOMAIN shape /\ i + (k - i + 1) - 1 = k
        BY <1>1, <2>3
    <3>2. s[k] \in shape[k - i + 1]
        BY <2>1, <3>1
    <3> QED  BY <2>2, <3>1, <3>2
  <2>5. pattern \in PiiTypes => s[j] \in Digits
    <3>1. Len(shape) \in DOMAIN shape /\ i + Len(shape) - 1 = j
        BY <1>1, <2>1, <2>3
    <3> QED  BY <2>1, <2>2, <3>1
  <2> QED  BY <1>4, <2>4, <2>5
<1> QED  BY <1>2, <1>3, <1>4

\* Where a text is the same, a pattern reads the same.
LEMMA ReadsElsewhere ==
    ASSUME NEW s \in Seq(Pieces), NEW t \in Seq(Pieces), NEW pattern \in Patterns,
           NEW a \in Int, NEW b \in Int, NEW d \in Int, a <= b,
           \A k \in a..b : t[k] = s[k + d],
           Reads(pattern, t, a, b)
    PROVE  Reads(pattern, s, a + d, b + d)
<1>1. ASSUME NEW c, NEW k \in Int, NEW l \in Int, a <= k, l <= b, All(t, k, l, c)
      PROVE  All(s, k + d, l + d, c)
  <2> SUFFICES ASSUME NEW n \in (k + d)..(l + d)
               PROVE  s[n] \in c
      BY DEF All
  <2>1. n - d \in k..l /\ n - d \in a..b /\ (n - d) + d = n
      BY <1>1
  <2> QED  BY <1>1, <2>1 DEF All
<1>2. CASE pattern = "EMAIL"
  <2>1. PICK at \in a..b, dot \in a..b :
            /\ a < at /\ at + 1 < dot /\ dot < b
            /\ t[at] = "@" /\ t[dot] = "."
            /\ All(t, a, at - 1, Words \cup {".", "+", "-"})
            /\ All(t, at + 1, dot - 1, Words \cup {".", "-"})
            /\ All(t, dot + 1, b, Letters)
      BY <1>2 DEF Reads, Email
  <2>2. /\ at + d \in (a + d)..(b + d) /\ dot + d \in (a + d)..(b + d)
        /\ a + d < at + d /\ (at + d) + 1 < dot + d /\ dot + d < b + d
        /\ s[at + d] = "@" /\ s[dot + d] = "."
    <3>1. t[at] = s[at + d] /\ t[dot] = s[dot + d]
        BY <2>1
    <3>2. at \in Int /\ dot \in Int
        BY <2>1
    <3>3. /\ at + d \in (a + d)..(b + d) /\ dot + d \in (a + d)..(b + d)
          /\ a + d < at + d /\ (at + d) + 1 < dot + d /\ dot + d < b + d
        BY <2>1, <3>2
    <3> QED  BY <2>1, <3>1, <3>3
  <2>3. All(s, a + d, (at - 1) + d, Words \cup {".", "+", "-"})
      BY <1>1, <2>1
  <2>4. All(s, (at + 1) + d, (dot - 1) + d, Words \cup {".", "-"})
      BY <1>1, <2>1
  <2>5. All(s, (dot + 1) + d, b + d, Letters)
      BY <1>1, <2>1
  <2>6. /\ (at - 1) + d = (at + d) - 1 /\ (at + 1) + d = (at + d) + 1
        /\ (dot - 1) + d = (dot + d) - 1 /\ (dot + 1) + d = (dot + d) + 1
      BY <2>1
  <2>7. /\ All(s, a + d, (at + d) - 1, Words \cup {".", "+", "-"})
        /\ All(s, (at + d) + 1, (dot + d) - 1, Words \cup {".", "-"})
        /\ All(s, (dot + d) + 1, b + d, Letters)
      BY <2>3, <2>4, <2>5, <2>6
  <2> QED  BY <1>2, <2>2, <2>7 DEF Reads, Email
<1>3. CASE pattern = "suicide-method"
  <2>1. t[a] = "suicide" /\ t[b] = "method" /\ a + 1 < b /\ All(t, a + 1, b - 1, {"sp"})
      BY <1>3 DEF Reads
  <2>2. s[a + d] = "suicide" /\ s[b + d] = "method" /\ (a + d) + 1 < b + d
      BY <2>1
  <2>3. All(s, (a + 1) + d, (b - 1) + d, {"sp"})
      BY <1>1, <2>1
  <2>4. (a + 1) + d = (a + d) + 1 /\ (b - 1) + d = (b + d) - 1
      OBVIOUS
  <2> QED  BY <1>3, <2>2, <2>3, <2>4 DEF Reads
<1>4. CASE pattern \notin {"EMAIL", "suicide-method"}
  <2>1. PICK shape \in Shapes(pattern) :
            /\ Len(shape) = b - a + 1
            /\ \A k \in DOMAIN shape : t[a + k - 1] \in shape[k]
      BY <1>4 DEF Reads
  <2>2. shape \in Seq(SUBSET Characters)
      BY <1>4, ShapesOfCharacters
  <2>3. DOMAIN shape = 1..(b - a + 1) /\ Len(shape) = (b + d) - (a + d) + 1
      BY <2>1, <2>2
  <2>4. ASSUME NEW k \in DOMAIN shape
        PROVE  s[(a + d) + k - 1] \in shape[k]
    <3>1. a + k - 1 \in a..b /\ (a + k - 1) + d = (a + d) + k - 1
        BY <2>3
    <3> QED  BY <2>1, <3>1
  <2> QED  BY <1>4, <2>1, <2>3, <2>4 DEF Reads
<1> QED  BY <1>2, <1>3, <1>4

-----------------------------------------------------------------------------
(* What is found of what matches.                                          *)

LEMMA MatchesAreIntervals ==
    ASSUME NEW s \in Seq(Pieces), NEW pattern \in Patterns, NEW m \in Matches(pattern, s)
    PROVE  /\ m[1] \in 1..Len(s) /\ m[2] \in 1..Len(s) /\ m[1] <= m[2]
           /\ m = <<m[1], m[2]>>
           /\ Reads(pattern, s, m[1], m[2])
           /\ pattern \in BoundedRight => Boundary(s, m[2])
           /\ pattern \in BoundedLeft  => Boundary(s, m[1] - 1)
<1>1. DOMAIN s = 1..Len(s)
    OBVIOUS
<1> QED  BY <1>1 DEF Matches

\* Where something matches there is a longest match.
LEMMA LongestExists ==
    ASSUME NEW s \in Seq(Pieces), NEW pattern \in Patterns, NEW m \in Matches(pattern, s)
    PROVE  \E n \in Longest(pattern, s) : n[1] = m[1]
<1> DEFINE here == {n \in Matches(pattern, s) : n[1] = m[1]}
           left == {k \in Nat : \E n \in here : k = Len(s) - n[2]}
<1>1. Len(s) \in Nat /\ \A n \in Matches(pattern, s) : n[2] \in 1..Len(s)
    BY MatchesAreIntervals
<1>2. \A n \in here : Len(s) - n[2] \in left
    BY <1>1
<1>3. left \in SUBSET Nat /\ left # {}
    BY <1>2
<1>4. PICK k \in left : \A l \in left : k <= l
  <2> HIDE DEF left
  <2> QED  BY <1>3, Least
<1>5. PICK n \in here : k = Len(s) - n[2]
    BY <1>4
<1>6. ASSUME NEW o \in here
      PROVE  o[2] <= n[2]
  <2>1. k <= Len(s) - o[2]
      BY <1>2, <1>4
  <2>2. n[2] \in Int /\ o[2] \in Int /\ Len(s) \in Int
      BY <1>1
  <2> HIDE DEF here, left
  <2> QED  BY <1>5, <2>1, <2>2
<1>7. n \in Longest(pattern, s)
    BY <1>5, <1>6 DEF Longest
<1> QED  BY <1>5, <1>7

\* Does a match found before m reach into it?
Reached(found, m) == \E n \in found : n[1] < m[1] /\ m[1] <= n[2]

\* From left to right there is always a choice.
LEMMA FoundExists ==
    ASSUME NEW s \in Seq(Pieces), NEW pattern \in Patterns
    PROVE  /\ Found(pattern, s) \in SUBSET Longest(pattern, s)
           /\ \A m \in Longest(pattern, s) :
                 m \in Found(pattern, s) <=> ~Reached(Found(pattern, s), m)
<1> DEFINE L == Longest(pattern, s)
           UpTo(N, F) == /\ \A m \in F : m[1] <= N
                         /\ \A m \in L : m[1] <= N => (m \in F <=> ~Reached(F, m))
           bad == {N \in Nat : ~ \E F \in SUBSET L : UpTo(N, F)}
<1>1. Len(s) \in Nat /\ \A m \in L : m[1] \in 1..Len(s)
    BY MatchesAreIntervals DEF Longest
<1> HIDE DEF L
<1>2. UpTo(0, {})
    BY <1>1
<1>3. ASSUME NEW N \in Nat, NEW F \in SUBSET L, UpTo(N, F)
      PROVE  \E G \in SUBSET L : UpTo(N + 1, G)
  <2> DEFINE new == {m \in L : m[1] = N + 1 /\ ~Reached(F, m)}
             G   == F \cup new
  <2>1. \A m \in L : m[1] \in Int
      BY <1>1
  <2>2. ASSUME NEW m \in L, m[1] <= N + 1
        PROVE  Reached(G, m) <=> Reached(F, m)
    <3>1. ASSUME NEW n \in new
          PROVE  ~(n[1] < m[1])
        BY <2>1, <2>2
    <3> QED  BY <3>1 DEF Reached
  <2>3. ASSUME NEW m \in L, m[1] <= N + 1
        PROVE  m \in G <=> ~Reached(G, m)
    <3>1. CASE m[1] <= N
      <4>1. m \notin new
          BY <2>1, <3>1
      <4> QED  BY <1>3, <2>2, <2>3, <3>1, <4>1
    <3>2. CASE m[1] = N + 1
      <4>1. m \notin F
          BY <1>3, <2>1, <3>2
      <4> QED  BY <2>2, <2>3, <3>2, <4>1
    <3> QED  BY <2>1, <2>3, <3>1, <3>2
  <2>4. \A m \in G : m[1] <= N + 1
      BY <1>3, <2>1
  <2>5. G \in SUBSET L
      OBVIOUS
  <2> QED  BY <2>3, <2>4, <2>5
<1>4. bad = {}
  <2> SUFFICES ASSUME bad # {}
               PROVE  FALSE
      OBVIOUS
  <2>1. bad \in SUBSET Nat
      OBVIOUS
  <2>2. PICK N \in bad : \A k \in bad : N <= k
    <3> HIDE DEF bad
    <3> QED  BY <2>1, Least
  <2>3. N # 0
      BY <1>2
  <2>4. N - 1 \in Nat /\ N - 1 \notin bad /\ (N - 1) + 1 = N
    <3> HIDE DEF bad
    <3>1. N \in Nat
        BY <2>1
    <3>2. N - 1 \in bad => N <= N - 1
        BY <2>2
    <3> QED  BY <2>3, <3>1, <3>2
  <2>5. PICK F \in SUBSET L : UpTo(N - 1, F)
      BY <2>4
  <2> HIDE DEF UpTo
  <2>6. \E G \in SUBSET L : UpTo(N, G)
      BY <1>3, <2>4, <2>5
  <2> QED  BY <2>2, <2>6
<1>5. PICK F \in SUBSET L : UpTo(Len(s), F)
    BY <1>1, <1>4
<1>6. \A m \in L : m \in F <=> ~Reached(F, m)
    BY <1>1, <1>5
<1>7. \E found \in SUBSET L :
          \A m \in L : m \in found <=> \A n \in found : ~(n[1] < m[1] /\ m[1] <= n[2])
    BY <1>6 DEF Reached
<1>8. /\ Found(pattern, s) \in SUBSET L
      /\ \A m \in L :
            m \in Found(pattern, s)
               <=> \A n \in Found(pattern, s) : ~(n[1] < m[1] /\ m[1] <= n[2])
    BY <1>7 DEF Found, L
<1> QED  BY <1>8 DEF Reached, L

\* The matches found are matches, each is left of the next, and every other match
\* begins inside one of them.
LEMMA FoundCovers ==
    ASSUME NEW s \in Seq(Pieces), NEW pattern \in Patterns
    PROVE  /\ Found(pattern, s) \in SUBSET Matches(pattern, s)
           /\ \A m, n \in Found(pattern, s) : m # n => m[2] < n[1] \/ n[2] < m[1]
           /\ \A m \in Matches(pattern, s) : \E n \in Found(pattern, s) :
                 n[1] <= m[1] /\ m[1] <= n[2]
<1> DEFINE F == Found(pattern, s)
           L == Longest(pattern, s)
           M == Matches(pattern, s)
<1>1. F \in SUBSET L /\ \A m \in L : m \in F <=> ~Reached(F, m)
    BY FoundExists
<1> HIDE DEF F
<1>2. L \in SUBSET M /\ \A m \in L : \A n \in M : n[1] = m[1] => n[2] <= m[2]
    BY DEF Longest
<1>3. \A m \in M : /\ m[1] \in Int /\ m[2] \in Int /\ m[1] <= m[2]
                   /\ m = <<m[1], m[2]>>
    BY MatchesAreIntervals
<1>4. \A m \in M : \E n \in L : n[1] = m[1]
    BY LongestExists
<1> HIDE DEF L, M
<1>5. ASSUME NEW m \in F, NEW n \in F, m # n
      PROVE  m[2] < n[1] \/ n[2] < m[1]
  <2>1. m \in M /\ n \in M /\ m \in L /\ n \in L
      BY <1>1, <1>2
  <2>2. CASE m[1] = n[1]
    <3>1. m[2] <= n[2] /\ n[2] <= m[2]
        BY <1>2, <2>1, <2>2
    <3>2. m[2] = n[2]
        BY <1>3, <2>1, <3>1
    <3> QED  BY <1>3, <1>5, <2>1, <2>2, <3>2
  <2>3. CASE m[1] < n[1]
      BY <1>1, <1>3, <2>1, <2>3 DEF Reached
  <2>4. CASE n[1] < m[1]
      BY <1>1, <1>3, <2>1, <2>4 DEF Reached
  <2> QED  BY <1>3, <2>1, <2>2, <2>3, <2>4
<1>6. ASSUME NEW m \in M
      PROVE  \E n \in F : n[1] <= m[1] /\ m[1] <= n[2]
  <2>1. PICK l \in L : l[1] = m[1]
      BY <1>4
  <2>2. CASE l \in F
      BY <1>2, <1>3, <2>1, <2>2
  <2>3. CASE l \notin F
    <3>1. PICK n \in F : n[1] < l[1] /\ l[1] <= n[2]
        BY <1>1, <2>3 DEF Reached
    <3>2. n \in M /\ l \in M
        BY <1>1, <1>2
    <3>3. n[1] <= m[1] /\ m[1] <= n[2]
        BY <1>3, <2>1, <3>1, <3>2
    <3> QED  BY <3>3
  <2> QED  BY <2>2, <2>3
<1> QED  BY <1>1, <1>2, <1>5, <1>6 DEF F, M

-----------------------------------------------------------------------------
(* One substitution.                                                       *)

\* Does something that is found begin at i?
Opens(type, s, i) == \E m \in Found(type, s) : m[1] = i

\* t is s with a placeholder for each of the matches found, and f tells where its
\* pieces come from.
Placed(type, s, t, f) ==
    /\ f \in [DOMAIN t -> DOMAIN s]
    /\ t # <<>> => f[1] = 1
    /\ \A k \in DOMAIN t :
          /\ t[k] = IF Opens(type, s, f[k]) THEN type ELSE s[f[k]]
          /\ ~Opens(type, s, f[k]) =>
                IF k = Len(t) THEN f[k] = Len(s) ELSE f[k + 1] = f[k] + 1
          /\ \A m \in Found(type, s) :
                /\ m[1] = f[k] =>
                      IF k = Len(t) THEN m[2] = Len(s) ELSE f[k + 1] = m[2] + 1
                /\ ~(m[1] < f[k] /\ f[k] <= m[2])

LEMMA SubPlaces ==
    ASSUME NEW s \in Seq(Pieces), NEW type \in PiiTypes
    PROVE  /\ Sub(type, s) \in Seq(Pieces)
           /\ s # <<>> => Sub(type, s) # <<>>
           /\ \E f : Placed(type, s, Sub(type, s), f)
<1> DEFINE F    == Found(type, s)
           gone == UNION {(m[1] + 1)..m[2] : m \in F}
           u    == [i \in DOMAIN s |-> IF \E m \in F : m[1] = i THEN type ELSE s[i]]
           t    == Without(u, gone)
<1>1. /\ DOMAIN s = 1..Len(s) /\ Len(s) \in Nat
      /\ type \in Patterns /\ type \in Pieces
    BY DEF Patterns, Pieces
<1>2. \A m \in F : /\ m[1] \in 1..Len(s) /\ m[2] \in 1..Len(s) /\ m[1] <= m[2]
    BY <1>1, FoundCovers, MatchesAreIntervals
<1>3. \A m, n \in F : m # n => m[2] < n[1] \/ n[2] < m[1]
    BY <1>1, FoundCovers
<1> HIDE DEF F
<1>4. u \in Seq(Pieces) /\ DOMAIN u = DOMAIN s /\ Len(u) = Len(s)
  <2>1. u \in [1..Len(s) -> Pieces]
      BY <1>1
  <2> QED  BY <1>1, <2>1
<1>5. \A i \in DOMAIN s : u[i] = IF \E m \in F : m[1] = i THEN type ELSE s[i]
    OBVIOUS
<1>6. \A i : i \in gone <=> \E m \in F : i \in (m[1] + 1)..m[2]
    OBVIOUS
<1> HIDE DEF u, gone
<1>7. t \in Seq(Pieces) /\ \E f : Kept(u, gone, t, f)
    BY <1>4, WithoutKeeps
<1>8. PICK f : Kept(u, gone, t, f)
    BY <1>7
<1> HIDE DEF t
<1>9. DOMAIN t = 1..Len(t) /\ Len(t) \in Nat
    BY <1>7
<1>10. /\ \A k \in DOMAIN t : f[k] \in DOMAIN s /\ f[k] \notin gone
       /\ \A k \in DOMAIN t : \A i \in DOMAIN s \ gone : i > f[k] =>
             k + 1 \in DOMAIN t /\ f[k + 1] <= i
       /\ \A k \in DOMAIN t : k + 1 \in DOMAIN t => f[k] < f[k + 1]
       /\ \A i \in DOMAIN s \ gone : 1 \in DOMAIN t /\ f[1] <= i
    BY <1>4, <1>7, <1>8, KeptNeighbours
<1>11. /\ f \in [DOMAIN t -> DOMAIN s]
       /\ \A k \in DOMAIN t : t[k] = u[f[k]]
    BY <1>4, <1>8 DEF Kept
<1>12. \A k \in DOMAIN t : t[k] = IF Opens(type, s, f[k]) THEN type ELSE s[f[k]]
    BY <1>5, <1>10, <1>11 DEF Opens, F
<1>13. ASSUME NEW k \in DOMAIN t, NEW m \in F
       PROVE  ~(m[1] < f[k] /\ f[k] <= m[2])
  <2>1. f[k] \notin (m[1] + 1)..m[2] /\ f[k] \in Int
      BY <1>1, <1>6, <1>10
  <2> QED  BY <1>2, <2>1
<1>14. 1 \notin gone
    BY <1>2, <1>6
<1>15. (s # <<>> => t # <<>>) /\ (t # <<>> => f[1] = 1)
  <2>1. ASSUME s # <<>>
        PROVE  1 \in DOMAIN t /\ f[1] = 1
    <3>1. 1 \in DOMAIN s
        BY <1>1, <2>1
    <3>2. 1 \in DOMAIN t /\ f[1] <= 1
        BY <1>10, <1>14, <3>1
    <3> QED  BY <1>1, <1>10, <3>2
  <2>2. t # <<>> => s # <<>>
    <3>1. t # <<>> => 1 \in DOMAIN t
        BY <1>7, <1>9
    <3> QED  BY <1>10, <3>1
  <2> QED  BY <1>9, <2>1, <2>2
<1>16. ASSUME NEW k \in DOMAIN t, ~Opens(type, s, f[k])
       PROVE  IF k = Len(t) THEN f[k] = Len(s) ELSE f[k + 1] = f[k] + 1
  <2>1. f[k] \in 1..Len(s) /\ k \in 1..Len(t)
      BY <1>1, <1>9, <1>10
  <2>2. f[k] + 1 \notin gone
    <3> SUFFICES ASSUME NEW m \in F, f[k] + 1 \in (m[1] + 1)..m[2]
                 PROVE  FALSE
        BY <1>6
    <3>1. m[1] <= f[k] /\ f[k] <= m[2]
        BY <1>2, <2>1
    <3>2. m[1] = f[k]
        BY <1>2, <1>13, <2>1, <3>1
    <3> QED  BY <1>16, <3>2 DEF Opens, F
  <2>3. CASE f[k] = Len(s)
    <3>1. k + 1 \notin DOMAIN t
        BY <1>1, <1>10, <2>1, <2>3
    <3>2. k = Len(t)
        BY <1>9, <2>1, <3>1
    <3> QED  BY <2>3, <3>2
  <2>4. CASE f[k] # Len(s)
    <3>1. f[k] + 1 \in DOMAIN s \ gone /\ f[k] + 1 > f[k]
        BY <1>1, <2>1, <2>2, <2>4
    <3>2. k + 1 \in DOMAIN t /\ f[k + 1] <= f[k] + 1
        BY <1>10, <3>1
    <3>3. f[k] < f[k + 1] /\ f[k + 1] \in Int
        BY <1>1, <1>10, <3>2
    <3>4. k # Len(t) /\ f[k + 1] = f[k] + 1
        BY <1>9, <2>1, <3>2, <3>3
    <3> QED  BY <3>4
  <2> QED  BY <2>3, <2>4
<1>17. ASSUME NEW k \in DOMAIN t, NEW m \in F, m[1] = f[k]
       PROVE  IF k = Len(t) THEN m[2] = Len(s) ELSE f[k + 1] = m[2] + 1
  <2>1. f[k] \in 1..Len(s) /\ k \in 1..Len(t)
      BY <1>1, <1>9, <1>10
  <2>2. m[2] + 1 \notin gone
    <3> SUFFICES ASSUME NEW n \in F, m[2] + 1 \in (n[1] + 1)..n[2]
                 PROVE  FALSE
        BY <1>6
    <3>1. n[1] <= m[2] /\ m[2] < n[2]
        BY <1>2
    <3>2. m # n
        BY <1>2, <3>1
    <3> QED  BY <1>2, <1>3, <3>1, <3>2
  <2>3. ASSUME k + 1 \in DOMAIN t
        PROVE  f[k + 1] > m[2]
    <3>1. f[k] < f[k + 1] /\ f[k + 1] \in Int
        BY <1>1, <1>10, <2>3
    <3> QED  BY <1>2, <1>13, <1>17, <2>1, <2>3, <3>1
  <2>4. CASE m[2] = Len(s)
    <3>1. k + 1 \notin DOMAIN t
      <4>1. \A j \in DOMAIN t : f[j] \in Int /\ f[j] <= Len(s)
          BY <1>1, <1>10
      <4> QED  BY <1>1, <2>3, <2>4, <4>1
    <3>2. k = Len(t)
        BY <1>9, <2>1, <3>1
    <3> QED  BY <2>4, <3>2
  <2>5. CASE m[2] # Len(s)
    <3>1. m[2] + 1 \in DOMAIN s \ gone /\ m[2] + 1 > f[k]
        BY <1>1, <1>2, <1>17, <2>2, <2>5
    <3>2. k + 1 \in DOMAIN t /\ f[k + 1] <= m[2] + 1
        BY <1>10, <3>1
    <3>3. f[k + 1] \in Int /\ m[2] \in Int
        BY <1>1, <1>2, <1>10, <3>2
    <3>4. k # Len(t) /\ f[k + 1] = m[2] + 1
        BY <1>9, <2>1, <2>3, <3>2, <3>3
    <3> QED  BY <3>4
  <2> QED  BY <2>4, <2>5
<1>18. Placed(type, s, t, f)
    BY <1>11, <1>12, <1>13, <1>15, <1>16, <1>17 DEF Placed, F
<1>19. t = Sub(type, s)
    BY DEF t, u, gone, F, Sub, Replace
<1> QED  BY <1>7, <1>15, <1>18, <1>19

LEMMA NoPlaceholderIsRead == Characters \cap PiiTypes = {} /\ "PHONE" \in PiiTypes
BY DEF Characters, Words, Digits, Letters, Punctuation, PiiTypes

\* What matches after a substitution stood in one piece before it.
LEMMA PlacedMatch ==
    ASSUME NEW s \in Seq(Pieces), NEW t \in Seq(Pieces), NEW type \in PiiTypes, NEW f,
           Placed(type, s, t, f), NEW pattern \in Patterns, NEW m \in Matches(pattern, t)
    PROVE  \A k \in m[1]..m[2] :
               /\ k \in DOMAIN t /\ f[k] = k + (f[m[1]] - m[1])
               /\ ~Opens(type, s, f[k]) /\ t[k] = s[f[k]]
<1> DEFINE a   == m[1]
           b   == m[2]
           d   == f[a] - a
           bad == {k \in Nat : k \in a..b /\ f[k] # k + d}
<1>1. /\ a \in 1..Len(t) /\ b \in 1..Len(t) /\ a <= b /\ Reads(pattern, t, a, b)
      /\ DOMAIN t = 1..Len(t) /\ Len(t) \in Nat /\ DOMAIN s = 1..Len(s) /\ Len(s) \in Nat
    BY MatchesAreIntervals
<1> HIDE DEF a, b
<1>2. ASSUME NEW k \in a..b
      PROVE  k \in DOMAIN t /\ (k # b => k # Len(t)) /\ t[k] \in Characters /\ f[k] \in Int
  <2>1. \A l \in a..b : t[l] \in Characters
      BY <1>1, CharactersAreRead
  <2>2. a \in Int /\ b \in Int /\ 1 <= a /\ b <= Len(t) /\ Len(t) \in Int
      BY <1>1
  <2>3. k \in 1..Len(t) /\ (k # b => k # Len(t))
      BY <2>2
  <2>4. f \in [DOMAIN t -> DOMAIN s]
      BY DEF Placed
  <2>5. k \in DOMAIN t
      BY <1>1, <2>3
  <2>6. f[k] \in 1..Len(s)
      BY <1>1, <2>4, <2>5
  <2> QED  BY <2>1, <2>3, <2>5, <2>6
<1>3. \A k \in a..b : ~Opens(type, s, f[k]) /\ t[k] = s[f[k]]
    BY <1>2, NoPlaceholderIsRead DEF Placed
<1>4. ASSUME NEW k \in a..b, k # b
      PROVE  f[k + 1] = f[k] + 1
  <2>1. k \in DOMAIN t /\ k # Len(t)
      BY <1>2, <1>4
  <2> QED  BY <1>3, <2>1 DEF Placed
<1>5. bad = {}
  <2> SUFFICES ASSUME bad # {}
               PROVE  FALSE
      OBVIOUS
  <2>1. bad \in SUBSET Nat
      OBVIOUS
  <2>2. f[a] \in Int /\ a \in Int /\ d \in Int
    <3>1. a \in Int /\ b \in Int /\ a <= b
        BY <1>1
    <3>2. a \in a..b
        BY <3>1
    <3>3. f[a] \in Int
        BY <1>2, <3>2
    <3> QED  BY <3>1, <3>3
  <2>3. PICK k \in bad : \A l \in bad : k <= l
    <3> HIDE DEF bad
    <3> QED  BY <2>1, Least
  <2>4. k \in Nat /\ k \in a..b /\ f[k] # k + d
      BY <2>3
  <2>5. k # a
    <3>1. f[a] \in Int /\ a \in Int
        BY <2>2
    <3> QED  BY <2>4, <3>1
  <2>6. k - 1 \in a..b /\ k - 1 \in Nat /\ k - 1 # b /\ (k - 1) + 1 = k
      BY <1>1, <2>4, <2>5
  <2>7. k - 1 \notin bad
      BY <2>3, <2>4, <2>6
  <2>8. f[k - 1] = (k - 1) + d
      BY <2>6, <2>7
  <2>9. f[k] = f[k - 1] + 1
      BY <1>4, <2>6
  <2> HIDE DEF d, bad
  <2> QED  BY <2>4, <2>6, <2>8, <2>9, <2>2
<1>6. \A k \in a..b : f[k] = k + d
    BY <1>1, <1>5
<1> QED  BY <1>2, <1>3, <1>6 DEF a, b

\* A placeholder uncovers nothing, unless it is PHONE and stands right behind; and a
\* pass of one pattern leaves nothing that it could have found.
LEMMA SubUncovers ==
    ASSUME NEW s \in Seq(Pieces), NEW type \in PiiTypes, NEW pattern \in Patterns,
           NEW m \in Matches(pattern, Sub(type, s))
    PROVE  LET t == Sub(type, s) IN
           \/ /\ pattern # type
              /\ \E o \in Matches(pattern, s) :
                    o[2] < Len(s) /\ s[o[2] + 1] = "PHONE"
                        => m[2] < Len(t) /\ t[m[2] + 1] = "PHONE"
           \/ /\ type = "PHONE" /\ m[2] < Len(t) /\ t[m[2] + 1] = "PHONE"
              /\ \E n \in Found("PHONE", s) : WordAt(s, n[1] - 1)
<1> DEFINE t == Sub(type, s)
           a == m[1]
           b == m[2]
<1>1. t \in Seq(Pieces) /\ \E f : Placed(type, s, t, f)
    BY SubPlaces
<1>2. PICK f : Placed(type, s, t, f)
    BY <1>1
<1>3. m \in Matches(pattern, t)
    OBVIOUS
<1> HIDE DEF t
<1>4. /\ a \in 1..Len(t) /\ b \in 1..Len(t) /\ a <= b /\ Reads(pattern, t, a, b)
      /\ pattern \in BoundedRight => Boundary(t, b)
      /\ pattern \in BoundedLeft  => Boundary(t, a - 1)
    BY <1>1, <1>3, MatchesAreIntervals
<1>5. /\ DOMAIN t = 1..Len(t) /\ Len(t) \in Nat
      /\ DOMAIN s = 1..Len(s) /\ Len(s) \in Nat
      /\ type \in Patterns
    BY <1>1 DEF Patterns
<1>6. \A k \in a..b : /\ k \in DOMAIN t /\ f[k] = k + (f[a] - a)
                      /\ ~Opens(type, s, f[k]) /\ t[k] = s[f[k]]
    BY <1>1, <1>2, <1>3, PlacedMatch
<1> HIDE DEF a, b
<1> DEFINE d == f[a] - a
           i == f[a]
           j == f[b]
<1>7. /\ i \in 1..Len(s) /\ j \in 1..Len(s) /\ d \in Int /\ i = a + d /\ j = b + d
      /\ i <= j /\ ~Opens(type, s, i) /\ ~Opens(type, s, j)
      /\ t[a] = s[i] /\ t[b] = s[j]
      /\ \A k \in a..b : t[k] = s[k + d]
  <2>1. f[a] \in 1..Len(s) /\ f[b] \in 1..Len(s)
      BY <1>2, <1>4, <1>5 DEF Placed
  <2>2. a \in a..b /\ b \in a..b
      BY <1>4
  <2>3. f[b] = b + (f[a] - a)
      BY <1>6, <2>2
  <2>4. \A k \in a..b : t[k] = s[k + d]
      BY <1>6
  <2>5. /\ ~Opens(type, s, f[a]) /\ t[a] = s[f[a]]
        /\ ~Opens(type, s, f[b]) /\ t[b] = s[f[b]]
      BY <1>6, <2>2
  <2>6. d \in Int /\ f[a] = a + d /\ f[b] = b + d /\ f[a] <= f[b]
      BY <1>4, <2>1, <2>3
  <2> QED  BY <2>1, <2>4, <2>5, <2>6
<1>8. \A n \in Found(type, s) :
          /\ n \in Matches(type, s)
          /\ n[1] \in 1..Len(s) /\ n[2] \in 1..Len(s) /\ n[1] <= n[2]
          /\ Boundary(s, n[2])
          /\ type # "PHONE" => Boundary(s, n[1] - 1)
          /\ s[n[1]] \in Characters
  <2> SUFFICES ASSUME NEW n \in Found(type, s)
               PROVE  /\ n \in Matches(type, s)
                      /\ n[1] \in 1..Len(s) /\ n[2] \in 1..Len(s) /\ n[1] <= n[2]
                      /\ Boundary(s, n[2])
                      /\ type # "PHONE" => Boundary(s, n[1] - 1)
                      /\ s[n[1]] \in Characters
      OBVIOUS
  <2>1. n \in Matches(type, s)
      BY <1>5, FoundCovers
  <2>2. /\ n[1] \in 1..Len(s) /\ n[2] \in 1..Len(s) /\ n[1] <= n[2]
        /\ Reads(type, s, n[1], n[2])
        /\ type \in BoundedRight => Boundary(s, n[2])
        /\ type \in BoundedLeft  => Boundary(s, n[1] - 1)
      BY <1>5, <2>1, MatchesAreIntervals
  <2>3. type \in BoundedRight /\ (type # "PHONE" => type \in BoundedLeft)
      BY DEF BoundedRight, BoundedLeft, PiiTypes, Patterns
  <2>4. s[n[1]] \in Characters
    <3>1. \A k \in n[1]..n[2] : s[k] \in Characters
        BY <1>5, <2>2, CharactersAreRead
    <3> QED  BY <2>2, <3>1
  <2> QED  BY <2>1, <2>2, <2>3, <2>4
<1>9. type \notin Words /\ "PHONE" \notin Characters
    BY NoPlaceholderIsRead DEF Characters
<1>10. Reads(pattern, s, i, j)
  <2>1. Reads(pattern, s, a + d, b + d)
    <3> HIDE DEF d
    <3> QED  BY <1>1, <1>4, <1>7, ReadsElsewhere
  <2> QED  BY <1>7, <2>1
<1>11. /\ IF b = Len(t) THEN j = Len(s) ELSE f[b + 1] = j + 1
       /\ f[1] = 1
       /\ \A k \in DOMAIN t : t[k] = IF Opens(type, s, f[k]) THEN type ELSE s[f[k]]
       /\ \A n \in Found(type, s) : ~(n[1] < i /\ i <= n[2])
       /\ f \in [DOMAIN t -> DOMAIN s]
  <2>1. b \in DOMAIN t /\ a \in DOMAIN t /\ t # <<>>
      BY <1>4, <1>5
  <2> QED  BY <1>2, <1>7, <2>1 DEF Placed
<1>12. b # Len(t) => b + 1 \in DOMAIN t /\ b < Len(t)
  <2>1. b \in 1..Len(t) /\ Len(t) \in Nat /\ DOMAIN t = 1..Len(t)
      BY <1>4, <1>5
  <2>2. b \in Int /\ Len(t) \in Int /\ 1 <= b /\ b <= Len(t)
      BY <2>1
  <2>3. b # Len(t) => b + 1 \in 1..Len(t) /\ b < Len(t)
      BY <2>2
  <2> QED  BY <2>1, <2>3
<1> HIDE DEF d, i, j
<1>13. ASSUME Boundary(t, a - 1)
       PROVE  Boundary(s, i - 1)
  <2>1. CASE a = 1
    <3>1. i = 1
        BY <1>11, <2>1 DEF i
    <3>2. ~WordAt(t, a - 1) /\ ~WordAt(s, i - 1)
        BY <1>5, <2>1, <3>1 DEF WordAt
    <3> QED  BY <1>4, <1>5, <1>7, <1>13, <2>1, <3>1, <3>2 DEF Boundary, WordAt
  <2>2. CASE a # 1
    <3>1. a - 1 \in DOMAIN t /\ a - 1 # Len(t) /\ (a - 1) + 1 = a
        BY <1>4, <1>5, <2>2
    <3>2. CASE Opens(type, s, f[a - 1])
      <4>1. PICK n \in Found(type, s) : n[1] = f[a - 1]
          BY <3>2 DEF Opens
      <4>2. i = n[2] + 1 /\ t[a - 1] = type
          BY <1>2, <3>1, <3>2, <4>1 DEF Placed, i
      <4>3. Boundary(s, n[2]) /\ n[2] = i - 1
          BY <1>7, <1>8, <4>2
      <4> QED  BY <4>3
    <3>3. CASE ~Opens(type, s, f[a - 1])
      <4>1. i = f[a - 1] + 1 /\ t[a - 1] = s[f[a - 1]] /\ f[a - 1] \in DOMAIN s
          BY <1>2, <3>1, <3>3 DEF Placed, i
      <4>2. f[a - 1] = i - 1
          BY <1>5, <1>7, <4>1
      <4>3. WordAt(s, i - 1) <=> WordAt(t, a - 1)
          BY <3>1, <4>1, <4>2 DEF WordAt
      <4>4. WordAt(s, (i - 1) + 1) <=> WordAt(t, (a - 1) + 1)
          BY <1>4, <1>5, <1>7, <3>1 DEF WordAt
      <4> QED  BY <1>13, <4>3, <4>4, Zenon DEF Boundary
    <3> QED  BY <3>2, <3>3
  <2> QED  BY <2>1, <2>2
<1>14. ASSUME Boundary(t, b)
       PROVE  \/ Boundary(s, j)
              \/ /\ type = "PHONE" /\ b < Len(t) /\ t[b + 1] = "PHONE"
                 /\ \E n \in Found("PHONE", s) : WordAt(s, n[1] - 1)
  <2>1. WordAt(t, b) <=> WordAt(s, j)
      BY <1>4, <1>5, <1>7 DEF WordAt
  <2>2. CASE b = Len(t)
    <3>1. j = Len(s)
        BY <1>11, <2>2
    <3>2. ~WordAt(t, b + 1) /\ ~WordAt(s, j + 1)
        BY <1>5, <2>2, <3>1 DEF WordAt
    <3> QED  BY <1>14, <2>1, <3>2 DEF Boundary
  <2>3. CASE b # Len(t)
    <3>1. f[b + 1] = j + 1 /\ b + 1 \in DOMAIN t /\ b < Len(t)
        BY <1>11, <1>12, <2>3
    <3>4. j + 1 \in DOMAIN s
        BY <1>11, <3>1
    <3>2. CASE Opens(type, s, j + 1)
      <4>1. PICK n \in Found(type, s) : n[1] = j + 1
          BY <3>2 DEF Opens
      <4>2. t[b + 1] = type
          BY <1>11, <3>1, <3>2
      <4>3. n[1] - 1 = j
          BY <1>7, <4>1
      <4>4. WordAt(s, j)
        <5>1. ~WordAt(t, b + 1)
            BY <1>9, <4>2 DEF WordAt
        <5>2. WordAt(t, b)
            BY <1>14, <5>1, Zenon DEF Boundary
        <5> QED  BY <2>1, <5>2
      <4> QED  BY <1>8, <3>1, <4>1, <4>2, <4>3, <4>4
    <3>3. CASE ~Opens(type, s, j + 1)
      <4>1. t[b + 1] = s[j + 1]
          BY <1>11, <3>1, <3>3
      <4>2. WordAt(t, b + 1) <=> WordAt(s, j + 1)
          BY <3>1, <3>4, <4>1 DEF WordAt
      <4> QED  BY <1>14, <2>1, <4>2, Zenon DEF Boundary
    <3> QED  BY <3>2, <3>3
  <2> QED  BY <2>2, <2>3
<1>15. CASE <<i, j>> \in Matches(pattern, s)
  <2> DEFINE o == <<i, j>>
  <2>1. pattern # type
    <3> SUFFICES ASSUME pattern = type
                 PROVE  FALSE
        OBVIOUS
    <3>1. \E n \in Found(pattern, s) : n[1] <= o[1] /\ o[1] <= n[2]
        BY <1>15, FoundCovers
    <3>2. PICK n \in Found(type, s) : n[1] <= i /\ i <= n[2]
        BY <3>1
    <3>3. ~(n[1] < i /\ i <= n[2])
        BY <1>11
    <3>4. n[1] = i
        BY <1>7, <1>8, <3>2, <3>3
    <3> QED  BY <1>7, <3>4 DEF Opens
  <2>2. ASSUME j < Len(s), s[j + 1] = "PHONE"
        PROVE  b < Len(t) /\ t[b + 1] = "PHONE"
    <3>1. b # Len(t)
        BY <1>7, <1>11, <2>2
    <3>2. f[b + 1] = j + 1 /\ b + 1 \in DOMAIN t /\ b < Len(t)
        BY <1>11, <1>12, <3>1
    <3>3. ~Opens(type, s, j + 1)
        BY <1>8, <1>9, <2>2 DEF Opens
    <3> QED  BY <1>11, <2>2, <3>2, <3>3
  <2>3. o[2] < Len(s) /\ s[o[2] + 1] = "PHONE" => m[2] < Len(t) /\ t[m[2] + 1] = "PHONE"
      BY <2>2 DEF b
  <2> HIDE DEF o
  <2>4. o \in Matches(pattern, s)
      BY <1>15 DEF o
  <2> QED  BY <2>1, <2>3, <2>4 DEF t
<1>16. CASE <<i, j>> \notin Matches(pattern, s)
  <2>1. ~((pattern \in BoundedRight => Boundary(s, j))
          /\ (pattern \in BoundedLeft => Boundary(s, i - 1)))
      BY <1>5, <1>7, <1>10, <1>16 DEF Matches
  <2> QED  BY <1>4, <1>13, <1>14, <2>1 DEF t, b
<1> QED  BY <1>15, <1>16

\* sanitize would change nothing after a substitution either.
LEMMA SubKeepsTidy ==
    ASSUME NEW s \in Seq(Pieces), NEW type \in PiiTypes, Tidy(s)
    PROVE  Tidy(Sub(type, s))
<1> DEFINE t == Sub(type, s)
<1>1. t \in Seq(Pieces) /\ \E f : Placed(type, s, t, f)
    BY SubPlaces
<1>2. PICK f : Placed(type, s, t, f)
    BY <1>1
<1> HIDE DEF t
<1>3. /\ DOMAIN t = 1..Len(t) /\ Len(t) \in Nat /\ DOMAIN s = 1..Len(s) /\ Len(s) \in Nat
      /\ type \notin {"tag", "sp"}
    BY <1>1 DEF PiiTypes
<1>4. \A k \in DOMAIN t : f[k] \in DOMAIN s
    BY <1>2 DEF Placed
<1>5. ASSUME NEW k \in DOMAIN t, t[k] \in {"tag", "sp"}
      PROVE  ~Opens(type, s, f[k]) /\ t[k] = s[f[k]]
    BY <1>2, <1>3, <1>5 DEF Placed
<1>6. \A k \in DOMAIN t : t[k] # "tag"
    BY <1>4, <1>5 DEF Tidy
<1>7. ASSUME NEW k \in DOMAIN t, t[k] = "sp"
      PROVE  k # 1 /\ k # Len(t) /\ t[k - 1] # "sp"
  <2>1. ~Opens(type, s, f[k]) /\ s[f[k]] = "sp"
      BY <1>5, <1>7
  <2>2. f[k] # 1 /\ f[k] # Len(s) /\ s[f[k] - 1] # "sp"
      BY <1>4, <2>1 DEF Tidy
  <2>3. k # 1
    <3>1. t # <<>>
        BY <1>3
    <3> QED  BY <1>2, <2>2, <3>1 DEF Placed
  <2>4. k # Len(t)
      BY <1>2, <2>1, <2>2 DEF Placed
  <2>5. ASSUME t[k - 1] = "sp"
        PROVE  FALSE
    <3>1. k - 1 \in DOMAIN t /\ k - 1 # Len(t) /\ (k - 1) + 1 = k
        BY <1>3, <2>3
    <3>2. ~Opens(type, s, f[k - 1]) /\ t[k - 1] = s[f[k - 1]]
        BY <1>5, <2>5, <3>1
    <3>3. f[k] = f[k - 1] + 1
        BY <1>2, <3>1, <3>2 DEF Placed
    <3>4. f[k] - 1 = f[k - 1]
        BY <1>3, <1>4, <3>1, <3>3
    <3> QED  BY <2>2, <2>5, <3>2, <3>4
  <2> QED  BY <2>3, <2>4, <2>5
<1> QED  BY <1>6, <1>7 DEF Tidy, t

\* What stood only before telephone numbers taken out still does, and what is taken
\* out is no longer there, or stands before one.
LEMMA SubKeepsBeforePhones ==
    ASSUME NEW s \in Seq(Pieces), NEW type \in PiiTypes, NEW pattern \in Patterns,
           pattern = type \/ OnlyBeforePhones(pattern, s)
    PROVE  OnlyBeforePhones(pattern, Sub(type, s))
<1> SUFFICES ASSUME NEW m \in Matches(pattern, Sub(type, s))
             PROVE  m[2] < Len(Sub(type, s)) /\ Sub(type, s)[m[2] + 1] = "PHONE"
    BY DEF OnlyBeforePhones
<1> QED  BY SubUncovers DEF OnlyBeforePhones

\* Does no word run into a telephone number that this pass takes out?
Quiet(type, s) == type = "PHONE" => ~ \E n \in Found("PHONE", s) : WordAt(s, n[1] - 1)

LEMMA QuietUncoversNothing ==
    ASSUME NEW s \in Seq(Pieces), NEW type \in PiiTypes, NEW pattern \in Patterns,
           Quiet(type, s), pattern = type \/ Matches(pattern, s) = {}
    PROVE  Matches(pattern, Sub(type, s)) = {}
<1> SUFFICES ASSUME NEW m \in Matches(pattern, Sub(type, s))
             PROVE  FALSE
    OBVIOUS
<1> QED  BY SubUncovers DEF Quiet

-----------------------------------------------------------------------------
(* redact, and the output filter.                                          *)

\* A second pass over a text without anything to find changes nothing.
LEMMA NothingToReplace ==
    ASSUME NEW s \in Seq(Pieces), NEW type \in PiiTypes, Matches(type, s) = {}
    PROVE  Sub(type, s) = s
<1>1. Found(type, s) = {}
    BY FoundCovers DEF Patterns
<1> DEFINE u == [i \in DOMAIN s |-> s[i]]
<1>2. u = s
    OBVIOUS
<1>3. Sub(type, s) = Without(u, {})
  <2>1. UNION {(m[1] + 1)..m[2] : m \in {}} = {}
      OBVIOUS
  <2> QED  BY <1>1, <2>1 DEF Sub, Replace
<1> QED  BY <1>2, <1>3, WithoutNothing

LEMMA NothingToRedact ==
    ASSUME NEW s \in Seq(Pieces), \A type \in PiiTypes : Matches(type, s) = {}
    PROVE  Redact(s) = s
<1>1. \A type \in PiiTypes : Sub(type, s) = s
    BY NothingToReplace
<1> QED  BY <1>1 DEF Redact, PiiTypes

\* Nothing is left after redact that any of its patterns would find, and nothing
\* new appears for another pattern, but for what stands right before the placeholder
\* of a telephone number into which it ran.
THEOREM RedactUncovers ==
    ASSUME NEW s \in Seq(Pieces)
    PROVE  /\ Redact(s) \in Seq(Pieces)
           /\ s # <<>> => Redact(s) # <<>>
           /\ Tidy(s) => Tidy(Redact(s))
           /\ \A pattern \in Patterns :
                 pattern \in PiiTypes \/ OnlyBeforePhones(pattern, s)
                     => OnlyBeforePhones(pattern, Redact(s))
           /\ ~RunsIntoPhone(s) =>
                 \A pattern \in Patterns :
                     pattern \in PiiTypes \/ Matches(pattern, s) = {}
                         => Matches(pattern, Redact(s)) = {}
<1> DEFINE t1 == Sub("EMAIL", s)
           t2 == Sub("PHONE", t1)
           t3 == Sub("SSN", t2)
           t4 == Sub("CREDIT_CARD", t3)
           t5 == Sub("IP_ADDRESS", t4)
           t6 == Sub("DATE_OF_BIRTH", t5)
           Follows(type, x, y) ==
               /\ y \in Seq(Pieces)
               /\ x # <<>> => y # <<>>
               /\ Tidy(x) => Tidy(y)
               /\ \A pattern \in Patterns :
                     pattern = type \/ OnlyBeforePhones(pattern, x)
                         => OnlyBeforePhones(pattern, y)
               /\ Quiet(type, x) =>
                     \A pattern \in Patterns :
                         pattern = type \/ Matches(pattern, x) = {} => Matches(pattern, y) = {}
<1>1. ASSUME NEW x \in Seq(Pieces), NEW type \in PiiTypes
      PROVE  Follows(type, x, Sub(type, x))
    BY SubPlaces, SubKeepsTidy, SubKeepsBeforePhones, QuietUncoversNothing
<1>2. {"EMAIL", "PHONE", "SSN", "CREDIT_CARD", "IP_ADDRESS", "DATE_OF_BIRTH"} = PiiTypes
    BY DEF PiiTypes
<1>3. Follows("EMAIL", s, t1)
    BY <1>1, <1>2
<1> HIDE DEF t1
<1>4. Follows("PHONE", t1, t2)
    BY <1>1, <1>2, <1>3
<1> HIDE DEF t2
<1>5. Follows("SSN", t2, t3)
    BY <1>1, <1>2, <1>4
<1> HIDE DEF t3
<1>6. Follows("CREDIT_CARD", t3, t4)
    BY <1>1, <1>2, <1>5
<1> HIDE DEF t4
<1>7. Follows("IP_ADDRESS", t4, t5)
    BY <1>1, <1>2, <1>6
<1> HIDE DEF t5
<1>8. Follows("DATE_OF_BIRTH", t5, t6)
    BY <1>1, <1>2, <1>7
<1> HIDE DEF t6
<1>9. Redact(s) = t6
    BY DEF Redact, t1, t2, t3, t4, t5, t6
<1>10. t6 \in Seq(Pieces) /\ (s # <<>> => t6 # <<>>) /\ (Tidy(s) => Tidy(t6))
    BY <1>3, <1>4, <1>5, <1>6, <1>7, <1>8
<1>11. ASSUME NEW pattern \in Patterns,
              pattern \in PiiTypes \/ OnlyBeforePhones(pattern, s)
       PROVE  OnlyBeforePhones(pattern, t6)
    BY <1>2, <1>3, <1>4, <1>5, <1>6, <1>7, <1>8, <1>11
<1>12. ASSUME ~RunsIntoPhone(s), NEW pattern \in Patterns,
              pattern \in PiiTypes \/ Matches(pattern, s) = {}
       PROVE  Matches(pattern, t6) = {}
  <2>1. /\ Quiet("EMAIL", s) /\ Quiet("SSN", t2) /\ Quiet("CREDIT_CARD", t3)
        /\ Quiet("IP_ADDRESS", t4) /\ Quiet("DATE_OF_BIRTH", t5)
      BY DEF Quiet
  <2>2. Quiet("PHONE", t1)
      BY <1>12 DEF Quiet, RunsIntoPhone, t1
  <2> QED  BY <1>2, <1>3, <1>4, <1>5, <1>6, <1>7, <1>8, <1>12, <2>1, <2>2
<1> QED  BY <1>9, <1>10, <1>11, <1>12

\* A notice is nothing to redact.
LEMMA NoticeStays ==
    ASSUME NEW s
    PROVE  Notice(s) \in Seq(Pieces) /\ Redact(Notice(s)) = Notice(s)
<1> DEFINE n == Notice(s)
<1>1. \/ n = <<"notice", "self", "-", "harm", "end">>
      \/ n = <<"notice", "end">>
    BY DEF Notice
<1> HIDE DEF n
<1>2. {"notice", "self", "-", "harm", "end"} \subseteq Pieces
    BY DEF Pieces, Words, Letters, Punctuation
<1>3. n \in Seq(Pieces)
    BY <1>1, <1>2
<1>4. \A i \in DOMAIN n : n[i] \in {"notice", "self", "-", "harm", "end"}
    BY <1>1
<1>5. ASSUME NEW type \in PiiTypes, NEW m \in Matches(type, n)
      PROVE  FALSE
  <2>1. /\ m[1] \in DOMAIN n /\ m[2] \in DOMAIN n /\ m[1] <= m[2]
        /\ Reads(type, n, m[1], m[2]) /\ type \in Patterns
      BY <1>3, MatchesAreIntervals DEF Patterns
  <2>2. /\ type # "EMAIL" => n[m[2]] \in Digits
        /\ type = "EMAIL" => \E k \in m[1]..m[2] : n[k] = "@"
      BY <1>3, <2>1, CharactersAreRead
  <2>3. \A k \in m[1]..m[2] : k \in DOMAIN n
      BY <1>3, <2>1
  <2> QED  BY <1>4, <2>1, <2>2, <2>3 DEF Digits
<1>6. \A type \in PiiTypes : Matches(type, n) = {}
    BY <1>5
<1> QED  BY <1>3, <1>6, NothingToRedact DEF n

\* The answer to a harmful text is the bare notice; any other text is left without
\* anything to find, but for what stands right before the placeholder of a telephone
\* number into which it ran. The second pass of redact changes nothing of this.
THEOREM OutputUncovers ==
    ASSUME NEW raw \in Seq(Pieces)
    PROVE  LET response == Redact(FilterOutput(raw)) IN
           IF Harmful(raw) THEN response = Notice(raw)
           ELSE /\ \A pattern \in PiiTypes \cup Harms : OnlyBeforePhones(pattern, response)
                /\ ~RunsIntoPhone(raw) =>
                      \A pattern \in PiiTypes \cup Harms : Matches(pattern, response) = {}
<1>1. ASSUME Harmful(raw)
      PROVE  Redact(FilterOutput(raw)) = Notice(raw)
    BY <1>1, NoticeStays DEF FilterOutput
<1>2. ASSUME ~Harmful(raw)
      PROVE  /\ \A pattern \in PiiTypes \cup Harms :
                   OnlyBeforePhones(pattern, Redact(FilterOutput(raw)))
             /\ ~RunsIntoPhone(raw) =>
                   \A pattern \in PiiTypes \cup Harms :
                       Matches(pattern, Redact(FilterOutput(raw))) = {}
  <2> DEFINE once == Redact(raw)
  <2>1. FilterOutput(raw) = once
      BY <1>2 DEF FilterOutput
  <2>2. \A pattern \in PiiTypes \cup Harms :
            pattern \in Patterns
            /\ (pattern \in PiiTypes \/ (Matches(pattern, raw) = {}
                                        /\ OnlyBeforePhones(pattern, raw)))
      BY <1>2 DEF Harmful, Patterns, OnlyBeforePhones
  <2>3. /\ once \in Seq(Pieces)
        /\ \A pattern \in PiiTypes \cup Harms : OnlyBeforePhones(pattern, once)
        /\ ~RunsIntoPhone(raw) =>
              \A pattern \in PiiTypes \cup Harms : Matches(pattern, once) = {}
      BY <2>2, RedactUncovers
  <2> HIDE DEF once
  <2>4. \A pattern \in PiiTypes \cup Harms : OnlyBeforePhones(pattern, Redact(once))
      BY <2>2, <2>3, RedactUncovers
  <2>5. ~RunsIntoPhone(raw) => Redact(once) = once
      BY <2>3, NothingToRedact
  <2> QED  BY <2>1, <2>3, <2>4, <2>5
<1> QED  BY <1>1, <1>2
=============================================================================
