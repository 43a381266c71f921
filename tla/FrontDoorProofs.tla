--------------------------- MODULE FrontDoorProofs ---------------------------
(* One request, whatever its text: who is let in, what of the text reaches the *)
(* model and the client, and which model it is sent to.                       *)
EXTENDS FrontDoor, AuthenticationProofs, TextFiltersProofs

vars == <<now, logins, tokens, visit>>

-----------------------------------------------------------------------------
(* The router.                                                             *)

\* complexity_score is a number of tenths between 0 and 1.
THEOREM ScoreInRange == \A p \in Signals : ComplexityScore(p) \in 0..10
BY DEF Signals, ComplexityScore, LengthSignal, KeywordSignal, SentenceSignal,
       ShortQueryThreshold, LongQueryThreshold

\* The threshold of route separates the combinations of signals that
\* DeservesLarge lists from all others: no sum of the three signals falls on the
\* wrong side.
THEOREM RouteIsDeserved ==
    \A p \in Signals : Route(p) = LargeModel <=> DeservesLarge(p)
<1> SUFFICES ASSUME NEW p \in Signals
             PROVE  Route(p) = LargeModel <=> DeservesLarge(p)
    OBVIOUS
<1>1. Route(p) = LargeModel <=> ComplexityScore(p) >= 5
    BY DEF Route, LargeModel, SmallModel
<1>2. ComplexityScore(p) >= 5 <=> DeservesLarge(p)
    BY DEF Signals, DeservesLarge, ComplexityScore, LengthSignal, KeywordSignal,
           SentenceSignal, ShortQueryThreshold, LongQueryThreshold
<1> QED  BY <1>1, <1>2

\* A prompt that grows, gains keywords or gains sentences never falls back to the
\* small model.
THEOREM RoutingIsMonotone ==
    \A p, q \in Signals :
        AtLeast(p, q) /\ Route(q) = LargeModel => Route(p) = LargeModel
<1> SUFFICES ASSUME NEW p \in Signals, NEW q \in Signals,
                    AtLeast(p, q), Route(q) = LargeModel
             PROVE  Route(p) = LargeModel
    OBVIOUS
<1>1. DeservesLarge(q)  BY RouteIsDeserved
<1>2. DeservesLarge(p)
    BY <1>1 DEF DeservesLarge, AtLeast, Signals, ShortQueryThreshold,
                LongQueryThreshold
<1> QED  BY <1>2, RouteIsDeserved

\* How many places of a text are of some kind is a number.
LEMMA PlacesAreCounted ==
    ASSUME NEW s \in Seq(Pieces), NEW those \in SUBSET DOMAIN s
    PROVE  Cardinality(those) \in Nat
<1>1. DOMAIN s = 1..Len(s) /\ Len(s) \in Nat
    OBVIOUS
<1>2. IsFiniteSet(DOMAIN s)
    BY <1>1, FS_Interval
<1>3. IsFiniteSet(those)
    BY <1>2, FS_Subset
<1> QED  BY <1>3, FS_CardinalityType

\* What the prompt shows is counted for the router.
LEMMA CountedIsSignals ==
    ASSUME NEW s \in Seq(Pieces), NEW rest \in Signals
    PROVE  Counted(s, rest) \in Signals
<1>1. ASSUME NEW w \in Nat
      PROVE  OfWidth(s, w) \in Nat
    BY PlacesAreCounted DEF OfWidth
<1>2. Chars(s) \in Nat
  <2> DEFINE W(w)   == OfWidth(s, w)
             narrow == W(1) + 3 * W(3) + 4 * W(4) + 5 * W(5)
             wide   == narrow + 6 * W(6) + 7 * W(7) + 12 * W(12)
  <2>1. \A w \in Nat : W(w) \in Nat
      BY <1>1
  <2>2. Chars(s) = wide + 13 * W(13) + 15 * W(15)
      BY DEF Chars
  <2> HIDE DEF W
  <2>3. narrow \in Nat
    <3>1. W(1) \in Nat /\ W(3) \in Nat /\ W(4) \in Nat /\ W(5) \in Nat
        BY <2>1
    <3> QED  BY <3>1
  <2> HIDE DEF narrow
  <2>4. wide \in Nat
    <3>1. W(6) \in Nat /\ W(7) \in Nat /\ W(12) \in Nat
        BY <2>1
    <3> QED  BY <2>3, <3>1
  <2> HIDE DEF wide
  <2>5. W(13) \in Nat /\ W(15) \in Nat
      BY <2>1
  <2> QED  BY <2>2, <2>4, <2>5
<1>3. Cardinality({i \in DOMAIN s : s[i] = "."}) \in Nat
    BY PlacesAreCounted
<1>4. Cardinality(Matches("keyword", s)) \in Nat
  <2>1. DOMAIN s = 1..Len(s) /\ Len(s) \in Nat
      OBVIOUS
  <2>2. IsFiniteSet(DOMAIN s)
      BY <2>1, FS_Interval
  <2>3. IsFiniteSet((DOMAIN s) \X (DOMAIN s))
      BY <2>2, FS_Product
  <2>4. Matches("keyword", s) \subseteq (DOMAIN s) \X (DOMAIN s)
      BY DEF Matches
  <2>5. IsFiniteSet(Matches("keyword", s))
      BY <2>3, <2>4, FS_Subset
  <2> QED  BY <2>5, FS_CardinalityType
<1> HIDE DEF Chars
<1> QED  BY <1>2, <1>3, <1>4 DEF Counted, Signals

-----------------------------------------------------------------------------
(* The visit.                                                              *)

\* How many visits there were does not matter: what is known of the one that is
\* there follows from its input, or from what the engine said.
VisitOK ==
    \/ visit = Nobody
    \/ visit = [at |-> "unauthorized"]
    \/ \E input \in Inputs : visit = Handled(input)
    \/ \E input \in Inputs : \E raw \in Raws[input] : visit = Answered(raw)

\* What an admitted request has gone through.
LEMMA AdmittedIsHandled ==
    ASSUME VisitOK, visit.at = "admitted"
    PROVE  LET clean == Sanitize(visit.input.pieces, MaxLength) IN
           /\ visit.input \in Inputs
           /\ clean \in Seq(Pieces) /\ Tidy(clean) /\ clean # <<>> /\ GuardSafe(clean)
           /\ visit.prompt = Redact(clean)
           /\ visit.model = Route(Counted(visit.prompt, visit.input.rest))
<1>1. PICK input \in Inputs : visit = Handled(input)
    BY DEF VisitOK, Nobody, Answered
<1> DEFINE clean == Sanitize(input.pieces, MaxLength)
<1>2. clean \in Seq(Pieces) /\ Tidy(clean)
    BY TextsAssumption, SanitizeTidies
<1> HIDE DEF clean
<1>3. clean # <<>> /\ GuardSafe(clean)
    BY <1>1 DEF Handled, clean
<1>4. visit = [at |-> "admitted", input |-> input, prompt |-> Redact(clean),
              model |-> Route(Counted(Redact(clean), input.rest))]
    BY <1>1, <1>3 DEF Handled, clean
<1> QED  BY <1>2, <1>3, <1>4 DEF clean

LEMMA VisitInvariance == Spec => []VisitOK
<1>1. Init => VisitOK
    BY DEF Init, VisitOK
<1>2. VisitOK /\ [Next]_vars => VisitOK'
  <2> SUFFICES ASSUME VisitOK, [Next]_vars
               PROVE  VisitOK'
      OBVIOUS
  <2>1. CASE Between
      BY <2>1 DEF Between, VisitOK
  <2>2. ASSUME NEW token, NEW input \in Inputs, Visit(token, input)
        PROVE  VisitOK'
      BY <2>2 DEF Visit, VisitOK
  <2>3. CASE Answer
    <3>1. PICK raw \in Raws[visit.input] : visit' = Answered(raw)
        BY <2>3 DEF Answer
    <3>2. visit.input \in Inputs
        BY <2>3, AdmittedIsHandled DEF Answer
    <3> QED  BY <3>1, <3>2 DEF VisitOK, Answered
  <2>4. CASE Leave
      BY <2>4 DEF Leave, VisitOK
  <2>5. CASE UNCHANGED vars
      BY <2>5 DEF vars, VisitOK
  <2> QED  BY <2>1, <2>2, <2>3, <2>4, <2>5 DEF Next
<1> QED  BY <1>1, <1>2, PTL DEF Spec, vars

\* No pattern of the guard or of redact matches the prompt, but for what ran into a
\* telephone number and now stands before its placeholder; and sanitize would leave
\* the prompt as it is.
THEOREM PromptsUncovered == Spec => []OnlyPhonesUncoverPrompts
<1>1. VisitOK => OnlyPhonesUncoverPrompts
  <2> SUFFICES ASSUME VisitOK, visit.at = "admitted"
               PROVE  LET found == Findings(PiiTypes \cup Injections, visit.prompt) IN
                      /\ \A pattern \in found : OnlyBeforePhones(pattern, visit.prompt)
                      /\ found # {} => RunsIntoPhone(Sanitize(visit.input.pieces, MaxLength))
                      /\ Sanitize(visit.prompt, Len(visit.prompt)) = visit.prompt
                      /\ visit.prompt # <<>>
      BY DEF OnlyPhonesUncoverPrompts
  <2> DEFINE clean  == Sanitize(visit.input.pieces, MaxLength)
             prompt == visit.prompt
  <2>1. /\ clean \in Seq(Pieces) /\ Tidy(clean) /\ clean # <<>> /\ GuardSafe(clean)
        /\ prompt = Redact(clean)
      BY AdmittedIsHandled
  <2> HIDE DEF clean, prompt
  <2>2. \A pattern \in PiiTypes \cup Injections :
            /\ pattern \in Patterns
            /\ \/ pattern \in PiiTypes
               \/ Matches(pattern, clean) = {} /\ OnlyBeforePhones(pattern, clean)
      BY <2>1 DEF GuardSafe, Patterns, OnlyBeforePhones
  <2>3. /\ prompt \in Seq(Pieces) /\ prompt # <<>> /\ Tidy(prompt)
        /\ \A pattern \in PiiTypes \cup Injections : OnlyBeforePhones(pattern, prompt)
        /\ ~RunsIntoPhone(clean) =>
              \A pattern \in PiiTypes \cup Injections : Matches(pattern, prompt) = {}
      BY <2>1, <2>2, RedactUncovers
  <2>4. Sanitize(prompt, Len(prompt)) = prompt
      BY <2>3, TidyIsSanitized
  <2> QED  BY <2>3, <2>4 DEF Findings, clean, prompt
<1> QED  BY <1>1, VisitInvariance, PTL

\* What is stored and sent is a bare notice, or nothing that a pattern of harm or of
\* redact matches, with the same exception.
THEOREM AnswersUncovered == Spec => []OnlyPhonesUncoverAnswers
<1>1. VisitOK => OnlyPhonesUncoverAnswers
  <2> SUFFICES ASSUME VisitOK, visit.at = "answered"
               PROVE  OnlyPhonesUncoverAnswers
      BY DEF OnlyPhonesUncoverAnswers
  <2>1. \A input : Handled(input).at # "answered"
      BY DEF Handled
  <2>2. PICK input \in Inputs : \E raw \in Raws[input] : visit = Answered(raw)
      BY <2>1 DEF VisitOK, Nobody
  <2>3. PICK raw \in Raws[input] : visit = Answered(raw)
      BY <2>2
  <2>4. raw \in Seq(Pieces)
      BY TextsAssumption
  <2>5. visit.raw = raw /\ visit.response = Redact(FilterOutput(raw))
      BY <2>3 DEF Answered
  <2> QED  BY <2>4, <2>5, OutputUncovers DEF OnlyPhonesUncoverAnswers, Findings
<1> QED  BY <1>1, VisitInvariance, PTL

\* The model of an admitted request is the one its prompt deserves.
THEOREM RoutingIsDeserved == Spec => []RoutedAsDeserved
<1>1. VisitOK => RoutedAsDeserved
  <2> SUFFICES ASSUME VisitOK, visit.at = "admitted"
               PROVE  visit.model = LargeModel
                         <=> DeservesLarge(Counted(visit.prompt, visit.input.rest))
      BY DEF RoutedAsDeserved
  <2> DEFINE clean == Sanitize(visit.input.pieces, MaxLength)
  <2>1. /\ visit.input \in Inputs /\ clean \in Seq(Pieces)
        /\ visit.prompt = Redact(clean)
        /\ visit.model = Route(Counted(visit.prompt, visit.input.rest))
      BY AdmittedIsHandled
  <2> HIDE DEF clean
  <2>2. visit.prompt \in Seq(Pieces) /\ visit.input.rest \in Signals
      BY <2>1, RedactUncovers, TextsAssumption
  <2> QED  BY <2>1, <2>2, CountedIsSignals, RouteIsDeserved
<1> QED  BY <1>1, VisitInvariance, PTL

-----------------------------------------------------------------------------
(* Tokens at the door.                                                     *)

\* Requests do nothing to tokens: what the door does is what Authentication
\* allows.
THEOREM DoorImplementsAuth == Spec => AuthSpec
<1>1. Init => AuthInit
    BY DEF Init
<1>2. [Next]_vars => [AuthNext]_<<now, logins, tokens>>
    BY DEF Next, vars, Between, Visit, Answer, Leave
<1> QED  BY <1>1, <1>2, PTL DEF Spec, AuthSpec, vars

\* So whoever is let in at the door has logged in lately, and whoever has logged
\* in lately is let in.
THEOREM DoorTokens == Spec => [](AcceptedTokensAreEarned /\ LoginsLast)
BY DoorImplementsAuth, TokensAreEarned, LoginsDoLast, PTL
=============================================================================
