------------------------------ MODULE FrontDoor ------------------------------
(***************************************************************************)
(* What query_llm does to one request, text and all: get_current_user,     *)
(* sanitize, check, redact, route and, once the engine has answered, the   *)
(* output filter.  QueryPipeline says the same of texts reduced to marks,  *)
(* with all that happens in between.                                       *)
(***************************************************************************)
EXTENDS Authentication, QueryRouter, TextFilters

CONSTANTS
    Inputs,     \* bound: texts, in pieces, each with the signals that the rest
                \* of it shows to the router
    Raws,       \* bound: Raws[input]: what the engine may say to it, in pieces
    MaxLength,  \* max_length of the sanitizer, in pieces
    MaxLogins   \* bound: how many logins succeed

ASSUME TextsAssumption ==
    /\ MaxLength \in Nat
    /\ \A input \in Inputs : /\ input.pieces \in Seq(Pieces)
                             /\ input.rest \in Signals
                             /\ \A raw \in Raws[input] : raw \in Seq(Pieces)

VARIABLE visit    \* the request at the endpoint, and what has become of it

-----------------------------------------------------------------------------
\* The characters of a piece, placeholders with their brackets.
Width(x) == CASE x \in {"abc", "DAN"}                    -> 3
              [] x \in {"jail", "self", "harm"}           -> 4
              [] x \in {"break", "debug", "SSN"}          -> 5
              [] x = "method"                             -> 6
              [] x \in {"suicide", "EMAIL", "PHONE"}      -> 7
              [] x = "IP_ADDRESS"                         -> 12
              [] x = "CREDIT_CARD"                        -> 13
              [] x = "DATE_OF_BIRTH"                      -> 15
              [] OTHER                                    -> 1

\* How many pieces of s have this width?
OfWidth(s, w) == Cardinality({i \in DOMAIN s : Width(s[i]) = w})

Chars(s) == OfWidth(s, 1) + 3 * OfWidth(s, 3) + 4 * OfWidth(s, 4)
            + 5 * OfWidth(s, 5) + 6 * OfWidth(s, 6) + 7 * OfWidth(s, 7)
            + 12 * OfWidth(s, 12) + 13 * OfWidth(s, 13) + 15 * OfWidth(s, 15)

\* What the router sees of a prompt, the rest of the text included.
Counted(prompt, rest) ==
    [chars    |-> rest.chars + Chars(prompt),
     keywords |-> rest.keywords + Cardinality(Matches("keyword", prompt)),
     stops    |-> rest.stops + Cardinality({i \in DOMAIN prompt : prompt[i] = "."})]

Handled_GuardFirst(input) ==
    LET clean  == Sanitize(input.pieces, MaxLength)
        prompt == Redact(clean)
    IN  IF clean = <<>> THEN [at |-> "invalid"]
        ELSE IF ~GuardSafe(input.pieces) THEN [at |-> "blocked"]
        ELSE [at |-> "admitted", input |-> input, prompt |-> prompt,
              model |-> Route(Counted(prompt, input.rest))]

\* query_llm up to its first await: the request is turned away, or there are a
\* prompt and a model for it.
Handled(input) ==
    LET clean  == Sanitize(input.pieces, MaxLength)
        prompt == Redact(clean)
    IN  IF clean = <<>> THEN [at |-> "invalid"]
        ELSE IF ~GuardSafe(clean) THEN [at |-> "blocked"]
        ELSE [at |-> "admitted", input |-> input, prompt |-> prompt,
              model |-> Route(Counted(prompt, input.rest))]

Nobody == [at |-> "nowhere"]

Init == AuthInit /\ visit = Nobody

\* Logins and the passing of time, while no request is there.
Between ==
    /\ visit = Nobody
    /\ Cardinality(logins) < MaxLogins \/ UNCHANGED logins
    /\ AuthNext
    /\ UNCHANGED visit

\* get_current_user, and then the handler.
Visit(token, input) ==
    /\ visit = Nobody
    /\ visit' = IF Decodes(token) THEN Handled(input) ELSE [at |-> "unauthorized"]
    /\ UNCHANGED <<now, logins, tokens>>

Answered(raw) == [at |-> "answered", raw |-> raw,
                  response |-> Redact(FilterOutput(raw))]

\* The engine says something; this is what is stored and sent.
Answer ==
    /\ visit.at = "admitted"
    /\ \E raw \in Raws[visit.input] : visit' = Answered(raw)
    /\ UNCHANGED <<now, logins, tokens>>

Leave ==
    /\ visit # Nobody
    /\ visit' = Nobody
    /\ UNCHANGED <<now, logins, tokens>>

Next ==
    \/ Between
    \/ \E token \in tokens \cup {None}, input \in Inputs : Visit(token, input)
    \/ Answer
    \/ Leave

Spec == Init /\ [][Next]_<<now, logins, tokens, visit>>

-----------------------------------------------------------------------------
(* Properties.                                                             *)

\* The filters in their order leave nothing in the prompt that the guard or detect
\* would still find, although stripping markup joins what it kept apart and every
\* placeholder changes what stands next to it, with one exception: where a word of
\* the sanitized text runs into a telephone number, the bracket of PHONE gives it
\* the boundary it lacked ("DAN5551234567", "bob@example.com5551234567", the ten
\* digits before the last ten of a long number). Whatever is found ends there.
OnlyPhonesUncoverPrompts ==
    visit.at = "admitted" =>
        LET found == Findings(PiiTypes \cup Injections, visit.prompt)
        IN  /\ \A pattern \in found : OnlyBeforePhones(pattern, visit.prompt)
            /\ found # {} => RunsIntoPhone(Sanitize(visit.input.pieces, MaxLength))
            /\ Sanitize(visit.prompt, Len(visit.prompt)) = visit.prompt
            /\ visit.prompt # <<>>

\* What is stored and sent is the bare notice where the engine said something
\* harmful (the one for self-harm matches the pattern it names); else no filter would
\* find anything more in it, with the same exception, although redact has gone over
\* it twice.
OnlyPhonesUncoverAnswers ==
    visit.at = "answered" =>
        IF Harmful(visit.raw) THEN visit.response = Notice(visit.raw)
        ELSE LET found == Findings(PiiTypes \cup Harms, visit.response)
             IN  /\ \A pattern \in found : OnlyBeforePhones(pattern, visit.response)
                 /\ found # {} => RunsIntoPhone(visit.raw)

\* The large model is paid for exactly when what is sent to it, after the filters
\* have changed its length, shows one of the combinations that deserve it.
RoutedAsDeserved ==
    visit.at = "admitted" =>
        (visit.model = LargeModel
            <=> DeservesLarge(Counted(visit.prompt, visit.input.rest)))

\* "Replace with a labelled placeholder" (RedactionMode.REPLACE): of the digits
\* that detect finds in the sanitized text none are left in the prompt, and no
\* others are replaced.
DetectedIsReplaced ==
    visit.at = "admitted" =>
        LET clean == Sanitize(visit.input.pieces, MaxLength)
        IN  Cardinality(DigitsIn(visit.prompt))
                = Cardinality(DigitsIn(clean) \ Detected(clean))
=============================================================================
