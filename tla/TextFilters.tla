----------------------------- MODULE TextFilters -----------------------------
(***************************************************************************)
(* What the patterns of the security filters do to a text, each of them    *)
(* applied to what the ones before it have left.                           *)
(*                                                                         *)
(* A text is a sequence of pieces: single characters, and the runs of      *)
(* letters that some pattern tells from others ("abc" is any other run).   *)
(* Of the digits there are three: 1 (prefix of a telephone number, first   *)
(* digit of a long octet or month), 9 (first of no SSN, second of a year)  *)
(* and 5.  Of the injection patterns there are one without boundaries and  *)
(* \bDAN\b, of the harmful ones two, the notice of one of which matches    *)
(* the pattern itself, and of the router's keywords one.                   *)
(***************************************************************************)
EXTENDS Integers, Sequences, FiniteSets

Digits      == {"1", "5", "9"}
Letters     == {"abc", "DAN", "jail", "break", "self", "harm", "suicide", "method",
                "debug"}
Words       == Digits \cup Letters
Punctuation == {"-", ".", "@", "+", "(", ")", "/"}

\* _PATTERNS, whose names are also the placeholders.
PiiTypes   == {"EMAIL", "PHONE", "SSN", "CREDIT_CARD", "IP_ADDRESS", "DATE_OF_BIRTH"}
Injections == {"jailbreak", "dan"}
Harms      == {"self-harm", "suicide-method"}
Keywords   == {"keyword"}
Patterns   == PiiTypes \cup Injections \cup Harms \cup Keywords

\* "sp" is a blank, "tag" markup or a control character; "notice" opens the notice of
\* the output filter and "end" closes it.
Pieces == Words \cup Punctuation \cup PiiTypes \cup {"sp", "tag", "notice", "end"}

-----------------------------------------------------------------------------
(* Patterns.  A shape is a sequence of sets of pieces; a pattern without   *)
(* repetitions of any length is a set of shapes, one for each choice of    *)
(* its optional parts.                                                     *)

A ** B       == {a \o b : a \in A, b \in B}
One(c)       == {<<c>>}
Maybe(c)     == {<<>>, <<c>>}
Times(c, n)  == {[i \in 1..n |-> c]}

Separator == {"sp", "-", "."}

\* (\+?1[\s\-.]?)?\(?\d{3}\)?[\s\-.]?\d{3}[\s\-.]?\d{4}
Phone ==
    ({<<>>} \cup (Maybe({"+"}) ** One({"1"}) ** Maybe(Separator)))
    ** Maybe({"("}) ** Times(Digits, 3) ** Maybe({")"}) ** Maybe(Separator)
    ** Times(Digits, 3) ** Maybe(Separator) ** Times(Digits, 4)

Ssn ==
    One(Digits \ {"9"}) ** Times(Digits, 2) ** One({"-", "sp"})
    ** Times(Digits, 2) ** One({"-", "sp"}) ** Times(Digits, 4)

\* With these digits only 5[1-5]\d{14} is possible.
CreditCard == One({"5"}) ** One({"1", "5"}) ** Times(Digits, 14)

Octet == Times(Digits, 1) \cup Times(Digits, 2) \cup (One({"1"}) ** Times(Digits, 2))

IpAddress ==
    Octet ** One({"."}) ** Octet ** One({"."}) ** Octet ** One({"."}) ** Octet

DateOfBirth ==
    (Times(Digits, 1) \cup Times({"1"}, 2)) ** One({"/", "-"})
    ** (Times(Digits, 1) \cup (One({"1"}) ** Times(Digits, 1))) ** One({"/", "-"})
    ** One({"1"}) ** One({"9"}) ** Times(Digits, 2)

Shapes(pattern) ==
    CASE pattern = "PHONE"         -> Phone
      [] pattern = "SSN"           -> Ssn
      [] pattern = "CREDIT_CARD"   -> CreditCard
      [] pattern = "IP_ADDRESS"    -> IpAddress
      [] pattern = "DATE_OF_BIRTH" -> DateOfBirth
      [] pattern = "jailbreak"     -> One({"jail"}) ** One({"break"})
      [] pattern = "dan"           -> One({"DAN"})
      [] pattern = "keyword"       -> One({"debug"})
      [] pattern = "self-harm"     -> One({"self"}) ** One({"sp", "-"}) ** One({"harm"})

\* Are the pieces of s from i to j all in c?
All(s, i, j, c) == \A k \in i..j : s[k] \in c

\* [A-Za-z0-9._%+\-]+@[A-Za-z0-9.\-]+\.[A-Za-z]{2,}
Email(s, i, j) ==
    \E at, dot \in i..j :
        /\ i < at /\ at + 1 < dot /\ dot < j
        /\ s[at] = "@" /\ s[dot] = "."
        /\ All(s, i, at - 1, Words \cup {".", "+", "-"})
        /\ All(s, at + 1, dot - 1, Words \cup {".", "-"})
        /\ All(s, dot + 1, j, Letters)

\* Does the pattern read s from i to j, its boundaries apart?
Reads(pattern, s, i, j) ==
    CASE pattern = "EMAIL" -> Email(s, i, j)
      [] pattern = "suicide-method" ->
           s[i] = "suicide" /\ s[j] = "method" /\ i + 1 < j /\ All(s, i + 1, j - 1, {"sp"})
      [] OTHER -> \E shape \in Shapes(pattern) :
                     /\ Len(shape) = j - i + 1
                     /\ \A k \in DOMAIN shape : s[i + k - 1] \in shape[k]

WordAt(s, i) == i \in DOMAIN s /\ s[i] \in Words

\* \b between the pieces i and i + 1.
Boundary(s, i) == WordAt(s, i) <=> ~WordAt(s, i + 1)

\* Which patterns begin and end with \b.
BoundedLeft  == Patterns \ {"PHONE", "jailbreak"}
BoundedRight == Patterns \ {"jailbreak"}

\* Where the pattern matches, as first and last piece.
Matches(pattern, s) ==
    {m \in (DOMAIN s) \X (DOMAIN s) :
        /\ m[1] <= m[2]
        /\ pattern \in BoundedRight => Boundary(s, m[2])
        /\ pattern \in BoundedLeft  => Boundary(s, m[1] - 1)
        /\ Reads(pattern, s, m[1], m[2])}

\* The engine of `re` takes the longest of these matches that begin at one place.
Longest(pattern, s) ==
    LET matches == Matches(pattern, s)
    IN  {m \in matches : \A n \in matches : n[1] = m[1] => n[2] <= m[2]}

\* pattern.finditer, from left to right: a match is found unless one found before
\* it reaches into it.
Found(pattern, s) ==
    LET longest == Longest(pattern, s)
    IN  CHOOSE found \in SUBSET longest :
            \A m \in longest :
                m \in found <=> \A n \in found : ~(n[1] < m[1] /\ m[1] <= n[2])

-----------------------------------------------------------------------------
\* How many of these positions are not behind i?
Rank(kept, i) == Cardinality({j \in kept : j <= i})

\* The k-th of these positions.
Nth(kept, k) == CHOOSE i \in kept : Rank(kept, i) = k

\* s without the pieces at these positions.
Without(s, gone) ==
    LET kept == DOMAIN s \ gone
    IN  [k \in 1..Cardinality(kept) |-> s[Nth(kept, k)]]

\* s with a placeholder for each of these matches.
Replace(s, found, placeholder) ==
    Without([i \in DOMAIN s |-> IF \E m \in found : m[1] = i THEN placeholder ELSE s[i]],
            UNION {(m[1] + 1)..m[2] : m \in found})

Sub_FirstOnly(type, s) ==
    Replace(s, {m \in Found(type, s) : \A n \in Found(type, s) : m[1] <= n[1]}, type)

\* pattern.sub(f"[{pii_type}]", text)
Sub(type, s) == Replace(s, Found(type, s), type)

Redact(s) ==
    Sub("DATE_OF_BIRTH", Sub("IP_ADDRESS", Sub("CREDIT_CARD",
        Sub("SSN", Sub("PHONE", Sub("EMAIL", s))))))

Detect(s) == {type \in PiiTypes : Matches(type, s) # {}}

\* Markup and control characters go, white space is collapsed and trimmed.
Sanitize(text, maxLength) ==
    LET cut   == SubSeq(text, 1, IF Len(text) < maxLength THEN Len(text) ELSE maxLength)
        plain == Without(cut, {i \in DOMAIN cut : cut[i] = "tag"})
    IN  Without(plain, {i \in DOMAIN plain :
               /\ plain[i] = "sp"
               /\ \/ i = 1 \/ plain[i - 1] = "sp"
                  \/ All(plain, i, Len(plain), {"sp"})})

\* PromptGuard.check: one matching pattern reaches the threshold.
GuardSafe(s) == \A pattern \in Injections : Matches(pattern, s) = {}

Harmful(s) == \E pattern \in Harms : Matches(pattern, s) # {}

\* The notice names the kinds of harm: of the labels only "self-harm content" is
\* anything to a pattern.
Notice(s) ==
    IF Matches("self-harm", s) # {}
    THEN <<"notice", "self", "-", "harm", "end">> ELSE <<"notice", "end">>

\* OutputFilter.filter: a harmful text is replaced as a whole.
FilterOutput(s) == Redact(IF Harmful(s) THEN Notice(s) ELSE s)

-----------------------------------------------------------------------------
(* What the properties of a request speak of.                              *)

\* Which of these patterns are there in s?
Findings(patterns, s) == {pattern \in patterns : Matches(pattern, s) # {}}

\* Does whatever the pattern matches in s stand right before a placeholder of PHONE?
OnlyBeforePhones(pattern, s) ==
    \A m \in Matches(pattern, s) : m[2] < Len(s) /\ s[m[2] + 1] = "PHONE"

\* Does a word run into a telephone number that redact takes out of s?  PHONE alone
\* of the patterns that redact replaces does not begin with \b.
RunsIntoPhone(s) ==
    LET first == Sub("EMAIL", s)
    IN  \E m \in Found("PHONE", first) : WordAt(first, m[1] - 1)

\* The places of s that belong to something detect finds, and those of digits.
Detected(s) ==
    {i \in DOMAIN s : \E type \in PiiTypes : \E m \in Found(type, s) :
                         m[1] <= i /\ i <= m[2]}

DigitsIn(s) == {i \in DOMAIN s : s[i] \in Digits}
=============================================================================
