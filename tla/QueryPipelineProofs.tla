------------------------- MODULE QueryPipelineProofs -------------------------
(***************************************************************************)
(* The content and provenance guarantees of QueryPipeline, for any number  *)
(* of calls, processes, topics and models and any similarity relation.     *)
(***************************************************************************)
EXTENDS QueryPipeline, FiniteSetTheorems, TLAPS

-----------------------------------------------------------------------------
(* The inductive invariant.                                                *)

\* Neither prompt[q] nor answer[q] is assigned any more.
Settled == Ended \cup {"stored"}

\* A suspended handler belongs to a process and has its prompt.
HandlersPlaced ==
    \A r \in Requests : phase[r] \in Suspended =>
        worker[r] \in Workers /\ prompt[r] \in Texts

\* answer[r] is the filtered answer of the engine to r's own prompt.
OwnAnswer(r) ==
    /\ answer[r] \in Answers
    /\ Filtered(answer[r])
    /\ answer[r].prompt = prompt[r].topic
    /\ answer[r].model  = RouteOf[prompt[r].topic]

AnswersOwned ==
    \A r \in Requests : phase[r] \in {"store", "stored"} => OwnAnswer(r)

\* s is some settled request's own answer under its own prompt.
EntrySourced(s) ==
    \E q \in Requests :
        /\ phase[q] \in Settled
        /\ prompt[q] \in Texts
        /\ OwnAnswer(q)
        /\ s = <<prompt[q].topic, answer[q]>>

\* r's reply is sourced as Provenance says, by requests that are settled.
ReplySourced(r) ==
    /\ phase[r] \in Ended
    /\ reply[r] \in Replies
    /\ Filtered(reply[r].body)
    /\ IF reply[r].cached
       THEN \E q \in Requests \ {r} :
               /\ phase[q] \in Settled
               /\ AnsweredBy(q, r)
               /\ <<prompt[q].topic, answer[q]>> \in stored
       ELSE AnsweredBy(r, r)

EntriesSourced == \A s \in stored : EntrySourced(s)
RepliesSourced == \A r \in Requests : reply[r] # None => ReplySourced(r)

IInv ==
    /\ TypeOK
    /\ PromptsFiltered
    /\ HandlersPlaced
    /\ AnswersOwned
    /\ EntriesSourced
    /\ RepliesSourced
-----------------------------------------------------------------------------
(* What the filters return.                                                *)

\* Of a text that the sanitizer and the guard let through, redact leaves nothing but
\* what a placeholder uncovered.
LEMMA AdmittedTextFiltered ==
    ASSUME NEW text \in Queries,
           ~Empty(Sanitize(text)),
           GuardSafe(Sanitize(text))
    PROVE  /\ Redact(Sanitize(text)) \in Texts
           /\ Redact(Sanitize(text)).marks \subseteq {"uncovered"}
<1> DEFINE clean == Sanitize(text)
<1>1. /\ clean.topic \in Topics
      /\ clean = [topic |-> clean.topic, marks |-> clean.marks]
      /\ clean.marks \subseteq {"blank", "injection", "pii", "attached"}
  BY MarksAssumption DEF Queries, Sanitize, InputMarks
<1>2. clean.marks \subseteq {"pii", "attached"}
  BY <1>1 DEF Empty, GuardSafe
<1>3. /\ Redact(clean).topic = clean.topic
      /\ Redact(clean) = [topic |-> clean.topic, marks |-> Redact(clean).marks]
      /\ Redact(clean).marks \subseteq {"uncovered"}
  <2> HIDE DEF clean
  <2> QED  BY <1>1, <1>2 DEF Redact
<1> QED
  BY <1>1, <1>3 DEF Texts

\* redact changes nothing of an answer but its marks.
LEMMA RedactedAnswer ==
    ASSUME NEW resp \in Answers
    PROVE  /\ Redact(resp) \in Answers
           /\ Redact(resp).prompt = resp.prompt
           /\ Redact(resp).model  = resp.model
           /\ Redact(resp).notice = resp.notice
           /\ Redact(resp).marks  = (resp.marks \ {"pii", "attached"})
                \cup (IF "attached" \in resp.marks THEN {"uncovered"} ELSE {})
BY DEF Answers, Redact

\* An answer that needs no more filtering is left as it is by redact.
LEMMA RedactKeepsFiltered ==
    ASSUME NEW resp \in Answers, Filtered(resp)
    PROVE  Filtered(Redact(resp))
<1>1. "pii" \notin resp.marks /\ "attached" \notin resp.marks
  BY DEF Filtered
<1>2. Redact(resp).marks = resp.marks /\ Redact(resp).notice = resp.notice
  BY <1>1, RedactedAnswer
<1> QED
  BY <1>2 DEF Filtered

\* The engine's answer leaves the output filters filtered, with its prompt and its
\* model unchanged, and the second redact changes nothing of that.
LEMMA FilteredAnswer ==
    ASSUME NEW raw \in Answers, ~raw.notice, raw.marks \subseteq OutputMarks
    PROVE  LET safe == Redact(FilterOutput(raw)) IN
           /\ safe \in Answers
           /\ Filtered(safe)
           /\ safe.prompt = raw.prompt
           /\ safe.model  = raw.model
<1> DEFINE kept == IF Harmful(raw) THEN Notice(raw) ELSE raw
<1>1. /\ kept \in Answers
      /\ kept.prompt = raw.prompt /\ kept.model = raw.model
      /\ kept.marks \subseteq IF kept.notice THEN {"self-harm"} ELSE {"pii", "attached"}
  <2>1. CASE Harmful(raw)
    BY <2>1 DEF Answers, Notice
  <2>2. CASE ~Harmful(raw)
    <3>1. raw.marks \subseteq {"pii", "attached"}
      BY <2>2 DEF Harmful, OutputMarks
    <3> QED
      BY <2>2, <3>1
  <2> QED
    BY <2>1, <2>2
<1> HIDE DEF kept
<1>2. /\ Redact(kept) \in Answers
      /\ Filtered(Redact(kept))
      /\ Redact(kept).prompt = raw.prompt /\ Redact(kept).model = raw.model
  <2>1. CASE kept.notice
    BY <1>1, <2>1, RedactedAnswer DEF Filtered
  <2>2. CASE ~kept.notice
    BY <1>1, <2>2, RedactedAnswer DEF Filtered
  <2> QED
    BY <2>1, <2>2
<1>3. FilterOutput(raw) = Redact(kept)
  BY DEF FilterOutput, kept
<1> QED
  BY <1>2, <1>3, RedactedAnswer, RedactKeepsFiltered

LEMMA BumpTypeOK ==
    ASSUME metrics \in [Workers -> [Counters -> Int]],
           NEW w \in Workers, NEW up, NEW down,
           Bump(w, up, down)
    PROVE  metrics' \in [Workers -> [Counters -> Int]]
BY DEF Bump

-----------------------------------------------------------------------------
(* What a step keeps.                                                      *)

\* A settled request stays settled, with its prompt and its answer.
SettledKept ==
    \A q \in Requests : phase[q] \in Settled =>
        /\ phase'[q] \in Settled
        /\ phase[q] \in Ended => phase'[q] \in Ended
        /\ prompt'[q] = prompt[q]
        /\ answer'[q] = answer[q]

LEMMA EntryKept ==
    ASSUME SettledKept, NEW s, EntrySourced(s)
    PROVE  EntrySourced(s)'
BY DEF SettledKept, EntrySourced, OwnAnswer, Filtered

LEMMA ReplyKept ==
    ASSUME SettledKept, stored \subseteq stored',
           NEW r \in Requests, ReplySourced(r), reply'[r] = reply[r]
    PROVE  ReplySourced(r)'
<1>1. /\ phase'[r] \in Ended
      /\ prompt'[r] = prompt[r]
      /\ answer'[r] = answer[r]
  BY DEF SettledKept, ReplySourced, Settled
<1>2. CASE reply[r].cached
  <2>1. PICK q \in Requests \ {r} :
           /\ phase[q] \in Settled
           /\ AnsweredBy(q, r)
           /\ <<prompt[q].topic, answer[q]>> \in stored
    BY <1>2 DEF ReplySourced
  <2>2. /\ phase'[q] \in Settled
        /\ prompt'[q] = prompt[q]
        /\ answer'[q] = answer[q]
    BY <2>1 DEF SettledKept
  <2>3. AnsweredBy(q, r)'
    BY <1>1, <2>1, <2>2 DEF AnsweredBy
  <2> QED
    BY <1>1, <1>2, <2>1, <2>2, <2>3 DEF ReplySourced, Filtered
<1>3. CASE ~reply[r].cached
  BY <1>1, <1>3 DEF ReplySourced, AnsweredBy, Filtered
<1> QED
  BY <1>2, <1>3

\* The steps that only move handlers on or end them.
LEMMA OnlyPhases ==
    ASSUME IInv, TypeOK',
           UNCHANGED <<prompt, answer, reply, stored>>,
           SettledKept,
           \A r \in Requests : phase'[r] \in Suspended =>
               phase[r] \in Suspended /\ worker'[r] = worker[r],
           \A r \in Requests : phase'[r] \in {"store", "stored"} =>
               phase[r] \in {"store", "stored"}
    PROVE  IInv'
<1>1. PromptsFiltered'
  BY DEF IInv, PromptsFiltered, Filtered
<1>2. HandlersPlaced'
  BY DEF IInv, HandlersPlaced
<1>3. AnswersOwned'
  BY DEF IInv, AnswersOwned, OwnAnswer, Filtered
<1>4. EntriesSourced'
  BY EntryKept DEF IInv, EntriesSourced
<1>5. RepliesSourced'
  BY ReplyKept DEF IInv, RepliesSourced
<1> QED
  BY <1>1, <1>2, <1>3, <1>4, <1>5 DEF IInv

-----------------------------------------------------------------------------
(* Every action preserves the invariant.                                   *)

LEMMA UnauthorizedStep ==
    ASSUME IInv, NEW r \in Requests, NEW w \in Workers, Unauthorized(r, w)
    PROVE  IInv'
<1>1. TypeOK'
  BY DEF IInv, TypeOK, Unauthorized, Suspended, Ended
<1>2. SettledKept
  BY DEF IInv, TypeOK, SettledKept, Unauthorized, Settled, Suspended, Ended
<1> QED
  BY <1>1, <1>2, OnlyPhases
     DEF IInv, TypeOK, Unauthorized, Suspended, Ended

LEMMA RejectStep ==
    ASSUME IInv, NEW r \in Requests, NEW w \in Workers, NEW text \in Queries, Reject(r, w, text)
    PROVE  IInv'
<1>1. TypeOK'
  BY BumpTypeOK DEF IInv, TypeOK, HandlersPlaced, Reject, Suspended, Ended
<1>2. SettledKept
  BY DEF IInv, TypeOK, SettledKept, Reject, Settled, Suspended, Ended
<1> QED
  BY <1>1, <1>2, OnlyPhases
     DEF IInv, TypeOK, Reject, Suspended, Ended

LEMMA LookupMissStep ==
    ASSUME IInv, NEW r \in Requests, LookupMiss(r)
    PROVE  IInv'
<1>1. TypeOK'
  BY DEF IInv, TypeOK, LookupMiss, Suspended, Ended
<1>2. SettledKept
  BY DEF IInv, TypeOK, SettledKept, LookupMiss, Settled, Suspended, Ended
<1> QED
  BY <1>1, <1>2, OnlyPhases
     DEF IInv, TypeOK, LookupMiss, Suspended, Ended

LEMMA InferRaisesStep ==
    ASSUME IInv, NEW r \in Requests, InferRaises(r)
    PROVE  IInv'
<1>1. TypeOK'
  BY BumpTypeOK DEF IInv, TypeOK, HandlersPlaced, InferRaises, Suspended, Ended
<1>2. SettledKept
  BY DEF IInv, TypeOK, SettledKept, InferRaises, Settled, Suspended, Ended
<1> QED
  BY <1>1, <1>2, OnlyPhases
     DEF IInv, TypeOK, InferRaises, Suspended, Ended

LEMMA CancelStep ==
    ASSUME IInv, NEW r \in Requests, Cancel(r)
    PROVE  IInv'
<1>1. TypeOK'
  BY BumpTypeOK DEF IInv, TypeOK, HandlersPlaced, Cancel, Suspended, Ended
<1>2. SettledKept
  BY DEF IInv, TypeOK, SettledKept, Cancel, Settled, Suspended, Ended
<1> QED
  BY <1>1, <1>2, OnlyPhases
     DEF IInv, TypeOK, Cancel, Suspended, Ended

LEMMA CrashStep ==
    ASSUME IInv, NEW w \in Workers, Crash(w)
    PROVE  IInv'
<1>1. TypeOK'
  BY NoneAssumption DEF IInv, TypeOK, NoMetrics, Counters, Crash, Suspended, Ended
<1>2. SettledKept
  BY DEF IInv, TypeOK, SettledKept, Crash, Settled, Suspended, Ended
<1> QED
  BY <1>1, <1>2, OnlyPhases
     DEF IInv, TypeOK, Crash, Suspended, Ended

LEMMA AdmitStep ==
    ASSUME IInv, NEW r \in Requests, NEW w \in Workers, NEW text \in Queries,
           Admit(r, w, text)
    PROVE  IInv'
<1> DEFINE clean == Redact(Sanitize(text))
<1>1. clean \in Texts /\ clean.marks \subseteq {"uncovered"}
  BY AdmittedTextFiltered DEF Admit
<1>2. TypeOK'
  BY <1>1, BumpTypeOK DEF IInv, TypeOK, Admit, Suspended
<1>3. SettledKept
  BY DEF IInv, TypeOK, SettledKept, Admit, Settled, Ended
<1>4. PromptsFiltered'
  BY <1>1 DEF IInv, TypeOK, PromptsFiltered, Admit, Filtered
<1>5. HandlersPlaced'
  BY <1>1 DEF IInv, TypeOK, HandlersPlaced, Admit
<1>6. AnswersOwned'
  BY DEF IInv, TypeOK, AnswersOwned, OwnAnswer, Admit, Filtered
<1>7. EntriesSourced'
  BY <1>3, EntryKept DEF IInv, EntriesSourced, Admit
<1>8. RepliesSourced'
  BY <1>3, ReplyKept DEF IInv, RepliesSourced, Admit
<1> QED
  BY <1>2, <1>4, <1>5, <1>6, <1>7, <1>8 DEF IInv

LEMMA LookupHitStep ==
    ASSUME IInv, NEW r \in Requests, LookupHit(r)
    PROVE  IInv'
<1>1. PICK s \in stored :
         /\ s[1] \in Alike[prompt[r].topic]
         /\ reply' = [reply EXCEPT ![r] = [body |-> s[2], cached |-> TRUE]]
  BY DEF LookupHit, Findable
<1>2. PICK q \in Requests :
         /\ phase[q] \in Settled
         /\ prompt[q] \in Texts
         /\ OwnAnswer(q)
         /\ s = <<prompt[q].topic, answer[q]>>
  BY DEF IInv, EntriesSourced, EntrySourced
<1>3. q # r
  BY <1>2 DEF LookupHit, Settled, Ended
<1>4. reply'[r] = [body |-> answer[q], cached |-> TRUE]
  BY <1>1, <1>2 DEF IInv, TypeOK
<1>5. reply'[r] \in Replies
  BY <1>2, <1>4 DEF Replies, OwnAnswer
<1>6. TypeOK'
  BY <1>1, <1>4, <1>5, BumpTypeOK
     DEF IInv, TypeOK, HandlersPlaced, LookupHit, Suspended, Ended
<1>7. SettledKept
  BY DEF IInv, TypeOK, SettledKept, LookupHit, Settled, Ended
<1>8. PromptsFiltered' /\ HandlersPlaced' /\ AnswersOwned'
  BY DEF IInv, TypeOK, PromptsFiltered, HandlersPlaced, AnswersOwned, OwnAnswer,
         LookupHit, Filtered, Suspended
<1>9. EntriesSourced'
  BY <1>7, EntryKept DEF IInv, EntriesSourced, LookupHit
<1>10. ReplySourced(r)'
  <2>1. AnsweredBy(q, r)'
    BY <1>1, <1>2, <1>4 DEF AnsweredBy, OwnAnswer, LookupHit
  <2>2. phase'[q] \in Settled /\ <<prompt[q].topic, answer[q]>>' \in stored'
    BY <1>2, <1>7 DEF SettledKept, LookupHit
  <2>3. phase'[r] \in Ended
    BY DEF IInv, TypeOK, LookupHit, Ended
  <2>4. Filtered(reply[r].body)' /\ reply'[r].cached
    BY <1>2, <1>4 DEF OwnAnswer, Filtered
  <2> QED
    BY <1>3, <1>5, <2>1, <2>2, <2>3, <2>4 DEF ReplySourced
<1>11. RepliesSourced'
  <2> SUFFICES ASSUME NEW p \in Requests, reply'[p] # None
               PROVE  ReplySourced(p)'
    BY DEF RepliesSourced
  <2>1. CASE p = r
    BY <1>10, <2>1
  <2>2. CASE p # r
    <3>1. reply'[p] = reply[p]
      BY <1>1, <2>2 DEF IInv, TypeOK
    <3> QED
      BY <1>7, <3>1, ReplyKept DEF IInv, RepliesSourced, LookupHit
  <2> QED
    BY <2>1, <2>2
<1> QED
  BY <1>6, <1>8, <1>9, <1>11 DEF IInv

LEMMA InferReturnsStep ==
    ASSUME IInv, NEW r \in Requests, InferReturns(r)
    PROVE  IInv'
<1>1. prompt[r] \in Texts /\ phase[r] = "infer"
  BY DEF IInv, HandlersPlaced, InferReturns, Suspended
<1> DEFINE raw(marks) == [prompt |-> prompt[r].topic,
                          model  |-> RouteOf[prompt[r].topic],
                          marks  |-> marks, notice |-> FALSE]
<1>2. PICK marks \in RawMarks :
         answer' = [answer EXCEPT ![r] = Redact(FilterOutput(raw(marks)))]
  BY DEF InferReturns
<1>3. /\ raw(marks) \in Answers
      /\ ~raw(marks).notice /\ raw(marks).marks \subseteq OutputMarks
  BY <1>1, TopicsAssumption, MarksAssumption DEF Answers, Texts, RawMarks
<1> DEFINE safe == Redact(FilterOutput(raw(marks)))
<1>4. /\ safe \in Answers
      /\ Filtered(safe)
      /\ safe.prompt = prompt[r].topic
      /\ safe.model  = RouteOf[prompt[r].topic]
  BY <1>3, FilteredAnswer
<1> HIDE DEF safe
<1>5. answer' = [answer EXCEPT ![r] = safe]
  BY <1>2 DEF safe
<1>6. TypeOK'
  BY <1>4, <1>5 DEF IInv, TypeOK, InferReturns, Suspended
<1>7. SettledKept
  BY <1>1, <1>5 DEF IInv, TypeOK, SettledKept, InferReturns, Settled, Ended
<1>8. PromptsFiltered' /\ HandlersPlaced'
  BY DEF IInv, TypeOK, PromptsFiltered, HandlersPlaced, InferReturns, Filtered, Suspended
<1>9. AnswersOwned'
  BY <1>4, <1>5 DEF IInv, TypeOK, AnswersOwned, OwnAnswer, InferReturns, Filtered
<1>10. EntriesSourced'
  BY <1>7, EntryKept DEF IInv, EntriesSourced, InferReturns
<1>11. RepliesSourced'
  BY <1>7, ReplyKept DEF IInv, RepliesSourced, InferReturns
<1> QED
  BY <1>6, <1>8, <1>9, <1>10, <1>11 DEF IInv

LEMMA StoreEntryStep ==
    ASSUME IInv, NEW r \in Requests, StoreEntry(r)
    PROVE  IInv'
<1>1. prompt[r] \in Texts /\ OwnAnswer(r)
  BY DEF IInv, HandlersPlaced, AnswersOwned, StoreEntry, Suspended
<1>2. TypeOK'
  BY <1>1 DEF IInv, TypeOK, StoreEntry, Suspended, OwnAnswer, Texts
<1>3. SettledKept
  BY DEF IInv, TypeOK, SettledKept, StoreEntry, Settled, Ended
<1>4. PromptsFiltered' /\ HandlersPlaced' /\ AnswersOwned'
  BY <1>1 DEF IInv, TypeOK, PromptsFiltered, HandlersPlaced, AnswersOwned, OwnAnswer,
              StoreEntry, Filtered, Suspended
<1>5. EntriesSourced'
  <2>1. EntrySourced(<<prompt[r].topic, answer[r]>>)'
    BY <1>1 DEF IInv, TypeOK, EntrySourced, OwnAnswer, StoreEntry, Filtered, Settled
  <2> QED
    BY <1>3, <2>1, EntryKept DEF IInv, EntriesSourced, StoreEntry
<1>6. RepliesSourced'
  BY <1>3, ReplyKept DEF IInv, RepliesSourced, StoreEntry
<1> QED
  BY <1>2, <1>4, <1>5, <1>6 DEF IInv

LEMMA RespondStep ==
    ASSUME IInv, NEW r \in Requests, Respond(r)
    PROVE  IInv'
<1>1. prompt[r] \in Texts /\ OwnAnswer(r)
  BY DEF IInv, HandlersPlaced, AnswersOwned, Respond, Suspended
<1>2. prompt[r].topic \in Alike[prompt[r].topic]
  BY <1>1, TopicsAssumption DEF Texts
<1>3. reply' = [reply EXCEPT ![r] = [body |-> answer[r], cached |-> FALSE]]
  BY DEF Respond
<1>4. reply'[r] = [body |-> answer[r], cached |-> FALSE] /\ reply'[r] \in Replies
  BY <1>1, <1>3 DEF IInv, TypeOK, Replies, OwnAnswer
<1>5. TypeOK'
  BY <1>3, <1>4, BumpTypeOK
     DEF IInv, TypeOK, HandlersPlaced, Respond, Suspended, Ended
<1>6. SettledKept
  BY DEF IInv, TypeOK, SettledKept, Respond, Settled, Ended
<1>7. PromptsFiltered' /\ HandlersPlaced' /\ AnswersOwned'
  BY DEF IInv, TypeOK, PromptsFiltered, HandlersPlaced, AnswersOwned, OwnAnswer,
         Respond, Filtered, Suspended
<1>8. EntriesSourced'
  BY <1>6, EntryKept DEF IInv, EntriesSourced, Respond
<1>9. ReplySourced(r)'
  BY <1>1, <1>2, <1>4
     DEF IInv, TypeOK, ReplySourced, AnsweredBy, OwnAnswer, Filtered, Respond, Ended
<1>10. RepliesSourced'
  <2> SUFFICES ASSUME NEW p \in Requests, reply'[p] # None
               PROVE  ReplySourced(p)'
    BY DEF RepliesSourced
  <2>1. CASE p = r
    BY <1>9, <2>1
  <2>2. CASE p # r
    <3>1. reply'[p] = reply[p]
      BY <1>3, <2>2 DEF IInv, TypeOK
    <3> QED
      BY <1>6, <3>1, ReplyKept DEF IInv, RepliesSourced, Respond
  <2> QED
    BY <2>1, <2>2
<1> QED
  BY <1>5, <1>7, <1>8, <1>10 DEF IInv

-----------------------------------------------------------------------------
(* The theorems.                                                           *)

LEMMA InitIInv == Init => IInv
<1> SUFFICES ASSUME Init PROVE IInv
  OBVIOUS
<1>1. TypeOK
  BY NoneAssumption DEF Init, TypeOK, NoMetrics, Counters
<1>2. PromptsFiltered /\ HandlersPlaced /\ AnswersOwned
  BY DEF Init, PromptsFiltered, HandlersPlaced, AnswersOwned, Suspended
<1>3. EntriesSourced /\ RepliesSourced
  BY DEF Init, EntriesSourced, RepliesSourced
<1> QED
  BY <1>1, <1>2, <1>3 DEF IInv

LEMMA NextIInv == IInv /\ [Next]_vars => IInv'
<1> SUFFICES ASSUME IInv, [Next]_vars PROVE IInv'
  OBVIOUS
<1>1. ASSUME NEW r \in Requests, NEW w \in Workers, Unauthorized(r, w)
      PROVE  IInv'
  BY <1>1, UnauthorizedStep
<1>2. ASSUME NEW r \in Requests, NEW w \in Workers, NEW text \in Queries,
             Reject(r, w, text) \/ Admit(r, w, text)
      PROVE  IInv'
  BY <1>2, RejectStep, AdmitStep
<1>3. ASSUME NEW r \in Requests, Handler(r)
      PROVE  IInv'
  BY <1>3, LookupHitStep, LookupMissStep, InferReturnsStep, InferRaisesStep,
     StoreEntryStep, RespondStep DEF Handler
<1>4. ASSUME NEW r \in Requests, Cancel(r)
      PROVE  IInv'
  BY <1>4, CancelStep
<1>5. ASSUME NEW w \in Workers, Crash(w)
      PROVE  IInv'
  BY <1>5, CrashStep
<1>6. CASE UNCHANGED vars
  <2>1. TypeOK'
    BY <1>6 DEF IInv, TypeOK, vars
  <2>2. SettledKept
    BY <1>6 DEF SettledKept, vars
  <2> QED
    BY <1>6, <2>1, <2>2, OnlyPhases DEF vars
<1> QED
  BY <1>1, <1>2, <1>3, <1>4, <1>5, <1>6 DEF Next

\* The invariant holds in every reachable state.
THEOREM Invariance == Spec => []IInv
<1> QED
  BY InitIInv, NextIInv, PTL DEF Spec

\* The state of the handlers, the cache and the counters keeps its type.
THEOREM TypeCorrect == Spec => []TypeOK
<1>1. IInv => TypeOK
  BY DEF IInv
<1> QED
  BY <1>1, Invariance, PTL

\* Of what the sanitizer, the guard and redact look for no prompt past them carries
\* anything but what a placeholder uncovered.
THEOREM PromptsStayFiltered == Spec => []PromptsFiltered
<1>1. IInv => PromptsFiltered
  BY DEF IInv
<1> QED
  BY <1>1, Invariance, PTL

\* Only filtered answers are ever stored in the cache or sent back.
THEOREM AnswersStayFiltered == Spec => []AnswersFiltered
<1>1. IInv => AnswersFiltered
  <2> SUFFICES ASSUME IInv PROVE AnswersFiltered
    OBVIOUS
  <2>1. ASSUME NEW s \in stored PROVE Filtered(s[2])
    BY DEF IInv, EntriesSourced, EntrySourced, OwnAnswer
  <2>2. ASSUME NEW r \in Requests, reply[r] # None PROVE Filtered(reply[r].body)
    BY <2>2 DEF IInv, RepliesSourced, ReplySourced
  <2> QED
    BY <2>1, <2>2 DEF AnswersFiltered
<1> QED
  BY <1>1, Invariance, PTL

\* Every reply answers its own prompt or one the cache takes for it, and names
\* the model that answered.
THEOREM RepliesHaveProvenance == Spec => []Provenance
<1>1. IInv => Provenance
  BY DEF IInv, RepliesSourced, ReplySourced, Provenance
<1> QED
  BY <1>1, Invariance, PTL

-----------------------------------------------------------------------------
(* The metrics.                                                            *)

ServedBy(w, S) == {q \in Requests : worker[q] = w /\ phase[q] \in S}

LEMMA ServedFinite ==
    ASSUME NEW w, NEW S
    PROVE  /\ IsFiniteSet(ServedBy(w, S))
           /\ Served(w, S) = Cardinality(ServedBy(w, S))
           /\ Served(w, S) \in Nat
<1>1. IsFiniteSet(ServedBy(w, S))
  BY RequestsAssumption, FS_Subset DEF ServedBy
<1> QED
  BY <1>1, FS_CardinalityType DEF ServedBy, Served

\* Only request r goes to another phase, in process w.
Moves(r, w) ==
    /\ \A q \in Requests \ {r} : phase'[q] = phase[q] /\ worker'[q] = worker[q]
    /\ worker'[r] = w
    /\ worker[r] = w \/ phase[r] = "idle"

\* What one move does to a count of requests by phase.
LEMMA ServedMoves ==
    ASSUME TypeOK, NEW r \in Requests, NEW w \in Workers, Moves(r, w),
           NEW v \in Workers, NEW S, "idle" \notin S
    PROVE  Served(v, S)' = Served(v, S)
              + (IF v = w /\ phase'[r] \in S /\ phase[r] \notin S THEN 1 ELSE 0)
              - (IF v = w /\ phase'[r] \notin S /\ phase[r] \in S THEN 1 ELSE 0)
<1> DEFINE before == ServedBy(v, S)
           after  == {q \in Requests : worker'[q] = v /\ phase'[q] \in S}
<1>1. /\ Served(v, S)  = Cardinality(before)
      /\ Served(v, S)' = Cardinality(after)
      /\ IsFiniteSet(before)
      /\ Cardinality(before) \in Nat
  BY ServedFinite DEF Served
<1>2. /\ worker'[r] = w
      /\ \A q \in Requests \ {r} : phase'[q] = phase[q] /\ worker'[q] = worker[q]
  BY DEF Moves
<1>3. CASE v = w /\ phase'[r] \in S /\ phase[r] \notin S
  <2>1. r \notin before /\ after = before \cup {r}
    BY <1>2, <1>3 DEF ServedBy
  <2> QED
    <3> HIDE DEF before, after
    <3>1. Cardinality(after) = Cardinality(before) + 1
      BY <1>1, <2>1, FS_AddElement
    <3> QED
      BY <1>1, <1>3, <3>1
<1>4. CASE v = w /\ phase'[r] \notin S /\ phase[r] \in S
  <2>1. r \in before /\ after = before \ {r}
    BY <1>2, <1>4 DEF ServedBy, Moves
  <2> QED
    <3> HIDE DEF before, after
    <3>1. Cardinality(after) = Cardinality(before) - 1
      BY <1>1, <2>1, FS_RemoveElement
    <3> QED
      BY <1>1, <1>4, <3>1
<1>5. CASE ~(v = w /\ phase'[r] \in S /\ phase[r] \notin S)
           /\ ~(v = w /\ phase'[r] \notin S /\ phase[r] \in S)
  <2>1. after = before
    BY <1>2, <1>5 DEF ServedBy, Moves
  <2> QED
    <3> HIDE DEF before, after
    <3> QED
      BY <1>1, <1>5, <2>1
<1> QED
  BY <1>3, <1>4, <1>5

\* A move that bumps exactly the metrics whose count it changes.
LEMMA MetricsMove ==
    ASSUME TypeOK, MetricsMatchOutcomes,
           NEW r \in Requests, NEW w \in Workers, Moves(r, w),
           NEW up, NEW down, Bump(w, up, down),
           \A c \in Counters :
              /\ c \in up   <=> phase'[r] \in CountedIn[c] /\ phase[r] \notin CountedIn[c]
              /\ c \in down <=> phase'[r] \notin CountedIn[c] /\ phase[r] \in CountedIn[c]
    PROVE  MetricsMatchOutcomes'
<1> SUFFICES ASSUME NEW v \in Workers, NEW c \in Counters
             PROVE  metrics'[v][c] = Served(v, CountedIn[c])'
  BY DEF MetricsMatchOutcomes
<1>1. "idle" \notin CountedIn[c]
  BY DEF CountedIn, Counters, Suspended, Arrived, Ended
<1>2. metrics[v][c] = Served(v, CountedIn[c]) /\ metrics[v][c] \in Int
  BY DEF TypeOK, MetricsMatchOutcomes
<1>3. CASE v = w
  <2>1. metrics'[v][c] = metrics[v][c] + (IF c \in up THEN 1 ELSE 0)
                                       - (IF c \in down THEN 1 ELSE 0)
    BY <1>3 DEF TypeOK, Bump
  <2>2. Served(v, CountedIn[c])' = Served(v, CountedIn[c])
            + (IF c \in up THEN 1 ELSE 0) - (IF c \in down THEN 1 ELSE 0)
    BY <1>1, <1>3, ServedMoves
  <2> QED
    BY <1>2, <2>1, <2>2
<1>4. CASE v # w
  <2>1. metrics'[v][c] = metrics[v][c]
    BY <1>4 DEF TypeOK, Bump
  <2>2. Served(v, CountedIn[c])' = Served(v, CountedIn[c])
    BY <1>1, <1>2, <1>4, ServedMoves
  <2> QED
    BY <1>2, <2>1, <2>2
<1> QED
  BY <1>3, <1>4

\* A move that no metric sees.
LEMMA MetricsStay ==
    ASSUME TypeOK, MetricsMatchOutcomes,
           NEW r \in Requests, NEW w \in Workers, Moves(r, w),
           UNCHANGED metrics,
           \A c \in Counters : phase'[r] \in CountedIn[c] <=> phase[r] \in CountedIn[c]
    PROVE  MetricsMatchOutcomes'
<1> SUFFICES ASSUME NEW v \in Workers, NEW c \in Counters
             PROVE  metrics'[v][c] = Served(v, CountedIn[c])'
  BY DEF MetricsMatchOutcomes
<1>1. "idle" \notin CountedIn[c]
  BY DEF CountedIn, Counters, Suspended, Arrived, Ended
<1>2. metrics[v][c] = Served(v, CountedIn[c]) /\ metrics[v][c] \in Int
  BY DEF TypeOK, MetricsMatchOutcomes
<1>3. Served(v, CountedIn[c])' = Served(v, CountedIn[c])
  BY <1>1, <1>2, ServedMoves
<1> QED
  BY <1>2, <1>3

\* A step of a suspended handler stays in its process.
LEMMA HandlerMoves ==
    ASSUME IInv, NEW r \in Requests,
           phase[r] \in Suspended,
           \A q \in Requests \ {r} : phase'[q] = phase[q],
           UNCHANGED worker
    PROVE  worker[r] \in Workers /\ Moves(r, worker[r])
BY DEF IInv, TypeOK, HandlersPlaced, Moves

LEMMA ArrivalMetrics ==
    ASSUME IInv, MetricsMatchOutcomes, NEW r \in Requests, NEW w \in Workers,
           \/ Unauthorized(r, w)
           \/ \E text \in Queries : Reject(r, w, text) \/ Admit(r, w, text)
    PROVE  MetricsMatchOutcomes'
<1> USE DEF IInv, TypeOK
<1>1. CASE Unauthorized(r, w)
  <2>1. Moves(r, w)
    BY <1>1 DEF Unauthorized, Moves
  <2>2. phase[r] = "idle" /\ phase'[r] = "unauthorized"
    BY <1>1 DEF Unauthorized, TypeOK, IInv
  <2>3. \A c \in Counters : phase'[r] \in CountedIn[c] <=> phase[r] \in CountedIn[c]
    BY <2>2 DEF CountedIn, Counters, Arrived, Suspended, Ended
  <2> QED
    BY <1>1, <2>1, <2>3, MetricsStay DEF Unauthorized
<1>2. ASSUME NEW text \in Queries, Reject(r, w, text)
      PROVE  MetricsMatchOutcomes'
  <2>1. CASE phase' = [phase EXCEPT ![r] = "invalid"]
             /\ Bump(w, {"started", "error"}, {})
    <3>1. Moves(r, w)
      BY <1>2, <2>1 DEF Reject, Moves
    <3>2. phase[r] = "idle" /\ phase'[r] = "invalid"
      BY <1>2, <2>1 DEF Reject, TypeOK, IInv
    <3>3. \A c \in Counters :
             /\ c \in {"started", "error"}
                  <=> phase'[r] \in CountedIn[c] /\ phase[r] \notin CountedIn[c]
             /\ c \in {}
                  <=> phase'[r] \notin CountedIn[c] /\ phase[r] \in CountedIn[c]
      BY <3>2 DEF CountedIn, Counters, Arrived, Suspended, Ended
    <3> QED
      BY <1>2, <2>1, <3>1, <3>3, MetricsMove DEF Reject
  <2>2. CASE phase' = [phase EXCEPT ![r] = "blocked"]
             /\ Bump(w, {"started", "SECURITY_BLOCKS"}, {})
    <3>1. Moves(r, w)
      BY <1>2, <2>2 DEF Reject, Moves
    <3>2. phase[r] = "idle" /\ phase'[r] = "blocked"
      BY <1>2, <2>2 DEF Reject, TypeOK, IInv
    <3>3. \A c \in Counters :
             /\ c \in {"started", "SECURITY_BLOCKS"}
                  <=> phase'[r] \in CountedIn[c] /\ phase[r] \notin CountedIn[c]
             /\ c \in {}
                  <=> phase'[r] \notin CountedIn[c] /\ phase[r] \in CountedIn[c]
      BY <3>2 DEF CountedIn, Counters, Arrived, Suspended, Ended
    <3> QED
      BY <1>2, <2>2, <3>1, <3>3, MetricsMove DEF Reject
  <2> QED
    BY <1>2, <2>1, <2>2 DEF Reject
<1>3. ASSUME NEW text \in Queries, Admit(r, w, text)
      PROVE  MetricsMatchOutcomes'
  <2>1. Moves(r, w)
    BY <1>3 DEF Admit, Moves
  <2>2. phase[r] = "idle" /\ phase'[r] = "lookup"
    BY <1>3 DEF Admit, TypeOK, IInv
  <2>3. \A c \in Counters :
           /\ c \in {"started", "ACTIVE_REQUESTS"}
                <=> phase'[r] \in CountedIn[c] /\ phase[r] \notin CountedIn[c]
           /\ c \in {}
                <=> phase'[r] \notin CountedIn[c] /\ phase[r] \in CountedIn[c]
    BY <2>2 DEF CountedIn, Counters, Arrived, Suspended, Ended
  <2> QED
    BY <1>3, <2>1, <2>3, MetricsMove DEF Admit
<1> QED
  BY <1>1, <1>2, <1>3

LEMMA HandlerMetrics ==
    ASSUME IInv, MetricsMatchOutcomes, NEW r \in Requests,
           Handler(r) \/ Cancel(r)
    PROVE  MetricsMatchOutcomes'
<1>1. TypeOK
  BY DEF IInv
<1>2. CASE LookupHit(r)
  <2>1. worker[r] \in Workers /\ Moves(r, worker[r])
    BY <1>2, HandlerMoves DEF IInv, TypeOK, LookupHit, Suspended
  <2>2. phase[r] = "lookup" /\ phase'[r] = "hit"
    BY <1>1, <1>2 DEF LookupHit, TypeOK, IInv
  <2>3. \A c \in Counters :
           /\ c \in {"CACHE_HITS", "cache_hit"}
                <=> phase'[r] \in CountedIn[c] /\ phase[r] \notin CountedIn[c]
           /\ c \in {"ACTIVE_REQUESTS"}
                <=> phase'[r] \notin CountedIn[c] /\ phase[r] \in CountedIn[c]
    BY <2>2 DEF CountedIn, Counters, Arrived, Suspended, Ended
  <2> QED
    BY <1>1, <1>2, <2>1, <2>3, MetricsMove DEF LookupHit
<1>3. CASE LookupMiss(r)
  <2>1. worker[r] \in Workers /\ Moves(r, worker[r])
    BY <1>3, HandlerMoves DEF IInv, TypeOK, LookupMiss, Suspended
  <2>2. phase[r] = "lookup" /\ phase'[r] = "infer"
    BY <1>1, <1>3 DEF LookupMiss, TypeOK
  <2>3. \A c \in Counters : phase'[r] \in CountedIn[c] <=> phase[r] \in CountedIn[c]
    BY <2>2 DEF CountedIn, Counters, Arrived, Suspended, Ended
  <2> QED
    BY <1>1, <1>3, <2>1, <2>3, MetricsStay DEF LookupMiss
<1>4. CASE InferReturns(r)
  <2>1. worker[r] \in Workers /\ Moves(r, worker[r])
    BY <1>4, HandlerMoves DEF IInv, TypeOK, InferReturns, Suspended
  <2>2. phase[r] = "infer" /\ phase'[r] = "store"
    BY <1>1, <1>4 DEF InferReturns, TypeOK
  <2>3. \A c \in Counters : phase'[r] \in CountedIn[c] <=> phase[r] \in CountedIn[c]
    BY <2>2 DEF CountedIn, Counters, Arrived, Suspended, Ended
  <2> QED
    BY <1>1, <1>4, <2>1, <2>3, MetricsStay DEF InferReturns
<1>5. CASE InferRaises(r)
  <2>1. worker[r] \in Workers /\ Moves(r, worker[r])
    BY <1>5, HandlerMoves DEF IInv, TypeOK, InferRaises, Suspended
  <2>2. phase[r] = "infer" /\ phase'[r] = "failed"
    BY <1>1, <1>5 DEF InferRaises, TypeOK
  <2>3. \A c \in Counters :
           /\ c \in {"error"}
                <=> phase'[r] \in CountedIn[c] /\ phase[r] \notin CountedIn[c]
           /\ c \in {"ACTIVE_REQUESTS"}
                <=> phase'[r] \notin CountedIn[c] /\ phase[r] \in CountedIn[c]
    BY <2>2 DEF CountedIn, Counters, Arrived, Suspended, Ended
  <2> QED
    BY <1>1, <1>5, <2>1, <2>3, MetricsMove DEF InferRaises
<1>6. CASE StoreEntry(r)
  <2>1. worker[r] \in Workers /\ Moves(r, worker[r])
    BY <1>6, HandlerMoves DEF IInv, TypeOK, StoreEntry, Suspended
  <2>2. phase[r] = "store" /\ phase'[r] = "stored"
    BY <1>1, <1>6 DEF StoreEntry, TypeOK
  <2>3. \A c \in Counters : phase'[r] \in CountedIn[c] <=> phase[r] \in CountedIn[c]
    BY <2>2 DEF CountedIn, Counters, Arrived, Suspended, Ended
  <2> QED
    BY <1>1, <1>6, <2>1, <2>3, MetricsStay DEF StoreEntry
<1>7. CASE Respond(r)
  <2>1. worker[r] \in Workers /\ Moves(r, worker[r])
    BY <1>7, HandlerMoves DEF IInv, TypeOK, Respond, Suspended
  <2>2. phase[r] = "stored" /\ phase'[r] = "fresh"
    BY <1>1, <1>7 DEF Respond, TypeOK
  <2>3. \A c \in Counters :
           /\ c \in {"success"}
                <=> phase'[r] \in CountedIn[c] /\ phase[r] \notin CountedIn[c]
           /\ c \in {"ACTIVE_REQUESTS"}
                <=> phase'[r] \notin CountedIn[c] /\ phase[r] \in CountedIn[c]
    BY <2>2 DEF CountedIn, Counters, Arrived, Suspended, Ended
  <2> QED
    BY <1>1, <1>7, <2>1, <2>3, MetricsMove DEF Respond
<1>8. CASE Cancel(r)
  <2>1. worker[r] \in Workers /\ Moves(r, worker[r])
    BY <1>8, HandlerMoves DEF IInv, TypeOK, Cancel
  <2>2. phase[r] \in Suspended /\ phase'[r] = "cancelled"
    BY <1>1, <1>8 DEF Cancel, TypeOK
  <2>3. \A c \in Counters :
           /\ c \in {}
                <=> phase'[r] \in CountedIn[c] /\ phase[r] \notin CountedIn[c]
           /\ c \in {"ACTIVE_REQUESTS"}
                <=> phase'[r] \notin CountedIn[c] /\ phase[r] \in CountedIn[c]
    BY <2>2 DEF CountedIn, Counters, Arrived, Suspended, Ended
  <2> QED
    BY <1>1, <1>8, <2>1, <2>3, MetricsMove DEF Cancel
<1> QED
  BY <1>2, <1>3, <1>4, <1>5, <1>6, <1>7, <1>8 DEF Handler

LEMMA CrashMetrics ==
    ASSUME IInv, MetricsMatchOutcomes, NEW w \in Workers, Crash(w)
    PROVE  MetricsMatchOutcomes'
<1> SUFFICES ASSUME NEW v \in Workers, NEW c \in Counters
             PROVE  metrics'[v][c] = Served(v, CountedIn[c])'
  BY DEF MetricsMatchOutcomes
<1> DEFINE after == {q \in Requests : worker'[q] = v /\ phase'[q] \in CountedIn[c]}
<1>1. Served(v, CountedIn[c])' = Cardinality(after)
  BY DEF Served
<1>2. CASE v = w
  <2>1. after = {}
    BY <1>2, NoneAssumption DEF IInv, TypeOK, Crash
  <2>2. metrics'[v][c] = 0
    BY <1>2 DEF IInv, TypeOK, Crash, NoMetrics
  <2> QED
    BY <1>1, <2>1, <2>2, FS_EmptySet
<1>3. CASE v # w
  <2>1. after = ServedBy(v, CountedIn[c])
    BY <1>3, NoneAssumption DEF IInv, TypeOK, Crash, ServedBy
  <2>2. metrics'[v][c] = metrics[v][c]
    BY <1>3 DEF IInv, TypeOK, Crash
  <2> QED
    BY <1>1, <2>1, <2>2, ServedFinite DEF MetricsMatchOutcomes
<1> QED
  BY <1>2, <1>3

\* In every process the gauge is the number of suspended handlers and each
\* counter the number of requests with its outcome.
THEOREM MetricsAreExact == Spec => []MetricsMatchOutcomes
<1>1. Init => MetricsMatchOutcomes
  <2> SUFFICES ASSUME Init, NEW w \in Workers, NEW c \in Counters
               PROVE  metrics[w][c] = Served(w, CountedIn[c])
    BY DEF MetricsMatchOutcomes
  <2>1. ServedBy(w, CountedIn[c]) = {}
    BY NoneAssumption DEF Init, ServedBy
  <2>2. metrics[w][c] = 0
    BY DEF Init, NoMetrics
  <2> QED
    BY <2>1, <2>2, ServedFinite, FS_EmptySet
<1>2. IInv /\ MetricsMatchOutcomes /\ [Next]_vars => MetricsMatchOutcomes'
  <2> SUFFICES ASSUME IInv, MetricsMatchOutcomes, [Next]_vars
               PROVE  MetricsMatchOutcomes'
    OBVIOUS
  <2>1. CASE UNCHANGED vars
    BY <2>1 DEF MetricsMatchOutcomes, Served, vars
  <2>2. CASE Next
    BY <2>2, ArrivalMetrics, HandlerMetrics, CrashMetrics DEF Next
  <2> QED
    BY <2>1, <2>2
<1> QED
  BY <1>1, <1>2, Invariance, PTL DEF Spec

=============================================================================
