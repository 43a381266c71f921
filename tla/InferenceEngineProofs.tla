------------------------ MODULE InferenceEngineProofs ------------------------
(***************************************************************************)
(* What a call of infer can cost and how it ends, for any number of calls, *)
(* of attempts and of requests per attempt.                                *)
(***************************************************************************)
EXTENDS InferenceEngine, TLAPS

-----------------------------------------------------------------------------
(* The inductive invariant.                                                *)

\* What a call may have sent when n attempts are over.
Allowance(n) == n * (1 + ClientRetries)

\* A call that has not begun.
Untouched(c) ==
    /\ attempt[c] = 0 /\ failed[c] = 0 /\ sent[c] = 0

\* A call in an attempt: those before it have failed.
Attempting(c) ==
    /\ backend = "openai"
    /\ failed[c] = attempt[c]
    /\ attempt[c] < maxRetries
    /\ sent[c] <= Allowance(attempt[c]) + try[c] + 1
    /\ flight[c] # "none"
    /\ flight[c] = "served" => billed[c] > 0

\* A call between two attempts.
Sleeping(c) ==
    /\ backend = "openai"
    /\ failed[c] = attempt[c] + 1
    /\ failed[c] < maxRetries
    /\ sent[c] <= Allowance(failed[c])

CallsTracked ==
    \A c \in Calls :
        /\ at[c] = "idle" => Untouched(c)
        /\ at[c] = "calling" => Attempting(c)
        /\ at[c] = "sleeping" => Sleeping(c)
        /\ at[c] # "calling" => flight[c] = "none"
        /\ at[c] # "returned" => result[c] = "none"
        /\ c \in gone => at[c] = "cancelled"

IInv == TypeOK /\ CallsTracked /\ CostBounded /\ OutcomesAreEarned

-----------------------------------------------------------------------------
LEMMA AllowanceGrows ==
    ASSUME NEW n \in Nat, NEW m \in Nat, n < m
    PROVE  /\ Allowance(n) \in Nat /\ Allowance(m) \in Nat
           /\ Allowance(n + 1) = Allowance(n) + 1 + ClientRetries
           /\ Allowance(n + 1) <= Allowance(m)
<1> DEFINE k == 1 + ClientRetries
<1>1. k \in Nat
  BY RetriesAssumption
<1>2. PICK d \in Nat : m = (n + 1) + d
  <2>1. m - (n + 1) \in Nat /\ m = (n + 1) + (m - (n + 1))
    OBVIOUS
  <2> QED
    BY <2>1
<1> HIDE DEF k
<1>3. n * k \in Nat /\ d * k \in Nat
  BY <1>1, <1>2
<1>4. (n + 1) * k = n * k + k
  BY <1>1
<1>5. m * k = (n + 1) * k + d * k
  BY <1>1, <1>2
<1>6. (n + 1) * k <= m * k
  BY <1>1, <1>3, <1>4, <1>5
<1>7. m * k \in Nat
  BY <1>1
<1>8. k = 1 + ClientRetries
  BY DEF k
<1> QED
  BY <1>1, <1>3, <1>4, <1>6, <1>7, <1>8, RetriesAssumption DEF Allowance

\* A call that goes on to attempt n is within its allowance.
LEMMA AttemptStep ==
    ASSUME IInv, NEW c \in Calls, NEW n \in Nat, Attempt(c, n),
           at[c] \in {"idle", "sleeping"}, backend = "openai",
           failed[c] = n, sent[c] <= Allowance(n), c \notin gone
    PROVE  IInv'
<1>1. maxRetries \in Nat /\ n < maxRetries
  BY RetriesAssumption DEF IInv, TypeOK, Attempt
<1>2. /\ Allowance(n) \in Nat
      /\ Allowance(n + 1) = Allowance(n) + 1 + ClientRetries
      /\ Allowance(n + 1) <= Allowance(maxRetries)
  BY <1>1, AllowanceGrows
<1>3. TypeOK'
  BY RetriesAssumption DEF IInv, TypeOK, Attempt, Send, engine, Suspended
<1>4. flight[c] = "none" /\ result[c] = "none"
  BY DEF IInv, CallsTracked
<1>5. CallsTracked'
  BY <1>1, <1>2, <1>4, RetriesAssumption
     DEF IInv, TypeOK, CallsTracked, Untouched, Attempting, Sleeping, Attempt,
         Send, engine, Allowance
<1>6. CostBounded'
  <2>1. sent[c] + 1 <= maxRetries * (1 + ClientRetries)
    BY <1>2, RetriesAssumption DEF IInv, TypeOK, Allowance
  <2> QED
    BY <1>4, <2>1 DEF IInv, TypeOK, CostBounded, Attempt, Send, engine
<1>7. OutcomesAreEarned'
  BY <1>4 DEF IInv, TypeOK, OutcomesAreEarned, Attempt, Send, engine
<1> QED
  BY <1>3, <1>5, <1>6, <1>7 DEF IInv

LEMMA BeginStep ==
    ASSUME IInv, NEW c \in Calls, Begin(c)
    PROVE  IInv'
<1>1. failed[c] = 0 /\ sent[c] = 0 /\ c \notin gone
  BY DEF IInv, CallsTracked, Untouched, Begin
<1>2. sent[c] <= Allowance(0)
  BY <1>1, RetriesAssumption DEF Allowance
<1> QED
  BY <1>1, <1>2, AttemptStep DEF Begin

LEMMA WakeStep ==
    ASSUME IInv, NEW c \in Calls, Wake(c)
    PROVE  IInv'
<1>1. /\ backend = "openai" /\ c \notin gone
      /\ failed[c] = attempt[c] + 1 /\ sent[c] <= Allowance(failed[c])
  BY DEF IInv, CallsTracked, Sleeping, Wake
<1>2. attempt[c] + 1 \in Nat
  BY DEF IInv, TypeOK
<1> QED
  BY <1>1, <1>2, AttemptStep DEF Wake

-----------------------------------------------------------------------------
(* Calls that make no request of their own.                                *)

LEMMA LeaveLoopStep ==
    ASSUME IInv, NEW c \in Calls, LeaveLoop(c)
    PROVE  IInv'
<1>1. maxRetries \in Nat
  BY RetriesAssumption DEF IInv, TypeOK
<1>2. at[c] = "idle" /\ maxRetries = 0
  BY <1>1 DEF IInv, TypeOK, CallsTracked, Sleeping, LeaveLoop
<1>3. TypeOK'
  BY DEF IInv, TypeOK, LeaveLoop, Return, engine, provider, Ended
<1>4. CallsTracked'
  BY <1>2 DEF IInv, TypeOK, CallsTracked, Untouched, Attempting, Sleeping,
              LeaveLoop, Return, engine, provider, Allowance
<1>5. CostBounded'
  BY DEF IInv, CostBounded, LeaveLoop, Return, engine, provider
<1>6. OutcomesAreEarned'
  BY <1>2 DEF IInv, TypeOK, OutcomesAreEarned, LeaveLoop, Return, engine, provider
<1> QED
  BY <1>3, <1>4, <1>5, <1>6 DEF IInv

LEMMA BeginWithoutClientStep ==
    ASSUME IInv, NEW c \in Calls, BeginWithoutClient(c)
    PROVE  IInv'
<1>1. TypeOK'
  BY DEF IInv, TypeOK, BeginWithoutClient, engine, provider, Ended
<1>2. CallsTracked'
  BY DEF IInv, TypeOK, CallsTracked, Untouched, Attempting, Sleeping,
         BeginWithoutClient, engine, provider, Allowance
<1>3. CostBounded'
  BY DEF IInv, CostBounded, BeginWithoutClient, engine, provider
<1>4. OutcomesAreEarned'
  BY DEF IInv, TypeOK, OutcomesAreEarned, BeginWithoutClient, engine, provider
<1> QED
  BY <1>1, <1>2, <1>3, <1>4 DEF IInv

LEMMA BeginMockStep ==
    ASSUME IInv, NEW c \in Calls, BeginMock(c)
    PROVE  IInv'
<1>1. TypeOK'
  BY DEF IInv, TypeOK, BeginMock, engine, provider, Suspended
<1>2. CallsTracked'
  BY DEF IInv, TypeOK, CallsTracked, Untouched, Attempting, Sleeping,
         BeginMock, engine, provider, Allowance
<1>3. CostBounded'
  BY DEF IInv, CostBounded, BeginMock, engine, provider
<1>4. OutcomesAreEarned'
  BY DEF IInv, TypeOK, OutcomesAreEarned, BeginMock, engine, provider
<1> QED
  BY <1>1, <1>2, <1>3, <1>4 DEF IInv

LEMMA MockReturnsStep ==
    ASSUME IInv, NEW c \in Calls, MockReturns(c)
    PROVE  IInv'
<1>1. TypeOK'
  BY DEF IInv, TypeOK, MockReturns, Return, engine, provider, Ended
<1>2. CallsTracked'
  BY DEF IInv, TypeOK, CallsTracked, Untouched, Attempting, Sleeping,
         MockReturns, Return, engine, provider, Allowance
<1>3. CostBounded'
  BY DEF IInv, CostBounded, MockReturns, Return, engine, provider
<1>4. OutcomesAreEarned'
  BY DEF IInv, TypeOK, OutcomesAreEarned, MockReturns, Return, engine, provider
<1> QED
  BY <1>1, <1>2, <1>3, <1>4 DEF IInv

-----------------------------------------------------------------------------
(* The provider completes what it was sent.                                *)

LEMMA ServeStep ==
    ASSUME IInv, NEW c \in Calls, Serve(c)
    PROVE  IInv'
<1>1. TypeOK'
  BY DEF IInv, TypeOK, Serve, engine, progress
<1>2. CallsTracked'
  BY DEF IInv, TypeOK, CallsTracked, Untouched, Attempting, Sleeping,
         Serve, engine, progress, Allowance
<1>3. CostBounded'
  BY DEF IInv, TypeOK, CostBounded, Serve, engine, progress
<1>4. OutcomesAreEarned'
  BY DEF IInv, TypeOK, OutcomesAreEarned, Serve, engine, progress
<1> QED
  BY <1>1, <1>2, <1>3, <1>4 DEF IInv

LEMMA ServeLateStep ==
    ASSUME IInv, NEW c \in Calls, ServeLate(c)
    PROVE  IInv'
<1>1. TypeOK'
  BY DEF IInv, TypeOK, ServeLate, engine, progress
<1>2. CallsTracked'
  BY DEF IInv, TypeOK, CallsTracked, Untouched, Attempting, Sleeping,
         ServeLate, engine, progress, Allowance
<1>3. CostBounded'
  BY DEF IInv, TypeOK, CostBounded, ServeLate, engine, progress
<1>4. OutcomesAreEarned'
  BY DEF IInv, TypeOK, OutcomesAreEarned, ServeLate, engine, progress
<1> QED
  BY <1>1, <1>2, <1>3, <1>4 DEF IInv

-----------------------------------------------------------------------------
(* An attempt goes on or ends.                                             *)

\* A request given up is counted once: as late, or not at all.
LEMMA GiveUpCounts ==
    ASSUME TypeOK, CostBounded, NEW c \in Calls, GiveUp(c)
    PROVE  /\ late' \in [Calls -> Nat]
           /\ \A d \in Calls : d # c => late'[d] = late[d]
           /\ billed[c] + late'[c] <= sent[c]
BY DEF TypeOK, CostBounded, GiveUp

LEMMA ClientRetryStep ==
    ASSUME IInv, NEW c \in Calls, ClientRetry(c)
    PROVE  IInv'
<1>1. /\ late' \in [Calls -> Nat]
      /\ \A d \in Calls : d # c => late'[d] = late[d]
      /\ billed[c] + late'[c] <= sent[c]
  BY GiveUpCounts DEF IInv, ClientRetry
<1>2. attempt[c] \in Nat /\ maxRetries \in Nat /\ attempt[c] < maxRetries
  BY RetriesAssumption DEF IInv, TypeOK, CallsTracked, Attempting, ClientRetry
<1>3. /\ Allowance(attempt[c]) \in Nat /\ Allowance(maxRetries) \in Nat
      /\ Allowance(attempt[c] + 1) = Allowance(attempt[c]) + 1 + ClientRetries
      /\ Allowance(attempt[c] + 1) <= Allowance(maxRetries)
  BY <1>2, AllowanceGrows
<1>4. /\ sent[c] \in Nat /\ try[c] \in Nat /\ try[c] < ClientRetries
      /\ sent[c] <= Allowance(attempt[c]) + try[c] + 1
  BY RetriesAssumption DEF IInv, TypeOK, CallsTracked, Attempting, ClientRetry
<1>5. TypeOK'
  <2>1. try[c] + 1 \in 0..ClientRetries
    BY <1>4, RetriesAssumption
  <2>2. try' \in [Calls -> 0..ClientRetries]
    BY <2>1 DEF IInv, TypeOK, ClientRetry
  <2> QED
    BY <1>1, <2>2 DEF IInv, TypeOK, ClientRetry, Send, engine
<1>6. CallsTracked'
  BY <1>4, RetriesAssumption
     DEF IInv, TypeOK, CallsTracked, Untouched, Attempting, Sleeping,
         ClientRetry, Send, engine, Allowance
<1>7. CostBounded'
  <2>1. sent[c] + 1 <= Allowance(maxRetries)
    BY <1>3, <1>4, RetriesAssumption
  <2> SUFFICES ASSUME NEW d \in Calls
               PROVE  /\ sent'[d] <= Allowance(maxRetries)
                      /\ billed'[d] + late'[d]
                           + (IF flight'[d] = "open" THEN 1 ELSE 0) <= sent'[d]
    BY DEF CostBounded, Allowance, ClientRetry, engine
  <2>2. CASE d = c
    <3>1. /\ sent'[c] = sent[c] + 1 /\ billed'[c] = billed[c] /\ flight'[c] = "open"
          /\ sent[c] \in Nat /\ billed[c] \in Nat /\ late'[c] \in Nat
      BY <1>1 DEF IInv, TypeOK, ClientRetry, Send
    <3>2. (IF flight'[c] = "open" THEN 1 ELSE 0) = 1
      BY <3>1
    <3>3. billed'[c] + late'[c] + 1 <= sent'[c]
      BY <1>1, <3>1
    <3> QED
      BY <2>1, <2>2, <3>1, <3>2, <3>3
  <2>3. CASE d # c
    BY <1>1, <2>3 DEF IInv, TypeOK, CostBounded, ClientRetry, Send, Allowance
  <2> QED
    BY <2>2, <2>3
<1>8. OutcomesAreEarned'
  BY DEF IInv, TypeOK, OutcomesAreEarned, ClientRetry, Send, engine
<1> QED
  BY <1>5, <1>6, <1>7, <1>8 DEF IInv

LEMMA FailStep ==
    ASSUME IInv, NEW c \in Calls, Fail(c)
    PROVE  IInv'
<1>1. /\ late' \in [Calls -> Nat]
      /\ \A d \in Calls : d # c => late'[d] = late[d]
      /\ billed[c] + late'[c] <= sent[c]
  BY GiveUpCounts DEF IInv, Fail
<1>2. /\ attempt[c] \in Nat /\ maxRetries \in Nat /\ attempt[c] < maxRetries
      /\ failed[c] = attempt[c] /\ backend = "openai"
  BY RetriesAssumption DEF IInv, TypeOK, CallsTracked, Attempting, Fail
<1>3. sent[c] <= Allowance(attempt[c] + 1)
  <2>1. /\ Allowance(attempt[c]) \in Nat
        /\ Allowance(attempt[c] + 1) = Allowance(attempt[c]) + 1 + ClientRetries
    BY <1>2, AllowanceGrows
  <2>2. /\ sent[c] \in Nat /\ try[c] \in 0..ClientRetries
        /\ sent[c] <= Allowance(attempt[c]) + try[c] + 1
    BY DEF IInv, TypeOK, CallsTracked, Attempting, Fail
  <2> QED
    BY <2>1, <2>2, RetriesAssumption
<1>4. TypeOK'
  <2>1. at' \in [Calls -> {"idle"} \cup Suspended \cup Ended]
    BY DEF IInv, TypeOK, Fail, Suspended, Ended
  <2> QED
    BY <1>1, <2>1 DEF IInv, TypeOK, Fail, engine
<1>5. CallsTracked'
  BY <1>2, <1>3
     DEF IInv, TypeOK, CallsTracked, Untouched, Attempting, Sleeping, Fail,
         engine, Allowance
<1>6. CostBounded'
  <2> SUFFICES ASSUME NEW d \in Calls
               PROVE  /\ sent'[d] <= Allowance(maxRetries)
                      /\ billed'[d] + late'[d]
                           + (IF flight'[d] = "open" THEN 1 ELSE 0) <= sent'[d]
    BY DEF CostBounded, Allowance, Fail, engine
  <2>1. sent'[d] <= Allowance(maxRetries)
    BY DEF IInv, CostBounded, Allowance, Fail
  <2>2. CASE d = c
    <3>1. /\ sent'[c] = sent[c] /\ billed'[c] = billed[c] /\ flight'[c] = "none"
          /\ sent[c] \in Nat /\ billed[c] \in Nat /\ late'[c] \in Nat
      BY <1>1 DEF IInv, TypeOK, Fail
    <3>2. (IF flight'[c] = "open" THEN 1 ELSE 0) = 0
      BY <3>1
    <3>3. billed'[c] + late'[c] + 0 <= sent'[c]
      BY <1>1, <3>1
    <3> QED
      BY <2>1, <2>2, <3>2, <3>3
  <2>3. CASE d # c
    BY <1>1, <2>1, <2>3 DEF IInv, TypeOK, CostBounded, Fail
  <2> QED
    BY <2>2, <2>3
<1>7. OutcomesAreEarned'
  BY <1>2 DEF IInv, TypeOK, CallsTracked, OutcomesAreEarned, Fail, engine
<1> QED
  BY <1>4, <1>5, <1>6, <1>7 DEF IInv

LEMMA SucceedStep ==
    ASSUME IInv, NEW c \in Calls, Succeed(c)
    PROVE  IInv'
<1>1. /\ backend = "openai" /\ failed[c] = attempt[c]
      /\ attempt[c] < maxRetries /\ billed[c] > 0
  BY DEF IInv, CallsTracked, Attempting, Succeed
<1>2. TypeOK'
  BY DEF IInv, TypeOK, Succeed, Return, engine, Ended
<1>3. CallsTracked'
  BY <1>1 DEF IInv, TypeOK, CallsTracked, Untouched, Attempting, Sleeping,
              Succeed, Return, engine, Allowance
<1>4. CostBounded'
  BY DEF IInv, TypeOK, CostBounded, Succeed, Return, engine
<1>5. OutcomesAreEarned'
  BY <1>1 DEF IInv, TypeOK, OutcomesAreEarned, Succeed, Return, engine
<1> QED
  BY <1>2, <1>3, <1>4, <1>5 DEF IInv

LEMMA CancelStep ==
    ASSUME IInv, NEW c \in Calls, Cancel(c)
    PROVE  IInv'
<1>1. /\ late' \in [Calls -> Nat]
      /\ \A d \in Calls : d # c => late'[d] = late[d]
      /\ billed[c] + late'[c] <= sent[c]
  BY GiveUpCounts DEF IInv, Cancel
<1>2. TypeOK'
  BY <1>1 DEF IInv, TypeOK, Cancel, engine, Ended
<1>3. CallsTracked'
  BY DEF IInv, TypeOK, CallsTracked, Untouched, Attempting, Sleeping, Cancel,
         engine, Allowance, Suspended
<1>4. CostBounded'
  <2> SUFFICES ASSUME NEW d \in Calls
               PROVE  /\ sent'[d] <= Allowance(maxRetries)
                      /\ billed'[d] + late'[d]
                           + (IF flight'[d] = "open" THEN 1 ELSE 0) <= sent'[d]
    BY DEF CostBounded, Allowance, Cancel, engine
  <2>1. sent'[d] <= Allowance(maxRetries)
    BY DEF IInv, CostBounded, Allowance, Cancel
  <2>2. CASE d = c
    <3>1. /\ sent'[c] = sent[c] /\ billed'[c] = billed[c] /\ flight'[c] = "none"
          /\ sent[c] \in Nat /\ billed[c] \in Nat /\ late'[c] \in Nat
      BY <1>1 DEF IInv, TypeOK, Cancel
    <3>2. (IF flight'[c] = "open" THEN 1 ELSE 0) = 0
      BY <3>1
    <3>3. billed'[c] + late'[c] + 0 <= sent'[c]
      BY <1>1, <3>1
    <3> QED
      BY <2>1, <2>2, <3>2, <3>3
  <2>3. CASE d # c
    BY <1>1, <2>1, <2>3 DEF IInv, TypeOK, CostBounded, Cancel
  <2> QED
    BY <2>2, <2>3
<1>5. OutcomesAreEarned'
  BY DEF IInv, TypeOK, OutcomesAreEarned, Cancel, engine
<1> QED
  BY <1>2, <1>3, <1>4, <1>5 DEF IInv

-----------------------------------------------------------------------------
(* The theorems.                                                           *)

LEMMA InitInvariant == Init => IInv
<1> SUFFICES ASSUME Init PROVE IInv
  OBVIOUS
<1>1. maxRetries \in Nat /\ ClientRetries \in Nat
  BY RetriesAssumption DEF Init
<1>2. 0 <= maxRetries * (1 + ClientRetries)
  <2> DEFINE k == 1 + ClientRetries
  <2>1. k \in Nat
    BY <1>1
  <2> HIDE DEF k
  <2>2. 0 <= maxRetries * k
    BY <1>1, <2>1
  <2> QED
    BY <2>2 DEF k
<1>3. TypeOK
  BY <1>1 DEF Init, TypeOK
<1>4. CallsTracked
  BY DEF Init, CallsTracked, Untouched
<1>5. CostBounded
  <2> SUFFICES ASSUME NEW c \in Calls
               PROVE  /\ sent[c] <= maxRetries * (1 + ClientRetries)
                      /\ billed[c] + late[c]
                           + (IF flight[c] = "open" THEN 1 ELSE 0) <= sent[c]
    BY DEF CostBounded
  <2>1. sent[c] = 0 /\ billed[c] = 0 /\ late[c] = 0 /\ flight[c] = "none"
    BY DEF Init
  <2>2. (IF flight[c] = "open" THEN 1 ELSE 0) = 0
    BY <2>1
  <2>3. billed[c] + late[c] + 0 <= sent[c]
    BY <2>1
  <2>4. sent[c] <= maxRetries * (1 + ClientRetries)
    BY <1>2, <2>1
  <2> QED
    BY <2>2, <2>3, <2>4
<1>6. OutcomesAreEarned
  BY DEF Init, OutcomesAreEarned
<1> QED
  BY <1>3, <1>4, <1>5, <1>6 DEF IInv

LEMMA NextInvariant == IInv /\ [Next]_vars => IInv'
<1> SUFFICES ASSUME IInv, [Next]_vars PROVE IInv'
  OBVIOUS
<1>1. CASE UNCHANGED vars
  BY <1>1 DEF IInv, TypeOK, CallsTracked, Untouched, Attempting, Sleeping,
              Allowance, CostBounded, OutcomesAreEarned, vars, engine,
              progress, provider
<1>2. CASE Next
  <2>1. PICK c \in Calls :
            \/ Begin(c) \/ BeginWithoutClient(c) \/ BeginMock(c) \/ LeaveLoop(c)
            \/ Continue(c) \/ Cancel(c)
            \/ Serve(c) \/ ServeLate(c)
    BY <1>2 DEF Next
  <2>2. CASE Begin(c)
    BY <2>2, BeginStep
  <2>3. CASE BeginWithoutClient(c)
    BY <2>3, BeginWithoutClientStep
  <2>4. CASE BeginMock(c)
    BY <2>4, BeginMockStep
  <2>5. CASE LeaveLoop(c)
    BY <2>5, LeaveLoopStep
  <2>6. CASE Continue(c)
    BY <2>6, MockReturnsStep, ClientRetryStep, FailStep, SucceedStep, WakeStep
       DEF Continue
  <2>7. CASE Cancel(c)
    BY <2>7, CancelStep
  <2>8. CASE Serve(c)
    BY <2>8, ServeStep
  <2>9. CASE ServeLate(c)
    BY <2>9, ServeLateStep
  <2> QED
    BY <2>1, <2>2, <2>3, <2>4, <2>5, <2>6, <2>7, <2>8, <2>9
<1> QED
  BY <1>1, <1>2

\* The inductive invariant: IInv holds in every state of the engine.
THEOREM Invariance == Spec => []IInv
BY InitInvariant, NextInvariant, PTL DEF Spec

\* The state of infer and of its requests keeps its type.
THEOREM TypeCorrect == Spec => []TypeOK
<1>1. IInv => TypeOK
  BY DEF IInv
<1> QED
  BY <1>1, Invariance, PTL

\* One call of infer never sends more than max_retries times the requests of one
\* attempt, and is billed for no request twice.
THEOREM CostStaysBounded == Spec => []CostBounded
<1>1. IInv => CostBounded
  BY DEF IInv
<1> QED
  BY <1>1, Invariance, PTL

\* infer raises only with every attempt used up, and returns an answer only from
\* the first attempt that did not fail.
THEOREM OutcomesStayEarned == Spec => []OutcomesAreEarned
<1>1. IInv => OutcomesAreEarned
  BY DEF IInv
<1> QED
  BY <1>1, Invariance, PTL

\* The cancellation of a call of infer stops its requests for good.
THEOREM CancelledCallsStaySilent == Spec => NothingSentForTheGone
<1>1. IInv /\ [Next]_vars => [\A c \in gone : sent'[c] = sent[c]]_vars
  <2> SUFFICES ASSUME IInv, Next, NEW c \in gone
               PROVE  sent'[c] = sent[c]
    BY DEF vars
  <2>1. c \in Calls /\ at[c] = "cancelled" /\ sent \in [Calls -> Nat]
    BY DEF IInv, TypeOK, CallsTracked
  <2>2. PICK d \in Calls :
            \/ Begin(d) \/ BeginWithoutClient(d) \/ BeginMock(d) \/ LeaveLoop(d)
            \/ Continue(d) \/ Cancel(d)
            \/ Serve(d) \/ ServeLate(d)
    BY DEF Next
  <2>3. CASE Begin(d)
    BY <2>1, <2>3 DEF Begin, Attempt, Send
  <2>4. CASE Continue(d)
    BY <2>1, <2>4 DEF Continue, MockReturns, ClientRetry, Fail, Succeed, Wake,
                      Attempt, Send, Return, provider
  <2>5. CASE Cancel(d) \/ Serve(d) \/ ServeLate(d)
    BY <2>5 DEF Cancel, Serve, ServeLate
  <2>6. CASE BeginWithoutClient(d) \/ BeginMock(d) \/ LeaveLoop(d)
    BY <2>6 DEF BeginWithoutClient, BeginMock, LeaveLoop, provider
  <2> QED
    BY <2>2, <2>3, <2>4, <2>5, <2>6
<1> QED
  BY <1>1, Invariance, PTL DEF Spec, NothingSentForTheGone

=============================================================================
