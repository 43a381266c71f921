---------------------------- MODULE InferenceEngine ----------------------------
(***************************************************************************)
(* inference/engine.py: LLMEngine.infer and the two backends it picks from *)
(* by the environment.  MockEngine answers after one turn of the event     *)
(* loop; OpenAIEngine tries up to max_retries times, sleeping in between.  *)
(*                                                                         *)
(* An attempt is one call of AsyncOpenAI, whose client sends a request     *)
(* again by itself when it fails in a way that may pass.  The provider     *)
(* works on what it was sent whether or not the client still waits for it, *)
(* and bills what it completes.                                            *)
(***************************************************************************)
EXTENDS Integers

CONSTANTS
    Calls,         \* calls of infer
    RetryChoices,  \* what max_retries of an OpenAIEngine may be
    ClientRetries  \* max_retries of AsyncOpenAI, which the engine leaves alone

ASSUME RetriesAssumption == RetryChoices \subseteq Nat /\ ClientRetries \in Nat

VARIABLES
    backend,     \* what __init__ and the import of openai find
    maxRetries,  \* self.max_retries
    at,          \* where each call is suspended, or how it ended
    attempt,     \* the loop variable
    try,         \* how often the client has sent this attempt's request again
    failed,      \* history: attempts that ended in an exception
    result,      \* what was returned
    gone,        \* history: the calls whose task was cancelled
    flight,      \* the request the client waits for
    late,        \* requests given up that the provider may still complete
    sent,        \* requests sent
    billed       \* requests completed by the provider

engine == <<backend, maxRetries>>
progress == <<at, attempt, try, failed, result, gone>>
provider == <<flight, late, sent, billed>>
vars == <<engine, progress, provider>>

-----------------------------------------------------------------------------
Suspended == {"yielding", "calling", "sleeping"}
Ended == {"returned", "raised", "cancelled"}

Init ==
    /\ backend \in {"mock", "openai", "missing"}
    /\ maxRetries \in RetryChoices
    /\ at      = [c \in Calls |-> "idle"]
    /\ attempt = [c \in Calls |-> 0]
    /\ try     = [c \in Calls |-> 0]
    /\ failed  = [c \in Calls |-> 0]
    /\ result  = [c \in Calls |-> "none"]
    /\ gone    = {}
    /\ flight  = [c \in Calls |-> "none"]
    /\ late    = [c \in Calls |-> 0]
    /\ sent    = [c \in Calls |-> 0]
    /\ billed  = [c \in Calls |-> 0]

Send(c) ==
    /\ flight' = [flight EXCEPT ![c] = "open"]
    /\ sent'   = [sent EXCEPT ![c] = @ + 1]

Return(c, what) ==
    /\ at'     = [at EXCEPT ![c] = "returned"]
    /\ result' = [result EXCEPT ![c] = what]

\* The n-th attempt of `for attempt in range(max_retries)`.
Attempt(c, n) ==
    /\ n < maxRetries
    /\ at'      = [at EXCEPT ![c] = "calling"]
    /\ attempt' = [attempt EXCEPT ![c] = n]
    /\ try'     = [try EXCEPT ![c] = 0]
    /\ Send(c)
    /\ UNCHANGED <<engine, failed, result, gone, late, billed>>

Begin(c) ==
    /\ at[c] = "idle"
    /\ backend = "openai"
    /\ Attempt(c, 0)

\* No attempt is left: the line behind the loop.
LeaveLoop(c) ==
    /\ \/ at[c] = "idle" /\ backend = "openai" /\ 0 >= maxRetries
       \/ at[c] = "sleeping" /\ attempt[c] + 1 >= maxRetries
    /\ Return(c, "empty")
    /\ UNCHANGED <<engine, attempt, try, failed, gone, provider>>

\* _get_client raises before the loop.
BeginWithoutClient(c) ==
    /\ at[c] = "idle"
    /\ backend = "missing"
    /\ at' = [at EXCEPT ![c] = "raised"]
    /\ UNCHANGED <<engine, attempt, try, failed, result, gone, provider>>

BeginMock(c) ==
    /\ at[c] = "idle"
    /\ backend = "mock"
    /\ at' = [at EXCEPT ![c] = "yielding"]
    /\ UNCHANGED <<engine, attempt, try, failed, result, gone, provider>>

MockReturns(c) ==
    /\ at[c] = "yielding"
    /\ Return(c, "canned")
    /\ UNCHANGED <<engine, attempt, try, failed, gone, provider>>

-----------------------------------------------------------------------------
(* The provider.                                                           *)

Serve(c) ==
    /\ flight[c] = "open"
    /\ flight' = [flight EXCEPT ![c] = "served"]
    /\ billed' = [billed EXCEPT ![c] = @ + 1]
    /\ UNCHANGED <<engine, progress, late, sent>>

ServeLate(c) ==
    /\ late[c] > 0
    /\ late'   = [late EXCEPT ![c] = @ - 1]
    /\ billed' = [billed EXCEPT ![c] = @ + 1]
    /\ UNCHANGED <<engine, progress, flight, sent>>

-----------------------------------------------------------------------------
(* An attempt.                                                             *)

GiveUp_AnsweredOnly(c) == flight[c] = "served" /\ UNCHANGED late

\* Nobody waits for a request any more (time-out, lost connection, refusal,
\* cancellation); unless it was refused, an open one may still be completed.
GiveUp(c) ==
    \/ UNCHANGED late
    \/ flight[c] = "open" /\ late' = [late EXCEPT ![c] = @ + 1]

ClientRetry_OneTooMany(c) ==
    /\ at[c] = "calling"
    /\ try[c] <= ClientRetries
    /\ GiveUp(c)
    /\ Send(c)
    /\ try' = [try EXCEPT ![c] = @ + 1]
    /\ UNCHANGED <<engine, at, attempt, failed, result, gone, billed>>

\* AsyncOpenAI sends the request again.
ClientRetry(c) ==
    /\ at[c] = "calling"
    /\ try[c] < ClientRetries
    /\ GiveUp(c)
    /\ Send(c)
    /\ try' = [try EXCEPT ![c] = @ + 1]
    /\ UNCHANGED <<engine, at, attempt, failed, result, gone, billed>>

Fail_OneTooMany(c) ==
    /\ at[c] = "calling"
    /\ GiveUp(c)
    /\ failed' = [failed EXCEPT ![c] = @ + 1]
    /\ at' = [at EXCEPT ![c] = IF attempt[c] < maxRetries
                               THEN "sleeping" ELSE "raised"]
    /\ flight' = [flight EXCEPT ![c] = "none"]
    /\ UNCHANGED <<engine, attempt, try, result, gone, sent, billed>>

\* The attempt ends in an exception: raised by AsyncOpenAI, or, the provider
\* having answered, by what the engine reads from the completion.
Fail(c) ==
    /\ at[c] = "calling"
    /\ GiveUp(c)
    /\ failed' = [failed EXCEPT ![c] = @ + 1]
    /\ at' = [at EXCEPT ![c] = IF attempt[c] < maxRetries - 1
                               THEN "sleeping" ELSE "raised"]
    /\ flight' = [flight EXCEPT ![c] = "none"]
    /\ UNCHANGED <<engine, attempt, try, result, gone, sent, billed>>

\* The completion arrives and is what the engine expects.
Succeed(c) ==
    /\ at[c] = "calling"
    /\ flight[c] = "served"
    /\ Return(c, "answer")
    /\ flight' = [flight EXCEPT ![c] = "none"]
    /\ UNCHANGED <<engine, attempt, try, failed, gone, late, sent, billed>>

\* asyncio.sleep(2 ** attempt) ends.
Wake(c) ==
    /\ at[c] = "sleeping"
    /\ Attempt(c, attempt[c] + 1)

Cancel_Retried(c) ==
    /\ at[c] \in Suspended
    /\ GiveUp(c)
    /\ at'     = [at EXCEPT ![c] = IF attempt[c] < maxRetries - 1
                                   THEN "sleeping" ELSE "cancelled"]
    /\ gone'   = gone \cup {c}
    /\ flight' = [flight EXCEPT ![c] = "none"]
    /\ UNCHANGED <<engine, attempt, try, failed, result, sent, billed>>

\* The caller's task is cancelled: `except Exception` does not hold it up.
Cancel(c) ==
    /\ at[c] \in Suspended
    /\ GiveUp(c)
    /\ at'     = [at EXCEPT ![c] = "cancelled"]
    /\ gone'   = gone \cup {c}
    /\ flight' = [flight EXCEPT ![c] = "none"]
    /\ UNCHANGED <<engine, attempt, try, failed, result, sent, billed>>

Continue(c) ==
    \/ MockReturns(c)
    \/ ClientRetry(c) \/ Fail(c) \/ Succeed(c) \/ Wake(c)

Next == \E c \in Calls :
    \/ Begin(c) \/ BeginWithoutClient(c) \/ BeginMock(c) \/ LeaveLoop(c)
    \/ Continue(c) \/ Cancel(c)
    \/ Serve(c) \/ ServeLate(c)

Spec == Init /\ [][Next]_vars

\* A request that is not answered times out (timeout is given to the client) and
\* a sleep ends.  The provider owes nothing.
FairSpec == Spec /\ \A c \in Calls : WF_vars(Continue(c))

-----------------------------------------------------------------------------
(* Properties.                                                             *)

TypeOK ==
    /\ backend \in {"mock", "openai", "missing"}
    /\ maxRetries \in RetryChoices
    /\ at      \in [Calls -> {"idle"} \cup Suspended \cup Ended]
    /\ attempt \in [Calls -> Nat]
    /\ try     \in [Calls -> 0..ClientRetries]
    /\ failed  \in [Calls -> Nat]
    /\ result  \in [Calls -> {"none", "answer", "canned", "empty"}]
    /\ gone    \subseteq Calls
    /\ flight  \in [Calls -> {"none", "open", "served"}]
    /\ late    \in [Calls -> Nat]
    /\ sent    \in [Calls -> Nat]
    /\ billed  \in [Calls -> Nat]

\* The two layers of retries multiply and do no worse: however late the provider
\* is, one call of infer costs at most this many completions, and no more than it
\* sent requests.
CostBounded ==
    \A c \in Calls :
        /\ sent[c] <= maxRetries * (1 + ClientRetries)
        /\ billed[c] + late[c] + (IF flight[c] = "open" THEN 1 ELSE 0) <= sent[c]

\* infer raises only when it has failed max_retries times (or has no client), and
\* what it returns is the completion of the first attempt that did not fail.
OutcomesAreEarned ==
    \A c \in Calls :
        /\ at[c] = "raised" => backend = "missing" \/ failed[c] = maxRetries
        /\ result[c] = "answer" =>
              failed[c] = attempt[c] /\ failed[c] < maxRetries /\ billed[c] > 0
        /\ result[c] = "empty" => maxRetries = 0

\* A cancelled call sends nothing more to the provider.
NothingSentForTheGone ==
    [][\A c \in gone : sent'[c] = sent[c]]_vars

\* Even if the provider does nothing at all, every call comes to an end (the client's
\* time-out is one of silence: answers that trickle in are not considered).
EveryCallEnds ==
    \A c \in Calls : at[c] \in Suspended ~> at[c] \in Ended

\* "Unreachable, satisfies type checker": the line behind the loop.
LastLineUnreachable ==
    \A c \in Calls : result[c] # "empty"

=============================================================================
