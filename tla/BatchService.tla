----------------------------- MODULE BatchService -----------------------------
(***************************************************************************)
(* What a caller of BatchProcessor.submit may rely on: its prompt is given *)
(* to the engine at most once, in a batch of bounded size, and the call    *)
(* ends with the outcome of that very inference unless the caller gives    *)
(* up first.  Queue, priorities, loops and shutdown are left to the        *)
(* implementation, and so is whether an answer ever comes.                 *)
(***************************************************************************)
EXTENDS Naturals, FiniteSets

CONSTANTS
    Requests,   \* calls of submit
    BatchSize   \* batch_size

VARIABLES
    work,       \* what has been done about each prompt
    caller,     \* how its call of submit stands
    told        \* whose outcomes its caller was told of, and which

vars == <<work, caller, told>>

Init ==
    /\ work   = [r \in Requests |-> "new"]
    /\ caller = [r \in Requests |-> "idle"]
    /\ told   = [r \in Requests |-> {}]

\* The prompt is handed over and the caller waits.
Submit(r) ==
    /\ caller[r] = "idle"
    /\ work'   = [work EXCEPT ![r] = "queued"]
    /\ caller' = [caller EXCEPT ![r] = "waiting"]
    /\ UNCHANGED told

\* A batch of queued prompts goes to the engine.
Begin(batch) ==
    /\ batch # {} /\ Cardinality(batch) <= BatchSize
    /\ \A r \in batch : work[r] = "queued"
    /\ work' = [r \in Requests |-> IF r \in batch THEN "running" ELSE work[r]]
    /\ UNCHANGED <<caller, told>>

\* The engine has answered, or failed.
Finish(r) ==
    /\ work[r] = "running"
    /\ \E outcome \in {"ok", "failed"} : work' = [work EXCEPT ![r] = outcome]
    /\ UNCHANGED <<caller, told>>

\* submit returns the engine's result for its own prompt, or raises the exception
\* that the engine raised for it.
Return(r) ==
    /\ caller[r] = "waiting"
    /\ \/ work[r] = "ok"     /\ caller' = [caller EXCEPT ![r] = "returned"]
       \/ work[r] = "failed" /\ caller' = [caller EXCEPT ![r] = "raised"]
    /\ told' = [told EXCEPT ![r] = {[of |-> r, ok |-> work[r] = "ok"]}]
    /\ UNCHANGED work

\* The caller is cancelled while it waits.
Withdraw(r) ==
    /\ caller[r] = "waiting"
    /\ caller' = [caller EXCEPT ![r] = "cancelled"]
    /\ UNCHANGED <<work, told>>

Next ==
    \/ \E r \in Requests : Submit(r) \/ Finish(r) \/ Return(r) \/ Withdraw(r)
    \/ \E batch \in SUBSET Requests : Begin(batch)

Spec == Init /\ [][Next]_vars
=============================================================================
