--------------------------- MODULE MCInferenceEngine ---------------------------
(* The defaults of DEFAULT_MAX_RETRIES and of AsyncOpenAI.  Calls have nothing *)
(* in common but the backend, so one is enough.                                *)
EXTENDS InferenceEngine
================================================================================
