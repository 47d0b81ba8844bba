-------------------------------- MODULE Llm ---------------------------------
(***************************************************************************)
(* A step of the model through the CLI provider: RetryingBackend           *)
(* (app/llm/retry.py) around ClaudeCLIBackend (app/llm/cli.py), which runs *)
(* one process per step under a semaphore; and what this provider and      *)
(* that of app/llm/api.py make of an error.                                *)
(*                                                                         *)
(* The process is external: it answers, fails, or goes on past the time    *)
(* limit.  A step is cancelled with its task: the lease is lost, another   *)
(* investigator failed, the worker stops.                                  *)
(***************************************************************************)
EXTENDS Naturals, FiniteSets

CONSTANTS
    Steppers,       \* agents asking at once
    Concurrency,    \* llm_concurrency
    LlmRetries,     \* llm_retries
    MaxProcesses    \* bound: processes started

ASSUME LlmConstants ==
    Concurrency \in Nat \ {0} /\ LlmRetries \in Nat /\ MaxProcesses \in Nat

VARIABLES
    step,       \* per stepper: where its step is, its attempt and its process
    processes,  \* the processes that run
    permits,    \* of the semaphore
    started     \* processes started so far; the last one's number

llmVars == <<step, processes, permits, started>>

NoProcess == 0
\* pc: "queued" waits for a permit, "running" for the process, "killing" for it to
\* be gone, "backoff" for the next attempt; "answered", "raised", "cancelled": over.
LlmInit ==
    /\ step = [s \in Steppers |-> [pc |-> "queued", attempt |-> 1, process |-> NoProcess]]
    /\ processes = {}
    /\ permits = Concurrency
    /\ started = 0

-----------------------------------------------------------------------------
(* Errors.                                                                 *)

\* parse_output's and step's errors, and whether another attempt may help.  A
\* rate limit says when it ends: soon, or past max_wait_s.
StepErrors == {"timeout", "unavailable", "invalid_output", "limited_soon", "limited_long", "auth", "bad_request"}
TryAgain(error) == error \in {"timeout", "unavailable", "invalid_output", "limited_soon"}

\* RetryingBackend.step's except clause.
AfterError(s, error) ==
    IF ~TryAgain(error) \/ step[s].attempt > LlmRetries
    THEN [step[s] EXCEPT !.pc = "raised", !.process = NoProcess]
    ELSE [step[s] EXCEPT !.pc = "backoff", !.process = NoProcess]

-----------------------------------------------------------------------------
(* Steps.                                                                  *)

Start(s) ==
    /\ step[s].pc = "queued" /\ permits > 0 /\ started < MaxProcesses
    /\ started' = started + 1
    /\ processes' = processes \cup {started'}
    /\ permits' = permits - 1
    /\ step' = [step EXCEPT ![s].pc = "running", ![s].process = started']

\* The binary is not there.
NotFound(s) ==
    /\ step[s].pc = "queued" /\ permits > 0
    /\ step' = [step EXCEPT ![s].pc = "raised"]
    /\ UNCHANGED <<processes, permits, started>>

\* The process has exited: an answer, or an error that is not the time limit.
Exited(s) ==
    /\ step[s].pc = "running" /\ step[s].process \notin processes
    /\ permits' = permits + 1
    /\ \/ step' = [step EXCEPT ![s] = [@ EXCEPT !.pc = "answered", !.process = NoProcess]]
       \/ \E e \in StepErrors \ {"timeout"} : step' = [step EXCEPT ![s] = AfterError(s, e)]
    /\ UNCHANGED <<processes, started>>

\* The time limit, perhaps when the process has just answered: kill, then wait.
TimeLimit_Slip(s) ==
    /\ step[s].pc = "running"
    /\ permits' = permits + 1
    /\ step' = [step EXCEPT ![s] = AfterError(s, "timeout")]
    /\ UNCHANGED <<processes, started>>
TimeLimit(s) ==
    /\ step[s].pc = "running"
    /\ step' = [step EXCEPT ![s].pc = "killing"]
    /\ UNCHANGED <<processes, permits, started>>

Killed(s) ==
    /\ step[s].pc = "killing" /\ step[s].process \notin processes
    /\ permits' = permits + 1
    /\ step' = [step EXCEPT ![s] = AfterError(s, "timeout")]
    /\ UNCHANGED <<processes, started>>

Retry(s) ==
    /\ step[s].pc = "backoff"
    /\ step' = [step EXCEPT ![s].pc = "queued", ![s].attempt = @ + 1]
    /\ UNCHANGED <<processes, permits, started>>

\* The task is cancelled: the permit is given back, and nobody kills the process.
Cancel(s) ==
    /\ step[s].pc \in {"queued", "running", "killing", "backoff"}
    /\ permits' = IF step[s].process # NoProcess THEN permits + 1 ELSE permits
    /\ step' = [step EXCEPT ![s].pc = "cancelled"]
    /\ UNCHANGED <<processes, started>>

Exit(p) ==
    /\ p \in processes
    /\ processes' = processes \ {p}
    /\ UNCHANGED <<step, permits, started>>

-----------------------------------------------------------------------------
(* What the providers make of an HTTP status.  0: the CLI died without one.*)

LlmError(code, again) == [code |-> code, retryable |-> again]

\* cli.py, classify_error; text is what the message matches.
classify_error(http, text) ==
    CASE http = 429 \/ text = "limit" -> LlmError("rate_limited", TRUE)
      [] http \in {401, 403} \/ text = "login" -> LlmError("auth", FALSE)
      [] http \in {400, 404, 413} -> LlmError("bad_request", FALSE)
      [] http = 529 -> LlmError("overloaded", TRUE)
      [] http \in {0, 500, 502, 503, 504} -> LlmError("unavailable", TRUE)
      [] OTHER -> LlmError("bad_request", FALSE)

\* api.py, classify_status.
classify_status(http) ==
    CASE http = 429 -> LlmError("rate_limited", TRUE)
      [] http = 529 -> LlmError("overloaded", TRUE)
      [] http >= 500 /\ http # 529 -> LlmError("unavailable", TRUE)
      [] http \in {401, 403} -> LlmError("auth", FALSE)
      [] OTHER -> LlmError("bad_request", FALSE)

\* The errors the Messages API documents, and the gateway's.
Statuses == {400, 401, 403, 404, 413, 429, 500, 502, 503, 504, 529}

\* An agent fares the same with either provider: the same error is retried, or
\* given up with the same code, wherever the API documents the status (cli.py:158,
\* api.py:155).
ASSUME ProvidersAgree ==
    \A http \in Statuses : classify_error(http, "none") = classify_status(http)

LlmNext ==
    \/ \E s \in Steppers : \/ Start(s) \/ NotFound(s) \/ Exited(s) \/ TimeLimit(s) \/ Killed(s)
                           \/ Retry(s) \/ Cancel(s)
    \/ \E p \in processes : Exit(p)

LlmSpec == LlmInit /\ [][LlmNext]_llmVars

-----------------------------------------------------------------------------

\* "Every process holds ~250 MB ...: few at a time" (cli.py:70).  Not more run than
\* the semaphore lets in, apart from those of cancelled steps, which nobody kills:
\* a step that ran out of time is not tried again while its process lives.
FewAtATime ==
    LET left == {step[s].process : s \in {t \in Steppers : step[t].pc = "cancelled"}}
    IN  Cardinality(processes \ left) <= Concurrency

=============================================================================
