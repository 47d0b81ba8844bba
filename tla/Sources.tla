------------------------------ MODULE Sources -------------------------------
(***************************************************************************)
(* How a tool call of an agent is answered: app/tools/registry.py (the one *)
(* way tools are called), LiveSource and its circuit breaker of            *)
(* app/tools/sources.py, the errors of app/tools/clients.py, and the       *)
(* evidence of app/tools/evidence.py.                                      *)
(*                                                                         *)
(* Callers are agents of one incident, all asking one backend at once, so  *)
(* they share its breaker and the scope of the evidence ids.  The backend  *)
(* is external: it answers anything while it is up, and once it is down    *)
(* only calls sent before may still be answered.  Time is in ticks.        *)
(***************************************************************************)
EXTENDS Naturals, FiniteSets

CONSTANTS
    Callers,
    Threshold, Cooldown, Retries,   \* of Breaker and LiveSource
    MaxClock,      \* bound: the clock
    MaxToolCalls,     \* bound: tool calls of one caller
    Results       \* what the backend may say, and change its mind about

ASSUME SourcesConstants ==
    /\ IsFiniteSet(Callers)
    /\ Threshold \in Nat \ {0} /\ Cooldown \in Nat \ {0} /\ Retries \in Nat
    /\ MaxClock \in Nat /\ MaxToolCalls \in Nat

VARIABLES
    clock,
    breaker,    \* failures, and opened_at: 0 for None, else the tick plus one
    call,       \* per caller: where its tool call is
    stored,     \* the evidence table: the result under each id
    logged,     \* rows of tool_calls, by caller
    shown,      \* what the model was shown: pairs of an id and a result
    outage      \* when it began, the calls sent since, answers from before it, and calls nobody waited for

sourcesVars == <<clock, breaker, call, stored, logged, shown, outage>>

NoResult == "none"
NoCall == [pc |-> "idle", attempt |-> 0, before |-> FALSE, result |-> NoResult]
Up == [began |-> 0, sent |-> 0, late |-> 0, lost |-> 0]
Down == outage.began > 0

\* Whatever comes back instead of a result (clients.py, get_json; the time limit of
\* the tool), and whether it is worth another attempt.
Errors == {"timeout", "unavailable", "backend_error", "not_json", "not_found", "forbidden", "bad_query"}
Retryable == {"timeout", "unavailable", "backend_error"}

SourcesInit ==
    /\ clock = 0
    /\ breaker = [failures |-> 0, opened |-> 0]
    /\ call = [c \in Callers |-> NoCall]
    /\ stored = {}
    /\ logged = [c \in Callers |-> 0]
    /\ shown = {}
    /\ outage = Up

-----------------------------------------------------------------------------
(* Breaker.                                                                *)

Open == breaker.opened > 0 /\ clock + 1 - breaker.opened < Cooldown

HalfOpen_Slip == [failures |-> 0, opened |-> 0]
HalfOpen == [breaker EXCEPT !.opened = 0]

Recorded(ok) ==
    IF ok THEN [failures |-> 0, opened |-> 0]
    ELSE [failures |-> breaker.failures + 1,
          opened |-> IF breaker.failures + 1 >= Threshold THEN clock + 1 ELSE breaker.opened]

-----------------------------------------------------------------------------
(* The registry.                                                           *)

\* No such tool, or arguments that do not validate: nothing is fetched.
Rejected(c) ==
    /\ call[c].pc = "idle" /\ logged[c] < MaxToolCalls
    /\ logged' = [logged EXCEPT ![c] = @ + 1]
    /\ UNCHANGED <<clock, breaker, call, stored, shown, outage>>

Ask(c) ==
    /\ call[c].pc = "idle" /\ logged[c] < MaxToolCalls
    /\ call' = [call EXCEPT ![c] = [NoCall EXCEPT !.pc = "check"]]
    /\ UNCHANGED <<clock, breaker, stored, logged, shown, outage>>

\* LiveSource.fetch: an open breaker ends the call, at whatever attempt it is.
CircuitOpen(c) ==
    /\ call[c].pc = "check" /\ Open
    /\ call' = [call EXCEPT ![c].pc = "save"]
    /\ UNCHANGED <<clock, breaker, stored, logged, shown, outage>>

Send(c) ==
    /\ call[c].pc = "check" /\ ~Open
    /\ breaker' = HalfOpen
    /\ call' = [call EXCEPT ![c].pc = "sent", ![c].attempt = @ + 1, ![c].before = ~Down]
    /\ outage' = IF Down THEN [outage EXCEPT !.sent = @ + 1] ELSE outage
    /\ UNCHANGED <<clock, stored, logged, shown>>

Fetched(c) ==
    /\ call[c].pc = "sent" /\ call[c].before
    /\ breaker' = Recorded(TRUE)
    /\ \E r \in Results : call' = [call EXCEPT ![c].pc = "save", ![c].result = r]
    /\ outage' = IF Down THEN [outage EXCEPT !.late = @ + 1] ELSE outage
    /\ UNCHANGED <<clock, stored, logged, shown>>

\* An answer the registry cannot use: too large, or of an unexpected shape.
Unusable(c) ==
    /\ call[c].pc = "sent" /\ call[c].before
    /\ breaker' = Recorded(TRUE)
    /\ call' = [call EXCEPT ![c].pc = "save"]
    /\ outage' = IF Down THEN [outage EXCEPT !.late = @ + 1] ELSE outage
    /\ UNCHANGED <<clock, stored, logged, shown>>

\* Only trouble of the backend counts against the breaker, and is tried again.
FetchFails(c) ==
    /\ call[c].pc = "sent"
    /\ \E e \in Errors :
         /\ ~call[c].before => e \in Retryable
         /\ breaker' = IF e \in Retryable THEN Recorded(FALSE) ELSE breaker
         /\ call' = [call EXCEPT ![c].pc =
                       IF e \notin Retryable \/ call[c].attempt > Retries THEN "save" ELSE "check"]
    /\ UNCHANGED <<clock, stored, logged, shown, outage>>

\* evidence_id: derived from the scope, the query and the hash of the result; the
\* callers share the first two.
evidence_id_Slip(result) == <<"ev", "hash">>
evidence_id(result) == <<"ev", result>>

\* PgEvidenceStore.save, one transaction; the agent gets its outcome after it.
Save(c) ==
    LET r == call[c].result
    IN  /\ call[c].pc = "save"
        /\ stored' = IF r = NoResult \/ \E x \in stored : x.id = evidence_id(r) THEN stored
                     ELSE stored \cup {[id |-> evidence_id(r), result |-> r]}
        /\ logged' = [logged EXCEPT ![c] = @ + 1]
        /\ shown' = IF r = NoResult THEN shown ELSE shown \cup {[id |-> evidence_id(r), result |-> r]}
        /\ call' = [call EXCEPT ![c] = NoCall]
        /\ UNCHANGED <<clock, breaker, outage>>

\* The job is cancelled or its worker dies: the call is neither logged nor shown.
Cancelled(c) ==
    /\ call[c].pc \in {"check", "sent", "save"}
    /\ call' = [call EXCEPT ![c].pc = "gone"]
    /\ outage' = IF Down /\ call[c].pc = "sent" THEN [outage EXCEPT !.lost = @ + 1] ELSE outage
    /\ UNCHANGED <<clock, breaker, stored, logged, shown>>

GoesDown ==
    /\ ~Down
    /\ outage' = [outage EXCEPT !.began = clock + 1]
    /\ UNCHANGED <<clock, breaker, call, stored, logged, shown>>

ClockTick ==
    /\ clock < MaxClock
    /\ clock' = clock + 1
    /\ UNCHANGED <<breaker, call, stored, logged, shown, outage>>

SourcesNext ==
    \/ GoesDown
    \/ ClockTick
    \/ \E c \in Callers :
         \/ Rejected(c) \/ Ask(c) \/ CircuitOpen(c) \/ Send(c) \/ Fetched(c) \/ Unusable(c)
         \/ FetchFails(c) \/ Save(c) \/ Cancelled(c)

SourcesSpec == SourcesInit /\ [][SourcesNext]_sourcesVars

-----------------------------------------------------------------------------

\* A backend that is down is left alone (sources.py:48): until the breaker opens it
\* gets Threshold calls and those already allowed, and then, after each cooldown,
\* at most one call of each caller: the trial is not the only one let through, but
\* the first failure shuts the door again.  An answer from before the outage that
\* arrives late starts the count again; a call that was cancelled is not counted.
OutageLoad ==
    Down =>
      LET cooldowns == (clock + 1 - outage.began) \div Cooldown
      IN  outage.sent <= (Threshold + Cardinality(Callers) - 1) * (1 + outage.late)
                         + Cardinality(Callers) * cooldowns + outage.lost

\* What a model cites can be looked up, and is what the model saw: two answers to
\* one question are two rows, and asking again adds none (evidence.py:17).
ShownIsStored == shown \subseteq stored

=============================================================================
