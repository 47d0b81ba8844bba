----------------------------- MODULE AgentProofs ----------------------------
(***************************************************************************)
(* Proofs about what an investigation is made with, each component apart:  *)
(*   Sources    the tools, for any number of callers, calls and failures,  *)
(*              any breaker and any clock;                                 *)
(*   Llm        the model steps of the CLI provider, for any number of     *)
(*              agents, permits, attempts and processes;                   *)
(*   Policy     the review of a report and of a plan, for any catalogue,   *)
(*              evidence and context;                                      *)
(*   Knowledge  ingest and search, for any ingesters, targets and          *)
(*              documents;                                                 *)
(*   Evaluate   the evaluation of the agents, for any catalogue, shards,   *)
(*              variants, costs and budget;                                *)
(*   Chunking   how a document is cut into chunks, for any document and    *)
(*              any sizes;                                                 *)
(*   Replay     an investigation recorded and run again, for any number of *)
(*              incidents and agents, however they interleave.             *)
(***************************************************************************)
EXTENDS Sources, Llm, Policy, Knowledge, Evaluate, Replay, Chunking,
        Integers, WellFoundedInduction, SequenceTheorems, FiniteSetTheorems, TLAPS

-----------------------------------------------------------------------------
(* Minima                                                                  *)

\* A set of numbers has a least element.
LEMMA Least ==
  ASSUME NEW X, X \subseteq Nat, X # {}
  PROVE  \E n \in X : \A m \in X : n <= m
<1> DEFINE T == {0 .. n : n \in X}
<1>1. IsWellFoundedOn(StrictSubsetOrdering(Nat), FiniteSubsetsOf(Nat))
  BY FS_StrictSubsetOrderingWellFounded
<1>2. \A n \in X : 0 .. n \in SUBSET Nat /\ IsFiniteSet(0 .. n)
  BY FS_Interval
<1>3. T \subseteq FiniteSubsetsOf(Nat) /\ T # {}
  BY <1>2 DEF FiniteSubsetsOf
<1>4. PICK t \in T : \A u \in T : <<u, t>> \notin StrictSubsetOrdering(Nat)
  <2> HIDE DEF T
  <2> QED BY <1>1, <1>3, WFMin
<1>5. PICK n \in X : t = 0 .. n
  BY <1>4
<1>6. \A m \in X : n <= m
  <2> SUFFICES ASSUME NEW m \in X, m < n PROVE FALSE
    BY <1>5
  <2>1. 0 .. m \in T /\ 0 .. m \subseteq 0 .. n /\ n \in 0 .. n /\ n \notin 0 .. m
    BY <1>5
  <2>2. <<0 .. m, t>> \in StrictSubsetOrdering(Nat)
    BY <2>1, <1>2, <1>5 DEF StrictSubsetOrdering
  <2> QED BY <2>1, <2>2, <1>4
<1> QED BY <1>6

\* What Min is chosen to be, there is.
LEMMA MinIn ==
    ASSUME NEW X, X \subseteq Nat, X # {}
    PROVE  Min(X) \in X /\ \A x \in X : Min(X) <= x
<1>1. PICK n \in X : \A m \in X : n <= m
  BY Least
<1> QED BY <1>1 DEF Min

-----------------------------------------------------------------------------
(* Sources: the invariant                                                  *)

CallRecord == [pc: {"idle", "check", "sent", "save", "gone"}, attempt: Nat, before: BOOLEAN,
               result: Results \cup {NoResult}]

SourcesTypeOK ==
    /\ clock \in Nat
    /\ breaker \in [failures: Nat, opened: Nat]
    /\ call \in [Callers -> CallRecord]
    /\ outage \in [began: Nat, sent: Nat, late: Nat, lost: Nat]

\* A row of the evidence table is stored under the id of its result.
OwnId == \A x \in stored : x = [id |-> evidence_id(x.result), result |-> x.result]

\* The calls sent since the outage began that somebody still waits for.
OnItsWay(record) == record.pc = "sent" /\ ~record.before
Waiting == {c \in Callers : OnItsWay(call[c])}
NumWaiting == Cardinality(Waiting)
NumCallers == Cardinality(Callers)

\* What a backend that is down may get until t: for each time the count of
\* failures starts, and for each cooldown.
Room(began, late, t) ==
    (Threshold + NumCallers - 1) * (1 + late) + NumCallers * ((t - began) \div Cooldown)
Allowed(t) == Room(outage.began, outage.late, t) + outage.lost

\* The breaker is shut only after Threshold failures, and in the past.
BreakerOK ==
    /\ breaker.opened > 0 => breaker.failures >= Threshold
    /\ breaker.opened <= clock + 1
    /\ outage.began <= clock + 1
    /\ ~Down => outage = Up /\ Waiting = {}

\* What was sent leaves room for what may still be sent before the clock moves.
\*   Counting: each failure that is missing, and what then is on its way.
\*   Trying: one call of each caller that is not waiting.
\*   Shut: nothing, and what was sent was in order when the breaker opened.
LoadOK == Down => outage.sent <= Allowed(clock + 1)
Counting == Down /\ breaker.failures < Threshold =>
    outage.sent + (Threshold - breaker.failures) + NumCallers - 1 <= Allowed(clock + 1) + NumWaiting
Trying == Down /\ breaker.failures >= Threshold /\ (breaker.opened = 0 \/ breaker.opened < outage.began) =>
    outage.sent + NumCallers <= Allowed(clock + 1) + NumWaiting
Shut == Down /\ breaker.opened >= outage.began =>
    outage.sent <= Allowed(breaker.opened) + NumWaiting

LoadInv == SourcesTypeOK /\ BreakerOK /\ LoadOK /\ Counting /\ Trying /\ Shut

-----------------------------------------------------------------------------
(* Sources: counting                                                       *)

\* Products and quotients, for the provers.
LEMMA Products ==
    ASSUME NEW a \in Nat, NEW x \in Nat, NEW y \in Nat
    PROVE  /\ a * x \in Nat /\ a * (1 + x) \in Nat /\ a * (1 + (x + 1)) = a * (1 + x) + a
           /\ x <= y => a * x <= a * y
           /\ x + 1 <= y => a * x + a <= a * y
OBVIOUS

LEMMA Quotients ==
    ASSUME NEW d \in Nat \ {0}, NEW x \in Nat, NEW y \in Nat
    PROVE  /\ x \div d \in Nat
           /\ x <= y => x \div d <= y \div d
           /\ x + d <= y => (x \div d) + 1 <= y \div d
OBVIOUS

\* There is more room after a late answer, and when a cooldown is over.
LEMMA RoomFacts ==
    ASSUME NEW b \in Nat, NEW l \in Nat, NEW t \in Nat, b <= t, NEW u \in Nat, t <= u
    PROVE  /\ NumCallers \in Nat /\ Room(b, l, t) \in Nat /\ Room(b, l, u) \in Nat
           /\ Room(b, l, t) <= Room(b, l, u)
           /\ t + Cooldown <= u => Room(b, l, t) + NumCallers <= Room(b, l, u)
           /\ Room(b, l + 1, t) = Room(b, l, t) + (Threshold + NumCallers - 1)
           /\ Threshold + NumCallers - 1 <= Room(b, l, t)
<1> DEFINE p == Threshold + NumCallers - 1
           x == (t - b) \div Cooldown
           y == (u - b) \div Cooldown
<1>1. NumCallers \in Nat
  BY FS_CardinalityType, SourcesConstants DEF NumCallers
<1>2. p \in Nat
  BY <1>1, SourcesConstants
<1>3. Cooldown \in Nat \ {0}
  BY SourcesConstants
<1>4. t - b \in Nat /\ u - b \in Nat /\ t - b <= u - b
  OBVIOUS
<1>5. x \in Nat /\ y \in Nat /\ x <= y /\ (t + Cooldown <= u => x + 1 <= y)
  BY <1>3, <1>4, Quotients
<1> HIDE DEF x, y
<1>6. /\ Room(b, l, t) = p * (1 + l) + NumCallers * x
      /\ Room(b, l + 1, t) = p * (1 + (l + 1)) + NumCallers * x
      /\ Room(b, l, u) = p * (1 + l) + NumCallers * y
  BY DEF Room, x, y
<1> HIDE DEF p
<1>7. p * (1 + l) \in Nat /\ p * (1 + (l + 1)) = p * (1 + l) + p /\ p * 1 <= p * (1 + l)
  BY <1>2, Products
<1>8. /\ NumCallers * x \in Nat /\ NumCallers * y \in Nat /\ NumCallers * x <= NumCallers * y
      /\ x + 1 <= y => NumCallers * x + NumCallers <= NumCallers * y
  BY <1>1, <1>5, Products
<1>9. p * 1 = p
  BY <1>2
<1>10. Room(b, l + 1, t) = Room(b, l, t) + p /\ p <= Room(b, l, t)
  BY <1>2, <1>6, <1>7, <1>8, <1>9
<1>11. /\ Room(b, l, t) \in Nat /\ Room(b, l, u) \in Nat
       /\ Room(b, l, t) <= Room(b, l, u)
       /\ t + Cooldown <= u => Room(b, l, t) + NumCallers <= Room(b, l, u)
  BY <1>5, <1>6, <1>7, <1>8, <1>1
<1> QED  BY <1>1, <1>10, <1>11 DEF p

LEMMA WaitingFacts ==
    ASSUME SourcesTypeOK
    PROVE  IsFiniteSet(Waiting) /\ NumWaiting \in Nat /\ NumWaiting <= NumCallers /\ NumCallers \in Nat
<1>1. Waiting \subseteq Callers
  BY DEF Waiting
<1>2. IsFiniteSet(Waiting) /\ NumWaiting <= NumCallers
  BY <1>1, FS_Subset, SourcesConstants DEF NumWaiting, NumCallers
<1> QED  BY <1>2, FS_CardinalityType, SourcesConstants DEF NumWaiting, NumCallers

\* One caller moves on.
LEMMA OneMoves ==
    ASSUME SourcesTypeOK, NEW c \in Callers, NEW r \in CallRecord, call' = [call EXCEPT ![c] = r]
    PROVE  /\ call' \in [Callers -> CallRecord]
           /\ NumWaiting' \in Nat /\ NumWaiting' <= NumCallers
           /\ OnItsWay(r) /\ OnItsWay(call[c]) => NumWaiting' = NumWaiting /\ Waiting' = Waiting
           /\ OnItsWay(r) /\ ~OnItsWay(call[c]) => NumWaiting' = NumWaiting + 1
           /\ ~OnItsWay(r) /\ ~OnItsWay(call[c]) => NumWaiting' = NumWaiting /\ Waiting' = Waiting
           /\ ~OnItsWay(r) /\ OnItsWay(call[c]) => NumWaiting' = NumWaiting - 1
<1>1. call' \in [Callers -> CallRecord] /\ call'[c] = r /\ \A d \in Callers \ {c} : call'[d] = call[d]
  BY DEF SourcesTypeOK
<1>2. Waiting' = {d \in Callers : OnItsWay(call'[d])}
  BY DEF Waiting, OnItsWay
<1>3. Waiting' = IF OnItsWay(r) THEN Waiting \cup {c} ELSE Waiting \ {c}
  BY <1>1, <1>2 DEF Waiting
<1>4. Waiting' \subseteq Callers /\ (c \in Waiting <=> OnItsWay(call[c]))
  BY <1>2 DEF Waiting
<1>5. IsFiniteSet(Waiting') /\ NumWaiting' <= NumCallers
  BY <1>4, FS_Subset, SourcesConstants DEF NumWaiting, NumCallers
<1>6. NumWaiting' \in Nat
  BY <1>5, FS_CardinalityType DEF NumWaiting
<1>7. IsFiniteSet(Waiting) /\ NumWaiting \in Nat
  BY WaitingFacts
<1>8. CASE OnItsWay(r) /\ ~OnItsWay(call[c])
  <2>1. Cardinality(Waiting \cup {c}) = Cardinality(Waiting) + 1
    BY <1>4, <1>7, <1>8, FS_AddElement
  <2> QED  BY <1>1, <1>3, <1>5, <1>6, <1>8, <2>1 DEF NumWaiting
<1>9. CASE ~OnItsWay(r) /\ OnItsWay(call[c])
  <2>1. Cardinality(Waiting \ {c}) = Cardinality(Waiting) - 1
    BY <1>4, <1>7, <1>9, FS_RemoveElement
  <2> QED  BY <1>1, <1>3, <1>5, <1>6, <1>9, <2>1 DEF NumWaiting
<1>10. CASE OnItsWay(r) <=> OnItsWay(call[c])
  <2>1. Waiting' = Waiting
    BY <1>3, <1>4, <1>10
  <2> QED  BY <1>1, <1>5, <1>6, <1>10, <2>1 DEF NumWaiting
<1> QED  BY <1>8, <1>9, <1>10

-----------------------------------------------------------------------------
(* Sources: the load, step by step                                         *)

\* What the lemmas below use of a state.
LEMMA LoadFields ==
    ASSUME SourcesTypeOK, BreakerOK
    PROVE  /\ clock \in Nat /\ clock + 1 \in Nat /\ breaker.failures \in Nat /\ breaker.opened \in Nat
           /\ outage.began \in Nat /\ outage.sent \in Nat /\ outage.late \in Nat /\ outage.lost \in Nat
           /\ outage.began <= clock + 1 /\ breaker.opened <= clock + 1
           /\ Threshold \in Nat \ {0} /\ Cooldown \in Nat \ {0}
BY SourcesConstants DEF SourcesTypeOK, BreakerOK

\* A step that leaves the breaker, the outage, the clock and the calls on
\* their way alone.
LEMMA QuietStep ==
    ASSUME LoadInv, UNCHANGED <<breaker, outage, clock>>, call' \in [Callers -> CallRecord],
           Waiting' = Waiting
    PROVE  LoadInv'
<1>1. NumWaiting' = NumWaiting
  BY DEF NumWaiting
<1>2. SourcesTypeOK'
  BY DEF LoadInv, SourcesTypeOK
<1>3. BreakerOK'
  BY DEF LoadInv, BreakerOK, Down
<1>4. LoadOK' /\ Counting' /\ Trying' /\ Shut'
  BY <1>1 DEF LoadInv, LoadOK, Counting, Trying, Shut, Allowed, Down
<1> QED  BY <1>2, <1>3, <1>4 DEF LoadInv

\* A call is sent only while there is room for it.
LEMMA SendStep == ASSUME LoadInv, NEW c \in Callers, Send(c) PROVE LoadInv'
<1> DEFINE b == ~Down
           n == call[c].attempt + 1
           r == [call[c] EXCEPT !.pc = "sent", !.attempt = n, !.before = b]
<1>0. SourcesTypeOK /\ BreakerOK
  BY DEF LoadInv
<1>1. call[c] \in CallRecord /\ call[c].pc = "check" /\ ~Open
  BY <1>0 DEF Send, SourcesTypeOK
<1>2. r \in CallRecord /\ r.pc = "sent" /\ r.before = b
  <2>1. b \in BOOLEAN /\ n \in Nat
    BY <1>1 DEF CallRecord
  <2> HIDE DEF b, n
  <2> QED  BY <1>1, <2>1 DEF CallRecord
<1>3. call' = [call EXCEPT ![c] = r]
  BY <1>0 DEF Send, SourcesTypeOK
<1>4. ~OnItsWay(call[c]) /\ (OnItsWay(r) <=> Down)
  BY <1>1, <1>2 DEF OnItsWay
<1> HIDE DEF r, b, n
<1>5. /\ call' \in [Callers -> CallRecord] /\ NumWaiting' \in Nat /\ NumWaiting' <= NumCallers
      /\ IF Down THEN NumWaiting' = NumWaiting + 1 ELSE Waiting' = Waiting
  BY <1>0, <1>2, <1>3, <1>4, OneMoves
<1>6. /\ breaker' = HalfOpen /\ clock' = clock
      /\ HalfOpen.opened = 0 /\ HalfOpen.failures = breaker.failures /\ HalfOpen \in [failures: Nat, opened: Nat]
  BY <1>0 DEF Send, HalfOpen, SourcesTypeOK
<1>7. CASE ~Down
  <2>1. outage' = outage
    BY <1>7 DEF Send
  <2>2. SourcesTypeOK' /\ BreakerOK'
    BY <1>0, <1>5, <1>6, <1>7, <2>1 DEF SourcesTypeOK, BreakerOK, Down
  <2>3. ~Down'
    BY <1>7, <2>1 DEF Down
  <2> QED  BY <2>2, <2>3 DEF LoadInv, LoadOK, Counting, Trying, Shut
<1>8. CASE Down
  <2>0. /\ outage' \in [began: Nat, sent: Nat, late: Nat, lost: Nat] /\ outage'.sent = outage.sent + 1
        /\ outage'.began = outage.began /\ outage'.late = outage.late /\ outage'.lost = outage.lost
    BY <1>0, <1>8 DEF Send, SourcesTypeOK
  <2>1. SourcesTypeOK' /\ BreakerOK' /\ Down'
    BY <1>0, <1>5, <1>6, <1>8, <2>0 DEF SourcesTypeOK, BreakerOK, Down
  <2>2. NumWaiting \in Nat /\ NumWaiting + 1 <= NumCallers /\ NumCallers \in Nat
    BY <1>0, <1>5, <1>8, WaitingFacts
  <2>3. Allowed(clock + 1) \in Nat /\ (Allowed(clock + 1))' = Allowed(clock + 1)
    <3>1. Room(outage.began, outage.late, clock + 1) \in Nat /\ outage.lost \in Nat
      <4>1. /\ outage.began \in Nat /\ outage.late \in Nat /\ clock + 1 \in Nat
            /\ outage.began <= clock + 1 /\ clock + 1 <= clock + 1 /\ outage.lost \in Nat
        BY <1>0, LoadFields
      <4> QED  BY <4>1, RoomFacts
    <3> QED  BY <1>6, <2>0, <3>1 DEF Allowed
  <2>4. CASE breaker.failures < Threshold
    <3>1. outage.sent + (Threshold - breaker.failures) + NumCallers - 1 <= Allowed(clock + 1) + NumWaiting
      BY <1>8, <2>4 DEF LoadInv, Counting
    <3> HIDE DEF Allowed
    <3>2. LoadOK' /\ Counting'
      BY <1>0, <1>5, <1>6, <1>8, <2>0, <2>2, <2>3, <2>4, <3>1, LoadFields DEF LoadOK, Counting
    <3>3. Trying' /\ Shut'
      BY <1>0, <1>6, <1>8, <2>0, <2>4, LoadFields DEF Trying, Shut, Down
    <3> QED  BY <2>1, <3>2, <3>3 DEF LoadInv
  <2>5. CASE breaker.failures >= Threshold
    <3>1. outage.sent + NumCallers <= Allowed(clock + 1) + NumWaiting
      <4>1. CASE breaker.opened = 0 \/ breaker.opened < outage.began
        BY <1>8, <2>5, <4>1 DEF LoadInv, Trying
      <4>2. CASE breaker.opened > 0 /\ breaker.opened >= outage.began
        <5>1. outage.sent <= Allowed(breaker.opened) + NumWaiting
          BY <1>8, <4>2 DEF LoadInv, Shut
        <5>2. breaker.opened + Cooldown <= clock + 1
          BY <1>0, <1>1, <4>2, LoadFields DEF Open
        <5>3. Room(outage.began, outage.late, breaker.opened) + NumCallers
                <= Room(outage.began, outage.late, clock + 1)
              /\ Room(outage.began, outage.late, breaker.opened) \in Nat
              /\ Room(outage.began, outage.late, clock + 1) \in Nat
          BY <1>0, <4>2, <5>2, LoadFields, RoomFacts
        <5> QED  BY <1>0, <2>2, <5>1, <5>3, LoadFields DEF Allowed
      <4> QED  BY <1>0, <4>1, <4>2, LoadFields
    <3>2. LoadOK' /\ Trying'
      BY <1>0, <1>5, <1>6, <1>8, <2>0, <2>2, <2>3, <2>5, <3>1, LoadFields DEF LoadOK, Trying
    <3>3. Counting' /\ Shut'
      BY <1>0, <1>6, <1>8, <2>0, <2>5, LoadFields DEF Counting, Shut, Down
    <3> QED  BY <2>1, <3>2, <3>3 DEF LoadInv
  <2> QED  BY <1>0, <2>4, <2>5, LoadFields
<1> QED  BY <1>7, <1>8

\* An answer of before the outage gives the room that its new count needs.
LEMMA AnswerStep == ASSUME LoadInv, NEW c \in Callers, Fetched(c) \/ Unusable(c) PROVE LoadInv'
<1>0. SourcesTypeOK /\ BreakerOK
  BY DEF LoadInv
<1>1. call[c] \in CallRecord /\ call[c].before
  BY <1>0 DEF Fetched, Unusable, SourcesTypeOK
<1>2. PICK r \in CallRecord : r.pc = "save" /\ call' = [call EXCEPT ![c] = r]
  <2>1. CASE Fetched(c)
    <3>1. PICK x \in Results : call' = [call EXCEPT ![c].pc = "save", ![c].result = x]
      BY <2>1 DEF Fetched
    <3>2. [call[c] EXCEPT !.pc = "save", !.result = x] \in CallRecord
      BY <1>1 DEF CallRecord
    <3>3. call' = [call EXCEPT ![c] = [call[c] EXCEPT !.pc = "save", !.result = x]]
      BY <1>0, <3>1 DEF SourcesTypeOK
    <3>4. [call[c] EXCEPT !.pc = "save", !.result = x].pc = "save"
      BY <1>1 DEF CallRecord
    <3> QED  BY <3>2, <3>3, <3>4
  <2>2. CASE Unusable(c)
    <3>1. [call[c] EXCEPT !.pc = "save"] \in CallRecord /\ [call[c] EXCEPT !.pc = "save"].pc = "save"
      BY <1>1 DEF CallRecord
    <3>2. call' = [call EXCEPT ![c] = [call[c] EXCEPT !.pc = "save"]]
      BY <1>0, <2>2 DEF Unusable, SourcesTypeOK
    <3> QED  BY <3>1, <3>2
  <2> QED  BY <2>1, <2>2
<1>3. ~OnItsWay(call[c]) /\ ~OnItsWay(r)
  BY <1>1, <1>2 DEF OnItsWay
<1>4. call' \in [Callers -> CallRecord] /\ NumWaiting' = NumWaiting /\ Waiting' = Waiting
  BY <1>0, <1>2, <1>3, OneMoves
<1>5. breaker' = [failures |-> 0, opened |-> 0] /\ clock' = clock
  BY DEF Fetched, Unusable, Recorded
<1>6. CASE ~Down
  <2>1. outage' = outage
    BY <1>6 DEF Fetched, Unusable
  <2>2. SourcesTypeOK' /\ BreakerOK'
    BY <1>0, <1>4, <1>5, <1>6, <2>1 DEF SourcesTypeOK, BreakerOK, Down
  <2>3. ~Down'
    BY <1>6, <2>1 DEF Down
  <2> QED  BY <2>2, <2>3 DEF LoadInv, LoadOK, Counting, Trying, Shut
<1>7. CASE Down
  <2>0. /\ outage' \in [began: Nat, sent: Nat, late: Nat, lost: Nat] /\ outage'.sent = outage.sent
        /\ outage'.began = outage.began /\ outage'.late = outage.late + 1 /\ outage'.lost = outage.lost
    <3>1. outage' = [outage EXCEPT !.late = outage.late + 1]
      BY <1>7 DEF Fetched, Unusable
    <3>2. outage \in [began: Nat, sent: Nat, late: Nat, lost: Nat]
      BY <1>0 DEF SourcesTypeOK
    <3>3. outage.late + 1 \in Nat
      BY <3>2
    <3> QED  BY <3>1, <3>2, <3>3
  <2>1. SourcesTypeOK' /\ BreakerOK' /\ Down'
    BY <1>0, <1>4, <1>5, <1>7, <2>0 DEF SourcesTypeOK, BreakerOK, Down
  <2>2. NumWaiting \in Nat /\ NumCallers \in Nat
    BY <1>0, WaitingFacts
  <2>3. Allowed(clock + 1) \in Nat /\ (Allowed(clock + 1))' = Allowed(clock + 1) + (Threshold + NumCallers - 1)
    <3>1. /\ Room(outage.began, outage.late, clock + 1) \in Nat
          /\ Room(outage.began, outage.late + 1, clock + 1)
               = Room(outage.began, outage.late, clock + 1) + (Threshold + NumCallers - 1)
      <4>1. /\ outage.began \in Nat /\ outage.late \in Nat /\ clock + 1 \in Nat
            /\ outage.began <= clock + 1 /\ clock + 1 <= clock + 1
        BY <1>0, LoadFields
      <4> QED  BY <4>1, RoomFacts
    <3> QED  BY <1>0, <1>5, <2>0, <2>2, <3>1, LoadFields DEF Allowed
  <2>4. outage.sent <= Allowed(clock + 1)
    BY <1>7 DEF LoadInv, LoadOK
  <2>5. breaker'.failures = 0 /\ breaker'.opened = 0
    BY <1>5
  <2>6. LoadOK' /\ Counting'
    BY <1>0, <1>4, <2>0, <2>2, <2>3, <2>4, <2>5, LoadFields DEF LoadOK, Counting
  <2>7. Trying' /\ Shut'
    BY <1>0, <1>7, <2>0, <2>5, LoadFields DEF Trying, Shut, Down
  <2> QED  BY <2>1, <2>6, <2>7 DEF LoadInv
<1> QED  BY <1>6, <1>7

\* A failure counts, and shuts the breaker once Threshold are counted.
LEMMA FailureStep == ASSUME LoadInv, NEW c \in Callers, FetchFails(c) PROVE LoadInv'
<1>0. SourcesTypeOK /\ BreakerOK
  BY DEF LoadInv
<1>1. call[c] \in CallRecord /\ call[c].pc = "sent"
  BY <1>0 DEF FetchFails, SourcesTypeOK
<1>2. PICK e \in Errors :
         /\ ~call[c].before => e \in Retryable
         /\ breaker' = IF e \in Retryable THEN Recorded(FALSE) ELSE breaker
         /\ call' = [call EXCEPT ![c].pc =
                       IF e \notin Retryable \/ call[c].attempt > Retries THEN "save" ELSE "check"]
  BY DEF FetchFails
<1>3. UNCHANGED <<outage, clock>>
  BY DEF FetchFails
<1>4. PICK r \in CallRecord : r.pc \in {"save", "check"} /\ call' = [call EXCEPT ![c] = r]
  <2> DEFINE p == IF e \notin Retryable \/ call[c].attempt > Retries THEN "save" ELSE "check"
  <2>1. p \in {"save", "check"}
    OBVIOUS
  <2>2. call' = [call EXCEPT ![c] = [call[c] EXCEPT !.pc = p]]
    BY <1>0, <1>2 DEF SourcesTypeOK
  <2> HIDE DEF p
  <2>3. [call[c] EXCEPT !.pc = p] \in CallRecord /\ [call[c] EXCEPT !.pc = p].pc = p
    BY <1>1, <2>1 DEF CallRecord
  <2> QED  BY <2>1, <2>2, <2>3
<1>5. ~OnItsWay(r) /\ (OnItsWay(call[c]) <=> ~call[c].before)
  BY <1>1, <1>4 DEF OnItsWay
<1>6. /\ call' \in [Callers -> CallRecord] /\ NumWaiting' \in Nat
      /\ IF call[c].before THEN NumWaiting' = NumWaiting /\ Waiting' = Waiting
         ELSE NumWaiting' = NumWaiting - 1
  BY <1>0, <1>4, <1>5, OneMoves
<1>7. CASE e \notin Retryable
  BY <1>2, <1>3, <1>6, <1>7, QuietStep
<1>8. CASE e \in Retryable
  <2>1. /\ breaker'.failures = breaker.failures + 1
        /\ breaker'.opened = IF breaker.failures + 1 >= Threshold THEN clock + 1 ELSE breaker.opened
        /\ breaker' \in [failures: Nat, opened: Nat]
    BY <1>0, <1>2, <1>8, LoadFields DEF Recorded
  <2>2. SourcesTypeOK'
    BY <1>0, <1>3, <1>6, <2>1 DEF SourcesTypeOK
  <2>3. ~Down => call[c].before /\ Waiting = {}
    BY <1>0, <1>5 DEF BreakerOK, Waiting
  <2>4. BreakerOK'
    BY <1>0, <1>3, <1>6, <2>1, <2>3, LoadFields DEF BreakerOK, Down
  <2>5. CASE ~Down
    <3>1. ~Down'
      BY <1>3, <2>5 DEF Down
    <3> QED  BY <2>2, <2>4, <3>1 DEF LoadInv, LoadOK, Counting, Trying, Shut
  <2>6. CASE Down
    <3>1. /\ Down' /\ Allowed(clock + 1)' = Allowed(clock + 1)
          /\ outage.sent <= Allowed(clock + 1)
      BY <1>3, <2>6 DEF Down, Allowed, LoadInv, LoadOK
    <3>2. Allowed(clock + 1) \in Nat /\ NumWaiting \in Nat /\ NumCallers \in Nat
      <4>1. /\ outage.began \in Nat /\ outage.late \in Nat /\ clock + 1 \in Nat
            /\ outage.began <= clock + 1 /\ clock + 1 <= clock + 1 /\ outage.lost \in Nat
        BY <1>0, LoadFields
      <4>2. Room(outage.began, outage.late, clock + 1) \in Nat
        BY <4>1, RoomFacts
      <4> QED  BY <1>0, <4>1, <4>2, WaitingFacts DEF Allowed
    <3>3. LoadOK'
      BY <1>3, <3>1 DEF LoadOK
    <3>4. CASE breaker.failures + 1 < Threshold
      <4>1. outage.sent + (Threshold - breaker.failures) + NumCallers - 1 <= Allowed(clock + 1) + NumWaiting
        BY <1>0, <2>6, <3>4, LoadFields DEF LoadInv, Counting
      <4>2. Counting'
        BY <1>0, <1>3, <1>6, <2>1, <3>1, <3>2, <3>4, <4>1, LoadFields DEF Counting
      <4>3. breaker.opened = 0
        BY <1>0, <3>4, LoadFields DEF BreakerOK
      <4>4. Trying' /\ Shut'
        BY <1>0, <1>3, <2>1, <2>6, <3>4, <4>3, LoadFields DEF Trying, Shut, Down
      <4> QED  BY <2>2, <2>4, <3>3, <4>2, <4>4 DEF LoadInv
    <3>5. CASE breaker.failures + 1 >= Threshold
      <4>1. breaker'.opened = clock + 1 /\ breaker'.failures >= Threshold
        BY <2>1, <3>5
      <4>2. Allowed(breaker.opened)' = Allowed(clock + 1)
        BY <1>3, <4>1 DEF Allowed
      <4>3. Shut'
        BY <1>0, <1>3, <1>6, <3>1, <3>2, <4>2, LoadFields DEF Shut
      <4>4. Counting' /\ Trying'
        BY <1>0, <1>3, <2>1, <4>1, LoadFields DEF Counting, Trying
      <4> QED  BY <2>2, <2>4, <3>3, <4>3, <4>4 DEF LoadInv
    <3> QED  BY <1>0, <3>4, <3>5, LoadFields
  <2> QED  BY <2>5, <2>6
<1> QED  BY <1>7, <1>8

\* A cancelled call makes the room it took.
LEMMA CancelStep == ASSUME LoadInv, NEW c \in Callers, Cancelled(c) PROVE LoadInv'
<1> DEFINE r == [call[c] EXCEPT !.pc = "gone"]
<1>0. SourcesTypeOK /\ BreakerOK
  BY DEF LoadInv
<1>1. call[c] \in CallRecord
  BY <1>0 DEF SourcesTypeOK
<1>2. r \in CallRecord /\ r.pc = "gone"
  BY <1>1 DEF CallRecord
<1>3. call' = [call EXCEPT ![c] = r]
  BY <1>0 DEF Cancelled, SourcesTypeOK
<1> HIDE DEF r
<1>4. ~OnItsWay(r) /\ (OnItsWay(call[c]) => call[c].pc = "sent")
  BY <1>2 DEF OnItsWay
<1>5. /\ call' \in [Callers -> CallRecord] /\ NumWaiting' \in Nat
      /\ IF OnItsWay(call[c]) THEN NumWaiting' = NumWaiting - 1
         ELSE NumWaiting' = NumWaiting /\ Waiting' = Waiting
  BY <1>0, <1>2, <1>3, <1>4, OneMoves
<1>6. UNCHANGED <<breaker, clock>>
  BY DEF Cancelled
<1>7. CASE ~(Down /\ call[c].pc = "sent")
  <2>1. outage' = outage
    BY <1>7 DEF Cancelled
  <2>2. ~OnItsWay(call[c])
    BY <1>0, <1>4, <1>7 DEF BreakerOK, Waiting
  <2> QED  BY <1>5, <1>6, <2>1, <2>2, QuietStep
<1>8. CASE Down /\ call[c].pc = "sent"
  <2>0. /\ outage' \in [began: Nat, sent: Nat, late: Nat, lost: Nat] /\ outage'.sent = outage.sent
        /\ outage'.began = outage.began /\ outage'.late = outage.late /\ outage'.lost = outage.lost + 1
    <3>1. outage' = [outage EXCEPT !.lost = outage.lost + 1]
      BY <1>8 DEF Cancelled
    <3>2. outage \in [began: Nat, sent: Nat, late: Nat, lost: Nat]
      BY <1>0 DEF SourcesTypeOK
    <3>3. outage.lost + 1 \in Nat
      BY <3>2
    <3> QED  BY <3>1, <3>2, <3>3
  <2>1. SourcesTypeOK' /\ BreakerOK' /\ Down'
    BY <1>0, <1>5, <1>6, <1>8, <2>0 DEF SourcesTypeOK, BreakerOK, Down
  <2>2. NumWaiting \in Nat /\ NumWaiting <= NumWaiting' + 1 /\ NumCallers \in Nat
    BY <1>0, <1>5, WaitingFacts
  <2>3. ASSUME NEW t \in Nat, outage.began <= t
        PROVE  Allowed(t) \in Nat /\ Room(outage'.began, outage'.late, t) + outage'.lost = Allowed(t) + 1
    <3>1. /\ outage.began \in Nat /\ outage.late \in Nat /\ t <= t /\ outage.lost \in Nat
      BY <1>0, LoadFields
    <3>2. Room(outage.began, outage.late, t) \in Nat
      BY <2>3, <3>1, RoomFacts
    <3> QED  BY <2>0, <3>1, <3>2 DEF Allowed
  <2>4. Allowed(clock + 1) \in Nat /\ Allowed(clock + 1)' = Allowed(clock + 1) + 1
    <3>1. clock + 1 \in Nat /\ outage.began <= clock + 1
      BY <1>0, LoadFields
    <3> QED  BY <1>6, <2>3, <3>1 DEF Allowed
  <2>5. outage.began <= breaker.opened =>
           Allowed(breaker.opened) \in Nat /\ Allowed(breaker.opened)' = Allowed(breaker.opened) + 1
    <3>1. breaker.opened \in Nat
      BY <1>0, LoadFields
    <3> QED  BY <1>6, <2>3, <3>1 DEF Allowed
  <2>6. LoadOK'
    BY <1>0, <1>8, <2>0, <2>4, LoadFields DEF LoadInv, LoadOK
  <2>7. Counting'
    BY <1>0, <1>5, <1>6, <1>8, <2>0, <2>2, <2>4, LoadFields DEF LoadInv, Counting
  <2>8. Trying'
    BY <1>0, <1>5, <1>6, <1>8, <2>0, <2>2, <2>4, LoadFields DEF LoadInv, Trying
  <2>9. Shut'
    BY <1>0, <1>5, <1>6, <1>8, <2>0, <2>2, <2>5, LoadFields DEF LoadInv, Shut
  <2> QED  BY <2>1, <2>6, <2>7, <2>8, <2>9 DEF LoadInv
<1> QED  BY <1>7, <1>8

\* When the backend goes down, there is room for what the breaker lets through.
LEMMA DownStep == ASSUME LoadInv, GoesDown PROVE LoadInv'
<1>0. SourcesTypeOK /\ BreakerOK
  BY DEF LoadInv
<1>1. outage = Up /\ Waiting = {}
  BY <1>0 DEF BreakerOK, GoesDown
<1>2. /\ outage'.began = clock + 1 /\ outage'.sent = 0 /\ outage'.late = 0 /\ outage'.lost = 0
      /\ outage' \in [began: Nat, sent: Nat, late: Nat, lost: Nat]
      /\ UNCHANGED <<clock, breaker, call>>
  BY <1>0, <1>1, LoadFields DEF GoesDown, Up
<1>3. Waiting' = {} /\ NumWaiting' = 0
  BY <1>1, <1>2, FS_EmptySet DEF Waiting, OnItsWay, NumWaiting
<1>4. SourcesTypeOK' /\ Down'
  BY <1>0, <1>2, LoadFields DEF SourcesTypeOK, Down
<1>5. BreakerOK'
  BY <1>0, <1>2, <1>4, LoadFields DEF BreakerOK
<1>6. /\ NumCallers \in Nat /\ Room(clock + 1, 0, clock + 1) \in Nat
      /\ Threshold + NumCallers - 1 <= Room(clock + 1, 0, clock + 1)
  <2>1. clock + 1 \in Nat /\ clock + 1 <= clock + 1 /\ 0 \in Nat
    BY <1>0, LoadFields
  <2> QED  BY <2>1, RoomFacts
<1>7. Allowed(clock + 1)' = Room(clock + 1, 0, clock + 1)
  BY <1>2, <1>6 DEF Allowed
<1>8. LoadOK' /\ Counting' /\ Trying'
  BY <1>0, <1>2, <1>3, <1>6, <1>7, LoadFields DEF LoadOK, Counting, Trying
<1>9. Shut'
  <2>1. CASE breaker.opened = clock + 1
    <3>1. Allowed(breaker.opened)' = Room(clock + 1, 0, clock + 1)
      BY <1>2, <1>6, <2>1 DEF Allowed
    <3> QED  BY <1>2, <1>3, <1>6, <3>1 DEF Shut
  <2>2. CASE breaker.opened < clock + 1
    BY <1>0, <1>2, <2>2, LoadFields DEF Shut
  <2> QED  BY <1>0, <2>1, <2>2, LoadFields
<1> QED  BY <1>4, <1>5, <1>8, <1>9 DEF LoadInv

\* Time makes room.
LEMMA ClockStep == ASSUME LoadInv, ClockTick PROVE LoadInv'
<1>0. SourcesTypeOK /\ BreakerOK
  BY DEF LoadInv
<1>1. clock' = clock + 1 /\ UNCHANGED <<breaker, call, outage>>
  BY DEF ClockTick
<1>2. Waiting' = Waiting /\ NumWaiting' = NumWaiting /\ NumWaiting \in Nat /\ NumCallers \in Nat
  BY <1>0, <1>1, WaitingFacts DEF Waiting, OnItsWay, NumWaiting
<1>3. SourcesTypeOK' /\ BreakerOK'
  BY <1>0, <1>1, <1>2, LoadFields DEF SourcesTypeOK, BreakerOK, Down
<1>4. /\ Allowed(clock + 1) \in Nat /\ (Allowed(clock + 1))' \in Nat
      /\ Allowed(clock + 1) <= (Allowed(clock + 1))'
  <2>1. /\ outage.began \in Nat /\ outage.late \in Nat /\ clock + 1 \in Nat /\ clock' + 1 \in Nat
        /\ outage.began <= clock + 1 /\ clock + 1 <= clock' + 1 /\ outage.lost \in Nat
    BY <1>0, <1>1, LoadFields
  <2>2. /\ Room(outage.began, outage.late, clock + 1) \in Nat /\ Room(outage.began, outage.late, clock' + 1) \in Nat
        /\ Room(outage.began, outage.late, clock + 1) <= Room(outage.began, outage.late, clock' + 1)
    BY <2>1, RoomFacts
  <2> QED  BY <1>1, <2>1, <2>2 DEF Allowed
<1>5. LoadOK' /\ Counting' /\ Trying'
  BY <1>0, <1>1, <1>2, <1>4, LoadFields DEF LoadInv, LoadOK, Counting, Trying, Down
<1>6. Shut'
  BY <1>1, <1>2 DEF LoadInv, Shut, Allowed, Down
<1> QED  BY <1>3, <1>5, <1>6 DEF LoadInv

\* A new tool call, a call that the breaker ended, an outcome that is saved.
LEMMA ToolCallStep ==
    ASSUME LoadInv, NEW c \in Callers, Rejected(c) \/ Ask(c) \/ CircuitOpen(c) \/ Save(c)
    PROVE  LoadInv'
<1>0. SourcesTypeOK /\ call[c] \in CallRecord
  BY DEF LoadInv, SourcesTypeOK
<1>1. CASE Rejected(c)
  <2>1. call' = call /\ UNCHANGED <<breaker, outage, clock>>
    BY <1>1 DEF Rejected
  <2> QED  BY <1>0, <2>1, QuietStep DEF Waiting, OnItsWay, SourcesTypeOK
<1>2. ASSUME NEW r \in CallRecord, call' = [call EXCEPT ![c] = r], r.pc # "sent", call[c].pc # "sent",
             UNCHANGED <<breaker, outage, clock>>
      PROVE  LoadInv'
  BY <1>0, <1>2, OneMoves, QuietStep DEF OnItsWay
<1>3. CASE Ask(c)
  <2>1. [NoCall EXCEPT !.pc = "check"] \in CallRecord /\ [NoCall EXCEPT !.pc = "check"].pc = "check"
    BY DEF NoCall, CallRecord, NoResult
  <2>2. /\ call' = [call EXCEPT ![c] = [NoCall EXCEPT !.pc = "check"]] /\ call[c].pc = "idle"
        /\ UNCHANGED <<breaker, outage, clock>>
    BY <1>3 DEF Ask
  <2> QED  BY <1>2, <2>1, <2>2
<1>4. CASE CircuitOpen(c)
  <2>1. [call[c] EXCEPT !.pc = "save"] \in CallRecord /\ [call[c] EXCEPT !.pc = "save"].pc = "save"
    BY <1>0 DEF CallRecord
  <2>2. /\ call' = [call EXCEPT ![c] = [call[c] EXCEPT !.pc = "save"]] /\ call[c].pc = "check"
        /\ UNCHANGED <<breaker, outage, clock>>
    BY <1>0, <1>4 DEF CircuitOpen, SourcesTypeOK
  <2> QED  BY <1>2, <2>1, <2>2
<1>5. CASE Save(c)
  <2>1. NoCall \in CallRecord /\ NoCall.pc = "idle"
    BY DEF NoCall, CallRecord, NoResult
  <2>2. /\ call' = [call EXCEPT ![c] = NoCall] /\ call[c].pc = "save"
        /\ UNCHANGED <<breaker, outage, clock>>
    BY <1>5 DEF Save
  <2> QED  BY <1>2, <2>1, <2>2
<1> QED  BY <1>1, <1>3, <1>4, <1>5

LEMMA LoadInit == SourcesInit => LoadInv
<1> SUFFICES ASSUME SourcesInit PROVE LoadInv
  OBVIOUS
<1>1. SourcesTypeOK
  BY DEF SourcesInit, SourcesTypeOK, NoCall, NoResult, CallRecord, Up
<1>2. ~Down /\ outage = Up
  BY DEF SourcesInit, Down, Up
<1>3. Waiting = {}
  BY DEF SourcesInit, Waiting, OnItsWay, NoCall
<1>4. BreakerOK
  BY <1>2, <1>3 DEF SourcesInit, BreakerOK, Up
<1> QED  BY <1>1, <1>2, <1>4 DEF LoadInv, LoadOK, Counting, Trying, Shut

LEMMA LoadNext == LoadInv /\ [SourcesNext]_sourcesVars => LoadInv'
<1> SUFFICES ASSUME LoadInv, [SourcesNext]_sourcesVars PROVE LoadInv'
  OBVIOUS
<1>1. CASE UNCHANGED sourcesVars
  BY <1>1, QuietStep DEF sourcesVars, LoadInv, SourcesTypeOK, Waiting, OnItsWay
<1>2. ASSUME NEW c \in Callers,
             \/ Rejected(c) \/ Ask(c) \/ CircuitOpen(c) \/ Send(c) \/ Fetched(c) \/ Unusable(c)
             \/ FetchFails(c) \/ Save(c) \/ Cancelled(c)
      PROVE  LoadInv'
  BY <1>2, ToolCallStep, SendStep, AnswerStep, FailureStep, CancelStep
<1> QED  BY <1>1, <1>2, DownStep, ClockStep DEF SourcesNext

\* A backend that is down is left alone: it gets what the breaker allows until
\* it opens and one call of each caller per cooldown, for any threshold,
\* cooldown, number of callers and clock (Breaker and LiveSource.fetch).
THEOREM DownLeftAlone == SourcesSpec => []OutageLoad
<1>1. LoadInv => OutageLoad
  BY DEF LoadInv, LoadOK, OutageLoad, Allowed, Room, NumCallers, SourcesTypeOK
<1> QED  BY <1>1, LoadInit, LoadNext, PTL DEF SourcesSpec

-----------------------------------------------------------------------------
(* Sources: evidence                                                       *)

EvidenceInv == OwnId /\ ShownIsStored

\* Asking again stores nothing and shows what is stored.
LEMMA EvidenceStep == EvidenceInv /\ [SourcesNext]_sourcesVars => EvidenceInv'
<1> SUFFICES ASSUME EvidenceInv, [SourcesNext]_sourcesVars PROVE EvidenceInv'
  OBVIOUS
<1>1. ASSUME UNCHANGED <<stored, shown>> PROVE EvidenceInv'
  BY <1>1 DEF EvidenceInv, OwnId, ShownIsStored
<1>2. ASSUME NEW c \in Callers, Save(c) PROVE EvidenceInv'
  <2> DEFINE r == call[c].result
             row == [id |-> evidence_id(r), result |-> r]
  <2>1. /\ stored' = IF r = NoResult \/ \E x \in stored : x.id = evidence_id(r) THEN stored
                     ELSE stored \cup {row}
        /\ shown' = IF r = NoResult THEN shown ELSE shown \cup {row}
    BY <1>2 DEF Save
  <2>2. ASSUME NEW x \in stored, x.id = evidence_id(r) PROVE x = row
    <3>1. x = [id |-> evidence_id(x.result), result |-> x.result]
      BY DEF EvidenceInv, OwnId
    <3>2. evidence_id(x.result) = evidence_id(r)
      BY <2>2, <3>1
    <3>3. x.result = r
      BY <3>2 DEF evidence_id
    <3> QED  BY <3>1, <3>3
  <2>3. row.result = r /\ row.id = evidence_id(r)
    OBVIOUS
  <2>4. OwnId'
    <3>1. \A x \in stored : x = [id |-> evidence_id(x.result), result |-> x.result]
      BY DEF EvidenceInv, OwnId
    <3>2. row = [id |-> evidence_id(row.result), result |-> row.result]
      OBVIOUS
    <3> HIDE DEF row
    <3> QED  BY <2>1, <3>1, <3>2 DEF OwnId
  <2>5. ShownIsStored'
    <3> HIDE DEF row
    <3> QED  BY <2>1, <2>2 DEF EvidenceInv, ShownIsStored
  <2> QED  BY <2>4, <2>5 DEF EvidenceInv
<1>3. ASSUME NEW c \in Callers,
             \/ Rejected(c) \/ Ask(c) \/ CircuitOpen(c) \/ Send(c) \/ Fetched(c) \/ Unusable(c)
             \/ FetchFails(c) \/ Cancelled(c)
      PROVE  EvidenceInv'
  BY <1>1, <1>3 DEF Rejected, Ask, CircuitOpen, Send, Fetched, Unusable, FetchFails, Cancelled
<1>4. CASE GoesDown \/ ClockTick \/ UNCHANGED sourcesVars
  BY <1>1, <1>4 DEF GoesDown, ClockTick, sourcesVars
<1> QED  BY <1>2, <1>3, <1>4 DEF SourcesNext

\* What the model was shown under an id is what is stored under it, whichever
\* caller asked first and however often (evidence_id, PgEvidenceStore.save).
THEOREM ShownStays == SourcesSpec => []ShownIsStored
<1>1. SourcesInit => EvidenceInv
  BY DEF SourcesInit, EvidenceInv, OwnId, ShownIsStored
<1>2. EvidenceInv => ShownIsStored
  BY DEF EvidenceInv
<1> QED  BY <1>1, <1>2, EvidenceStep, PTL DEF SourcesSpec

-----------------------------------------------------------------------------
(* Llm                                                                     *)

StepRecord == [pc: {"queued", "running", "killing", "backoff", "answered", "raised", "cancelled"},
               attempt: Nat, process: Nat]

Left == {step[s].process : s \in {t \in Steppers : step[t].pc = "cancelled"}}

\* The steps that hold a permit: those with a process.
HasProcess(record) == record.pc \in {"running", "killing"}
Holders == {s \in Steppers : HasProcess(step[s])}

\* Every permit is free or held, and every process is of a holder, or left behind.
LlmInv ==
    /\ step \in [Steppers -> StepRecord]
    /\ permits \in Nat /\ started \in Nat
    /\ IsFiniteSet(Holders) /\ permits + Cardinality(Holders) = Concurrency
    /\ \A s \in Steppers : step[s].pc # "cancelled" => (HasProcess(step[s]) <=> step[s].process # NoProcess)
    /\ \A p \in processes : p \in Left \/ \E s \in Holders : step[s].process = p

LEMMA LlmStart == LlmInit => LlmInv
<1> SUFFICES ASSUME LlmInit PROVE LlmInv
  OBVIOUS
<1>1. step \in [Steppers -> StepRecord]
  BY DEF LlmInit, StepRecord, NoProcess
<1>2. \A s \in Steppers : step[s].pc = "queued" /\ step[s].process = NoProcess
  BY DEF LlmInit
<1>3. Holders = {}
  BY <1>2 DEF Holders, HasProcess
<1>4. permits \in Nat /\ permits = Concurrency /\ started \in Nat /\ processes = {}
  BY LlmConstants DEF LlmInit
<1> QED  BY <1>1, <1>2, <1>3, <1>4, FS_EmptySet DEF LlmInv, HasProcess

\* One agent's step goes on: it takes or gives back a permit with its process,
\* and lets go of a process only when it is gone or the step is cancelled.
LEMMA OneGoesOn ==
    ASSUME LlmInv, NEW s \in Steppers, NEW r \in StepRecord, step' = [step EXCEPT ![s] = r],
           step[s].pc # "cancelled",
           r.pc # "cancelled" => (HasProcess(r) <=> r.process # NoProcess),
           permits' \in Nat, started' \in Nat,
           HasProcess(step[s]) /\ ~HasProcess(r) => permits' = permits + 1,
           ~HasProcess(step[s]) /\ HasProcess(r) => permits' = permits - 1,
           (HasProcess(step[s]) <=> HasProcess(r)) => permits' = permits,
           \A p \in processes' : p \in processes \/ (HasProcess(r) /\ p = r.process),
           HasProcess(step[s]) /\ step[s].process \in processes' =>
               r.process = step[s].process /\ (HasProcess(r) \/ r.pc = "cancelled")
    PROVE  LlmInv'
<1>1. step' \in [Steppers -> StepRecord] /\ step'[s] = r /\ \A t \in Steppers \ {s} : step'[t] = step[t]
  BY DEF LlmInv
<1>2. Holders' = {t \in Steppers : HasProcess(step'[t])}
  BY DEF Holders, HasProcess
<1>3. Holders' = IF HasProcess(r) THEN Holders \cup {s} ELSE Holders \ {s}
  BY <1>1, <1>2 DEF Holders
<1>4. /\ IsFiniteSet(Holders) /\ permits + Cardinality(Holders) = Concurrency
      /\ permits \in Nat /\ Cardinality(Holders) \in Nat
      /\ (s \in Holders <=> HasProcess(step[s]))
  BY FS_CardinalityType DEF LlmInv, Holders
<1>5. IsFiniteSet(Holders') /\ permits' + Cardinality(Holders') = Concurrency
  <2>1. CASE HasProcess(r) /\ ~HasProcess(step[s])
    <3>1. IsFiniteSet(Holders \cup {s}) /\ Cardinality(Holders \cup {s}) = Cardinality(Holders) + 1
      BY <1>4, <2>1, FS_AddElement
    <3> QED  BY <1>3, <1>4, <2>1, <3>1
  <2>2. CASE ~HasProcess(r) /\ HasProcess(step[s])
    <3>1. IsFiniteSet(Holders \ {s}) /\ Cardinality(Holders \ {s}) = Cardinality(Holders) - 1
      BY <1>4, <2>2, FS_RemoveElement
    <3> QED  BY <1>3, <1>4, <2>2, <3>1
  <2>3. CASE HasProcess(r) <=> HasProcess(step[s])
    <3>1. Holders' = Holders
      BY <1>3, <1>4, <2>3
    <3> QED  BY <1>4, <2>3, <3>1
  <2> QED  BY <2>1, <2>2, <2>3
<1>6. ASSUME NEW t \in Steppers, step'[t].pc # "cancelled"
      PROVE  HasProcess(step'[t]) <=> step'[t].process # NoProcess
  BY <1>1, <1>6 DEF LlmInv
<1>7. Left' = {step'[t].process : t \in {u \in Steppers : step'[u].pc = "cancelled"}}
  BY DEF Left
<1>8. ASSUME NEW p \in processes' PROVE p \in Left' \/ \E t \in Holders' : step'[t].process = p
  <2>1. CASE HasProcess(r) /\ p = r.process
    BY <1>1, <1>3, <2>1
  <2>2. CASE p \in processes
    <3>1. CASE p \in Left
      <4>1. PICK t \in Steppers : step[t].pc = "cancelled" /\ step[t].process = p
        BY <3>1 DEF Left
      <4>2. t # s
        BY <4>1
      <4> QED  BY <1>1, <1>7, <4>1, <4>2
    <3>2. CASE p \notin Left
      <4>1. PICK t \in Holders : step[t].process = p
        BY <2>2, <3>2 DEF LlmInv
      <4>2. CASE t # s
        BY <1>1, <1>3, <4>1, <4>2 DEF Holders
      <4>3. CASE t = s
        <5>1. HasProcess(step[s]) /\ step[s].process \in processes'
          BY <1>4, <1>8, <4>1, <4>3
        <5>2. r.process = p /\ (HasProcess(r) \/ r.pc = "cancelled")
          BY <4>1, <4>3, <5>1
        <5> QED  BY <1>1, <1>3, <1>7, <5>2
      <4> QED  BY <4>2, <4>3
    <3> QED  BY <3>1, <3>2
  <2> QED  BY <2>1, <2>2
<1> QED  BY <1>1, <1>5, <1>6, <1>8 DEF LlmInv

\* What an error makes of a step: over or to be tried again, and no process.
LEMMA AfterErrorFacts ==
    ASSUME NEW s \in Steppers, step[s] \in StepRecord, NEW e
    PROVE  /\ AfterError(s, e) \in StepRecord /\ AfterError(s, e).process = NoProcess
           /\ AfterError(s, e).pc \in {"raised", "backoff"}
BY DEF AfterError, StepRecord, NoProcess

LEMMA LlmStep == LlmInv /\ [LlmNext]_llmVars => LlmInv'
<1> SUFFICES ASSUME LlmInv, [LlmNext]_llmVars PROVE LlmInv'
  OBVIOUS
<1>0. /\ step \in [Steppers -> StepRecord] /\ permits \in Nat /\ started \in Nat
      /\ \A s \in Steppers : step[s] \in StepRecord
      /\ \A s \in Steppers : step[s].pc # "cancelled" => (HasProcess(step[s]) <=> step[s].process # NoProcess)
  BY DEF LlmInv
<1>1. ASSUME NEW s \in Steppers, Start(s) PROVE LlmInv'
  <2> DEFINE n == started + 1
             r == [step[s] EXCEPT !.pc = "running", !.process = n]
  <2>1. step' = [step EXCEPT ![s] = r] /\ processes' = processes \cup {n} /\ step[s].pc = "queued"
        /\ permits' = permits - 1 /\ permits > 0 /\ started' = n
    BY <1>0, <1>1 DEF Start
  <2>2. n \in Nat /\ n # NoProcess
    BY <1>0 DEF NoProcess
  <2> HIDE DEF n
  <2>3. r \in StepRecord /\ r.pc = "running" /\ r.process = n
    BY <1>0, <2>2 DEF StepRecord
  <2> HIDE DEF r
  <2>4. HasProcess(r) /\ ~HasProcess(step[s]) /\ permits' \in Nat
    BY <1>0, <2>1, <2>3 DEF HasProcess
  <2> QED  BY <2>1, <2>2, <2>3, <2>4, OneGoesOn
<1>2. ASSUME NEW s \in Steppers, NEW r \in StepRecord, step' = [step EXCEPT ![s] = r], ~HasProcess(r),
             r.process = NoProcess, r.pc # "cancelled", step[s].pc # "cancelled",
             HasProcess(step[s]) => step[s].process \notin processes /\ permits' = permits + 1,
             ~HasProcess(step[s]) => permits' = permits,
             processes' = processes, started' = started
      PROVE  LlmInv'
  <2>1. permits' \in Nat /\ started' \in Nat
    BY <1>0, <1>2
  <2>2. /\ r.pc # "cancelled" => (HasProcess(r) <=> r.process # NoProcess)
        /\ HasProcess(step[s]) /\ ~HasProcess(r) => permits' = permits + 1
        /\ ~HasProcess(step[s]) /\ HasProcess(r) => permits' = permits - 1
        /\ (HasProcess(step[s]) <=> HasProcess(r)) => permits' = permits
        /\ \A p \in processes' : p \in processes \/ (HasProcess(r) /\ p = r.process)
        /\ HasProcess(step[s]) /\ step[s].process \in processes' =>
               r.process = step[s].process /\ (HasProcess(r) \/ r.pc = "cancelled")
    BY <1>2
  <2> QED  BY <1>2, <2>1, <2>2, OneGoesOn
<1>3. ASSUME NEW s \in Steppers, NotFound(s) PROVE LlmInv'
  <2> DEFINE r == [step[s] EXCEPT !.pc = "raised"]
  <2>1. step' = [step EXCEPT ![s] = r] /\ step[s].pc = "queued" /\ UNCHANGED <<processes, permits, started>>
    BY <1>0, <1>3 DEF NotFound
  <2>2. r \in StepRecord /\ r.pc = "raised" /\ r.process = step[s].process
    BY <1>0 DEF StepRecord
  <2>3. ~HasProcess(step[s]) /\ step[s].process = NoProcess
    BY <1>0, <2>1 DEF HasProcess
  <2> HIDE DEF r
  <2> QED  BY <1>2, <2>1, <2>2, <2>3 DEF HasProcess
<1>4. ASSUME NEW s \in Steppers, Exited(s) PROVE LlmInv'
  <2>1. /\ step[s].pc = "running" /\ step[s].process \notin processes
        /\ permits' = permits + 1 /\ UNCHANGED <<processes, started>>
    BY <1>4 DEF Exited
  <2>2. PICK r \in StepRecord : /\ step' = [step EXCEPT ![s] = r] /\ r.process = NoProcess
                                /\ r.pc \in {"answered", "raised", "backoff"}
    <3>1. CASE \E e \in StepErrors \ {"timeout"} : step' = [step EXCEPT ![s] = AfterError(s, e)]
      BY <1>0, <3>1, AfterErrorFacts
    <3>2. CASE step' = [step EXCEPT ![s] = [@ EXCEPT !.pc = "answered", !.process = NoProcess]]
      <4>1. step' = [step EXCEPT ![s] = [step[s] EXCEPT !.pc = "answered", !.process = NoProcess]]
        BY <1>0, <3>2
      <4>2. [step[s] EXCEPT !.pc = "answered", !.process = NoProcess] \in StepRecord
        BY <1>0 DEF StepRecord, NoProcess
      <4>3. /\ [step[s] EXCEPT !.pc = "answered", !.process = NoProcess].pc = "answered"
            /\ [step[s] EXCEPT !.pc = "answered", !.process = NoProcess].process = NoProcess
        BY <1>0 DEF StepRecord
      <4> QED  BY <4>1, <4>2, <4>3
    <3> QED  BY <1>4, <3>1, <3>2 DEF Exited
  <2> QED  BY <1>2, <2>1, <2>2 DEF HasProcess
<1>5. ASSUME NEW s \in Steppers, TimeLimit(s) PROVE LlmInv'
  <2> DEFINE r == [step[s] EXCEPT !.pc = "killing"]
  <2>1. step' = [step EXCEPT ![s] = r] /\ step[s].pc = "running" /\ UNCHANGED <<processes, permits, started>>
    BY <1>0, <1>5 DEF TimeLimit
  <2>2. r \in StepRecord /\ r.pc = "killing" /\ r.process = step[s].process
    BY <1>0 DEF StepRecord
  <2> HIDE DEF r
  <2>3. HasProcess(step[s]) /\ HasProcess(r) /\ r.process # NoProcess
    BY <1>0, <2>1, <2>2 DEF HasProcess
  <2> QED  BY <1>0, <2>1, <2>2, <2>3, OneGoesOn
<1>6. ASSUME NEW s \in Steppers, Killed(s) PROVE LlmInv'
  <2>1. /\ step[s].pc = "killing" /\ step[s].process \notin processes
        /\ permits' = permits + 1 /\ UNCHANGED <<processes, started>>
        /\ step' = [step EXCEPT ![s] = AfterError(s, "timeout")]
    BY <1>6 DEF Killed
  <2>2. /\ AfterError(s, "timeout") \in StepRecord /\ AfterError(s, "timeout").process = NoProcess
        /\ AfterError(s, "timeout").pc \in {"raised", "backoff"}
    BY <1>0, AfterErrorFacts
  <2> QED  BY <1>2, <2>1, <2>2 DEF HasProcess
<1>7. ASSUME NEW s \in Steppers, Retry(s) PROVE LlmInv'
  <2> DEFINE n == step[s].attempt + 1
             r == [step[s] EXCEPT !.pc = "queued", !.attempt = n]
  <2>1. step' = [step EXCEPT ![s] = r] /\ step[s].pc = "backoff" /\ UNCHANGED <<processes, permits, started>>
    BY <1>0, <1>7 DEF Retry
  <2>2. n \in Nat
    BY <1>0 DEF StepRecord
  <2> HIDE DEF n
  <2>3. r \in StepRecord /\ r.pc = "queued" /\ r.process = step[s].process
    BY <1>0, <2>2 DEF StepRecord
  <2>4. ~HasProcess(step[s]) /\ step[s].process = NoProcess
    BY <1>0, <2>1 DEF HasProcess
  <2> HIDE DEF r
  <2> QED  BY <1>2, <2>1, <2>3, <2>4 DEF HasProcess
<1>8. ASSUME NEW s \in Steppers, Cancel(s) PROVE LlmInv'
  <2> DEFINE r == [step[s] EXCEPT !.pc = "cancelled"]
  <2>1. /\ step' = [step EXCEPT ![s] = r] /\ step[s].pc # "cancelled" /\ UNCHANGED <<processes, started>>
        /\ permits' = IF step[s].process # NoProcess THEN permits + 1 ELSE permits
    BY <1>0, <1>8 DEF Cancel
  <2>2. r \in StepRecord /\ r.pc = "cancelled" /\ r.process = step[s].process
    BY <1>0 DEF StepRecord
  <2> HIDE DEF r
  <2>3. ~HasProcess(r) /\ (HasProcess(step[s]) <=> step[s].process # NoProcess)
    BY <1>0, <2>1, <2>2 DEF HasProcess
  <2>4. permits' \in Nat /\ started' \in Nat
    BY <1>0, <2>1
  <2>5. /\ r.pc # "cancelled" => (HasProcess(r) <=> r.process # NoProcess)
        /\ HasProcess(step[s]) /\ ~HasProcess(r) => permits' = permits + 1
        /\ ~HasProcess(step[s]) /\ HasProcess(r) => permits' = permits - 1
        /\ (HasProcess(step[s]) <=> HasProcess(r)) => permits' = permits
        /\ \A p \in processes' : p \in processes \/ (HasProcess(r) /\ p = r.process)
        /\ HasProcess(step[s]) /\ step[s].process \in processes' =>
               r.process = step[s].process /\ (HasProcess(r) \/ r.pc = "cancelled")
    BY <2>1, <2>2, <2>3
  <2> QED  BY <2>1, <2>2, <2>4, <2>5, OneGoesOn
<1>9. ASSUME NEW p \in processes, Exit(p) PROVE LlmInv'
  <2>1. processes' = processes \ {p} /\ UNCHANGED <<step, permits, started>>
    BY <1>9 DEF Exit
  <2>2. Holders' = Holders /\ Left' = Left
    BY <2>1 DEF Holders, HasProcess, Left
  <2> QED  BY <2>1, <2>2 DEF LlmInv, HasProcess
<1>10. CASE UNCHANGED llmVars
  <2>1. Holders' = Holders /\ Left' = Left
    BY <1>10 DEF llmVars, Holders, HasProcess, Left
  <2> QED  BY <1>10, <2>1 DEF llmVars, LlmInv, HasProcess
<1> QED  BY <1>1, <1>3, <1>4, <1>5, <1>6, <1>7, <1>8, <1>9, <1>10 DEF LlmNext

\* The semaphore bounds the processes that run, for any number of agents, time
\* limits, retries and cancellations: those of cancelled steps excepted, which
\* nobody kills (ClaudeCLIBackend.step, _run).
THEOREM FewProcesses == LlmSpec => []FewAtATime
<1>1. LlmInv => FewAtATime
  <2> SUFFICES ASSUME LlmInv PROVE Cardinality(processes \ Left) <= Concurrency
    BY DEF FewAtATime, Left
  <2> DEFINE of == {step[s].process : s \in Holders}
  <2>1. processes \ Left \subseteq of
    BY DEF LlmInv
  <2>2. /\ IsFiniteSet(Holders) /\ Cardinality(Holders) \in Nat /\ permits \in Nat
        /\ permits + Cardinality(Holders) = Concurrency
    BY FS_CardinalityType DEF LlmInv
  <2>3. IsFiniteSet(of) /\ Cardinality(of) <= Cardinality(Holders)
    <3> DEFINE f == [s \in Holders |-> step[s].process]
    <3>1. f \in Surjection(Holders, of)
      BY DEF Surjection
    <3> QED  BY <2>2, <3>1, FS_Surjection
  <2> HIDE DEF of
  <2>4. IsFiniteSet(processes \ Left) /\ Cardinality(processes \ Left) <= Cardinality(of)
    BY <2>1, <2>3, FS_Subset
  <2>5. Cardinality(processes \ Left) \in Nat /\ Cardinality(of) \in Nat
    BY <2>3, <2>4, FS_CardinalityType
  <2> QED  BY <2>2, <2>3, <2>4, <2>5, LlmConstants
<1> QED  BY <1>1, LlmStart, LlmStep, PTL DEF LlmSpec

-----------------------------------------------------------------------------
(* Policy: the invariant                                                   *)

Agents == DOMAIN ShownTo \ {"planner"}
ShownToSome == UNION {ShownTo[agent] : agent \in Agents}

\* What may be cited, until the diagnosis is there, was shown to an investigator.
CitedShown == judged.stage = "report" => judged.cited \subseteq ShownToSome
\* The root cause, if there is one, rests on something live that was shown.
Solid(cause) ==
    \E e \in cause.ids : e \in Rows /\ Evidence[e].tool \notin KNOWLEDGE_TOOLS /\ e \in ShownToSome
CauseSolid == judged.cause = NoCause \/ Solid(judged.cause)
\* The verdict is the one of the plan that was reviewed.
VerdictIsOf ==
    judged.stage = "reviewed" => judged.verdict = evaluate(judged.plan, judged.cause, judged.ctx)

JudgedOK ==
    /\ DOMAIN judged = {"stage", "cited", "cause", "plan", "verdict", "ctx"}
    /\ judged.plan \subseteq PlanActions
    /\ judged.stage = "reviewed" => judged.ctx \in Contexts

PolicyInv == JudgedOK /\ CitedShown /\ CauseSolid /\ VerdictIsOf

LEMMA PolicyStart == PolicyInit => PolicyInv
  BY DEF PolicyInit, PolicyInv, JudgedOK, CitedShown, CauseSolid, VerdictIsOf

LEMMA KeptIsSolid ==
    ASSUME NEW cause \in Causes, NEW told, told \subseteq ShownToSome, Keep(cause.ids, told, TRUE)
    PROVE  Solid(cause)
<1>1. cause.ids # {} /\ cause.ids \subseteq Rows \cap told
  BY PolicyConstants DEF Keep, IdProblems
<1>2. ToolsOf(cause.ids) # {}
  BY <1>1 DEF ToolsOf
<1>3. PICK tool \in ToolsOf(cause.ids) : tool \notin KNOWLEDGE_TOOLS
  BY <1>2 DEF Keep
<1>4. PICK e \in cause.ids \cap Rows : tool = Evidence[e].tool
  BY <1>3 DEF ToolsOf
<1> QED BY <1>1, <1>3, <1>4 DEF Solid

LEMMA DiagnosedInv ==
    ASSUME PolicyInv, NEW causes \in Diagnoses, Diagnosed(causes)
    PROVE  PolicyInv'
<1> DEFINE kept == check_diagnosis(causes, judged.cited)
           cause == IF kept = {} THEN NoCause ELSE causes[Min(kept)]
           cited == UNION {causes[i].ids : i \in kept}
<1>1. judged.stage = "report" /\ judged.cited \subseteq ShownToSome
  BY DEF Diagnosed, PolicyInv, JudgedOK, CitedShown
<1>2. cause = NoCause \/ Solid(cause)
  <2> SUFFICES ASSUME kept # {} PROVE Solid(causes[Min(kept)])
    OBVIOUS
  <2>1. PICK n \in 0..MaxCauses : causes \in [1..n -> Causes]
    BY DEF Diagnoses
  <2>2. kept \subseteq 1..n /\ 1..n \subseteq Nat
    <3>1. DOMAIN causes = 1..n
      BY <2>1
    <3>2. kept \subseteq DOMAIN causes
      BY Zenon DEF check_diagnosis
    <3> QED BY <3>1, <3>2
  <2>3. Min(kept) \in kept
    BY <2>2, MinIn
  <2>4. causes[Min(kept)] \in Causes /\ Keep(causes[Min(kept)].ids, judged.cited, TRUE)
    BY <2>1, <2>2, <2>3 DEF check_diagnosis
  <2> QED BY <1>1, <2>4, KeptIsSolid
<1>3. judged' = [judged EXCEPT !.stage = "plan", !.cause = cause, !.cited = cited]
  BY DEF Diagnosed
<1> HIDE DEF cause, cited, kept
<1>4. /\ DOMAIN judged' = DOMAIN judged
      /\ judged'.stage = "plan" /\ judged'.cause = cause /\ judged'.plan = judged.plan
  BY <1>3 DEF PolicyInv, JudgedOK
<1> QED BY <1>2, <1>4 DEF PolicyInv, JudgedOK, CitedShown, CauseSolid, VerdictIsOf

LEMMA ReportedInv ==
    ASSUME PolicyInv, NEW agent \in Agents, NEW f \in Findings, Reported(agent, f)
    PROVE  PolicyInv'
<1>1. judged.stage = "report" /\ judged.cited \subseteq ShownToSome
  BY DEF Reported, PolicyInv, JudgedOK, CitedShown
<1>2. f.ids \subseteq ShownToSome
  BY DEF Reported, FindingKept, IdProblems, ShownToSome
<1>3. /\ DOMAIN judged' = DOMAIN judged /\ judged'.cited = judged.cited \cup f.ids
      /\ judged'.stage = judged.stage /\ judged'.cause = judged.cause /\ judged'.plan = judged.plan
  BY DEF Reported, PolicyInv, JudgedOK
<1> QED BY <1>1, <1>2, <1>3 DEF PolicyInv, JudgedOK, CitedShown, CauseSolid, VerdictIsOf

LEMMA ProposedInv ==
    ASSUME PolicyInv, NEW plan \in Plans, NEW by \in {"planner", "person"}, Proposed(plan, by)
    PROVE  PolicyInv'
<1> DEFINE checked == IF by = "person" THEN plan
                      ELSE check_plan(plan, ShownTo["planner"] \cup judged.cited)
<1>1. checked \subseteq PlanActions
  BY DEF Plans, check_plan
<1>2. judged' = [judged EXCEPT !.stage = "review", !.cited = {}, !.plan = checked]
  BY DEF Proposed
<1> HIDE DEF checked
<1>3. /\ DOMAIN judged' = DOMAIN judged /\ judged'.plan = checked
      /\ judged'.stage = "review" /\ judged'.cause = judged.cause
  BY <1>2 DEF PolicyInv, JudgedOK
<1> QED BY <1>1, <1>3 DEF PolicyInv, JudgedOK, CitedShown, CauseSolid, VerdictIsOf

LEMMA ReviewedInv ==
    ASSUME PolicyInv, NEW ctx \in Contexts, Reviewed(ctx)
    PROVE  PolicyInv'
<1> DEFINE v == evaluate(judged.plan, judged.cause, ctx)
<1>1. judged' = [judged EXCEPT !.stage = "reviewed", !.ctx = ctx, !.verdict = v]
  BY DEF Reviewed
<1> HIDE DEF v
<1>2. /\ DOMAIN judged' = DOMAIN judged /\ judged'.plan = judged.plan /\ judged'.ctx = ctx
      /\ judged'.stage = "reviewed" /\ judged'.cause = judged.cause /\ judged'.verdict = v
  BY <1>1 DEF PolicyInv, JudgedOK
<1> QED BY <1>2 DEF PolicyInv, JudgedOK, CitedShown, CauseSolid, VerdictIsOf, v

LEMMA PolicyStep == PolicyInv /\ [PolicyNext]_policyVars => PolicyInv'
<1> SUFFICES ASSUME PolicyInv, [PolicyNext]_policyVars PROVE PolicyInv'
  OBVIOUS
<1>1. CASE UNCHANGED policyVars
  BY <1>1 DEF policyVars, PolicyInv, JudgedOK, CitedShown, CauseSolid, VerdictIsOf
<1> QED BY <1>1, ReportedInv, DiagnosedInv, ProposedInv, ReviewedInv DEF PolicyNext, Agents

-----------------------------------------------------------------------------
(* Policy: what follows                                                    *)

LEMMA RiskOf ==
    ASSUME NEW plan, \E a \in plan : InCatalogue(a)
    PROVE  /\ Risk(plan) \in 2..3
           /\ \A a \in plan : InCatalogue(a) => CATALOGUE_RISK[a.action] <= Risk(plan)
           /\ \E a \in plan : InCatalogue(a) /\ CATALOGUE_RISK[a.action] = Risk(plan)
<1> DEFINE S == {CATALOGUE_RISK[a.action] : a \in {b \in plan : InCatalogue(b)}}
<1>1. S # {} /\ \A x \in S : x = 2 \/ x = 3
  BY DEF InCatalogue, CATALOGUE_RISK
<1>4. Risk(plan) = Max(S)
  BY DEF Risk
<1> HIDE DEF S
<1>2. \E x \in S : \A y \in S : x >= y
  <2>1. CASE 3 \in S
    BY <1>1, <2>1
  <2>2. CASE 3 \notin S
    BY <1>1, <2>2
  <2> QED BY <2>1, <2>2
<1>3. Max(S) \in S /\ \A y \in S : Max(S) >= y
  BY <1>2 DEF Max
<1>5. Risk(plan) \in S /\ Risk(plan) \in 2..3 /\ \A y \in S : y <= Risk(plan)
  BY <1>1, <1>3, <1>4
<1> QED BY <1>5 DEF S

LEMMA AddedIsStricter ==
    ASSUME NEW plan, plan # {}, NEW a, NEW cause, NEW ctx \in Contexts
    PROVE  evaluate(plan \cup {a}, cause, ctx) >= evaluate(plan, cause, ctx)
<1> DEFINE more == plan \cup {a}
<1>0. evaluate(plan, cause, ctx) \in {0, 1, 2} /\ evaluate(more, cause, ctx) \in {0, 1, 2}
  BY DEF evaluate
<1>1. CASE Blocked(more, cause, ctx)
  BY <1>0, <1>1 DEF evaluate
<1>2. CASE ~Blocked(more, cause, ctx)
  <2>1. ~Blocked(plan, cause, ctx)
    BY <1>2 DEF Blocked
  <2>2. (\E b \in plan : InCatalogue(b)) /\ \E b \in more : InCatalogue(b)
    BY <2>1 DEF Blocked
  <2>3. Risk(plan) <= Risk(more) /\ Risk(plan) \in 2..3 /\ Risk(more) \in 2..3
    BY <2>2, RiskOf
  <2>4. ctx.auto_max_risk \in 1..3
    BY DEF Contexts
  <2> QED BY <1>0, <1>2, <2>1, <2>3, <2>4 DEF evaluate
<1> QED BY <1>1, <1>2

LEMMA PolicyIsSound == PolicyInv => ReviewHolds
<1> SUFFICES ASSUME PolicyInv PROVE ReviewHolds
  OBVIOUS
<1>1. NeverOnHearsay
  <2> SUFFICES ASSUME judged.stage = "reviewed", judged.verdict < 2
               PROVE  Solid(judged.cause)
    BY DEF NeverOnHearsay, Solid, ShownToSome, Agents
  <2>1. ~Blocked(judged.plan, judged.cause, judged.ctx)
    BY DEF PolicyInv, JudgedOK, VerdictIsOf, evaluate
  <2>2. judged.cause # NoCause
    BY <2>1 DEF Blocked, OnProblemHost
  <2> QED BY <2>2 DEF PolicyInv, JudgedOK, CauseSolid
<1>2. AddingNeverRelaxes
  <2> SUFFICES ASSUME judged.stage = "reviewed", judged.plan # {}, NEW a \in PlanActions
               PROVE  evaluate(judged.plan \cup {a}, judged.cause, judged.ctx) >= judged.verdict
    BY DEF AddingNeverRelaxes
  <2>1. judged.ctx \in Contexts /\ judged.verdict = evaluate(judged.plan, judged.cause, judged.ctx)
    BY DEF PolicyInv, JudgedOK, VerdictIsOf
  <2> DEFINE p == judged.plan  c == judged.cause  x == judged.ctx
  <2>2. p # {} /\ x \in Contexts
    BY <2>1
  <2> HIDE DEF p, c, x
  <2>3. evaluate(p \cup {a}, c, x) >= evaluate(p, c, x)
    BY <2>2, AddedIsStricter
  <2> QED BY <2>1, <2>3 DEF p, c, x
<1> QED BY <1>1, <1>2 DEF ReviewHolds

THEOREM ReviewedRight == PolicySpec => []ReviewHolds
<1> QED BY PolicyStart, PolicyStep, PolicyIsSound, PTL DEF PolicySpec

-----------------------------------------------------------------------------
(* Knowledge: the invariant                                                *)

StillRuns(run) == run.pc # "idle"
RunShape(run) ==
    /\ DOMAIN run = {"pc", "target", "stored", "todo", "others"}
    /\ run.pc \in {"idle", "docs", "done"}
    /\ run.pc # "idle" => run.target \in KbTargets /\ run.todo \subseteq DOMAIN run.target.dir

KbShape ==
    /\ DOMAIN documents = KbDocs
    /\ DOMAIN ingester = Ingesters
    /\ \A p \in Ingesters : RunShape(ingester[p])
    /\ DOMAIN query = {"at", "texts", "between"}
    /\ \A a \in query.texts : a.doc \in KbDocs

\* A document is as a run found it or as it wants it, and what it has dealt with
\* is as it wants it, while only runs with its own target commit.
Wanted(run, docs) ==
    /\ run.pc = "docs" /\ ~run.others =>
          \A d \in KbDocs :
             /\ docs[d] \in {run.stored[d], KeyIn(run.target, d)}
             /\ d \in DOMAIN run.target.dir \ run.todo => docs[d] = KeyIn(run.target, d)
    /\ run.pc = "done" /\ ~run.others =>
          \A d \in KbDocs : d \in DOMAIN run.target.dir \/ run.target.prune => docs[d] = KeyIn(run.target, d)

\* Between the queries of a search: what has been found is still stored, unless
\* its document was written since.
FoundStored ==
    query.at = "bm25" =>
        \A a \in query.texts : a.doc \notin query.between => a.key = documents[a.doc]

KnowledgeInv ==
    /\ KbShape /\ OneVersion /\ FoundStored /\ SearchOfOneVersion
    /\ \A p \in Ingesters : Wanted(ingester[p], documents)

LEMMA ChunksAre ==
    ASSUME OneVersion, NEW c
    PROVE  c \in kbChunks <=> \E d \in KbDocs : documents[d] # NoKey /\ c \in PiecesOf(d, documents[d])
  BY DEF OneVersion

LEMMA PieceOf ==
    ASSUME NEW d, NEW key, NEW c \in PiecesOf(d, key)
    PROVE  c.doc = d /\ c.key = key
  BY DEF PiecesOf

LEMMA KnowledgeStart == KnowledgeInit => KnowledgeInv
<1> SUFFICES ASSUME KnowledgeInit PROVE KnowledgeInv
  OBVIOUS
<1>1. KbShape /\ \A p \in Ingesters : Wanted(ingester[p], documents)
  BY DEF KnowledgeInit, KbShape, RunShape, Wanted, NotRunning, NoSearch, NoDocs
<1>2. OneVersion
  BY DEF KnowledgeInit, OneVersion, NoDocs
<1> QED BY <1>1, <1>2 DEF KnowledgeInit, KnowledgeInv, NoSearch, FoundStored, SearchOfOneVersion

\* A document written, or removed, with its chunks.
LEMMA VersionKept ==
    ASSUME KbShape, OneVersion, NEW W, NEW new, DOMAIN new = KbDocs,
           \A d \in KbDocs \ W : new[d] = documents[d],
           documents' = new,
           kbChunks' = {c \in kbChunks : c.doc \notin W}
                       \cup UNION {PiecesOf(d, new[d]) : d \in {e \in KbDocs \cap W : new[e] # NoKey}}
    PROVE  OneVersion'
<1> SUFFICES kbChunks' = UNION {PiecesOf(d, new[d]) : d \in {e \in KbDocs : new[e] # NoKey}}
  BY DEF OneVersion
<1>1. ASSUME NEW c \in kbChunks'
      PROVE  \E d \in KbDocs : new[d] # NoKey /\ c \in PiecesOf(d, new[d])
  <2>1. CASE c \in kbChunks /\ c.doc \notin W
    <3>1. PICK d \in KbDocs : documents[d] # NoKey /\ c \in PiecesOf(d, documents[d])
      BY <2>1, ChunksAre
    <3>2. d \notin W
      BY <2>1, <3>1, PieceOf
    <3> QED BY <3>1, <3>2
  <2> QED BY <1>1, <2>1
<1>2. ASSUME NEW d \in KbDocs, new[d] # NoKey, NEW c \in PiecesOf(d, new[d])
      PROVE  c \in kbChunks'
  <2>1. CASE d \in W
    BY <1>2, <2>1
  <2>2. CASE d \notin W
    <3>1. documents[d] # NoKey /\ c \in PiecesOf(d, documents[d]) /\ c.doc = d
      BY <1>2, <2>2, PieceOf
    <3> QED BY <2>2, <3>1, ChunksAre
  <2> QED BY <2>1, <2>2
<1> QED BY <1>1, <1>2

LEMMA SearchKept ==
    ASSUME KbShape, FoundStored, SearchOfOneVersion, NEW W,
           DOMAIN documents' = KbDocs, \A d \in KbDocs \ W : documents'[d] = documents[d],
           query' = IF query.at = "bm25" THEN [query EXCEPT !.between = @ \cup W] ELSE query
    PROVE  FoundStored' /\ SearchOfOneVersion' /\ DOMAIN query' = DOMAIN query /\ query'.texts = query.texts
<1>1. CASE query.at = "bm25"
  <2> DEFINE w == query.between \cup W
  <2>1. query' = [query EXCEPT !.between = w]
    BY <1>1
  <2> HIDE DEF w
  <2>2. query'.at = query.at /\ query'.texts = query.texts /\ query'.between = w /\ DOMAIN query' = DOMAIN query
    BY <2>1 DEF KbShape
  <2>3. FoundStored'
    BY <1>1, <2>2 DEF FoundStored, w, KbShape
  <2>4. SearchOfOneVersion'
    BY <2>2 DEF SearchOfOneVersion, w
  <2> QED BY <2>2, <2>3, <2>4
<1>2. CASE query.at # "bm25"
  BY <1>2 DEF FoundStored, SearchOfOneVersion
<1> QED BY <1>1, <1>2

\* What a commit for target is to a run of another.
LEMMA OthersKept ==
    ASSUME NEW run, NEW target, NEW new, NEW others, RunShape(run), Wanted(run, documents),
           \A d \in KbDocs : new[d] = documents[d] \/ new[d] = KeyIn(target, d),
           ~others /\ run.pc # "idle" => ~run.others /\ run.target = target
    PROVE  LET after == [run EXCEPT !.others = others]
           IN  RunShape(after) /\ Wanted(after, new)
<1> DEFINE after == [run EXCEPT !.others = others]
<1>2. /\ DOMAIN after = DOMAIN run /\ after.pc = run.pc /\ after.target = run.target
      /\ after.stored = run.stored /\ after.todo = run.todo /\ after.others = others
  BY DEF RunShape
<1> HIDE DEF after
<1>3. RunShape(after)
  BY <1>2 DEF RunShape
<1>6. Wanted(after, new)
  BY <1>2 DEF Wanted
<1> QED BY <1>3, <1>6 DEF after

\* A commit of p, whole.
LEMMA CommitKept ==
    ASSUME KnowledgeInv, NEW p \in Ingesters, NEW W, NEW next, NEW new, DOMAIN new = KbDocs,
           \A d \in KbDocs \ W : new[d] = documents[d],
           \A d \in KbDocs \cap W : new[d] = KeyIn(next.target, d),
           documents' = new,
           kbChunks' = {c \in kbChunks : c.doc \notin W}
                       \cup UNION {PiecesOf(d, new[d]) : d \in {e \in KbDocs \cap W : new[e] # NoKey}},
           Committed(p, W, next), RunShape(next), Wanted(next, new)
    PROVE  KnowledgeInv'
<1>1. KbShape /\ OneVersion /\ FoundStored /\ SearchOfOneVersion /\ \A q \in Ingesters : Wanted(ingester[q], documents)
  BY DEF KnowledgeInv
<1>2. OneVersion'
  BY <1>1, VersionKept
<1>3. FoundStored' /\ SearchOfOneVersion' /\ DOMAIN query' = DOMAIN query /\ query'.texts = query.texts
  BY <1>1, SearchKept DEF Committed
<1>4. DOMAIN ingester' = Ingesters /\ ingester'[p] = next
  BY DEF Committed
<1>5. ASSUME NEW q \in Ingesters, q # p
      PROVE  RunShape(ingester'[q]) /\ Wanted(ingester'[q], new)
  <2> DEFINE run == ingester[q]  others == run.others \/ (run.pc # "idle" /\ run.target # next.target)
             after == [run EXCEPT !.others = others]
  <2>1. ingester'[q] = after
    BY <1>5 DEF Committed
  <2>2. RunShape(run) /\ Wanted(run, documents)
    BY <1>1 DEF KbShape
  <2>3. \A d \in KbDocs : new[d] = documents[d] \/ new[d] = KeyIn(next.target, d)
    OBVIOUS
  <2>4. ~others /\ run.pc # "idle" => ~run.others /\ run.target = next.target
    OBVIOUS
  <2> HIDE DEF others, run
  <2>5. RunShape(after) /\ Wanted(after, new)
    BY <2>2, <2>3, <2>4, OthersKept
  <2> QED BY <2>1, <2>5
<1>6. \A q \in Ingesters : RunShape(ingester'[q]) /\ Wanted(ingester'[q], documents')
  BY <1>4, <1>5
<1>7. KbShape'
  BY <1>1, <1>3, <1>4, <1>6 DEF KbShape
<1> QED BY <1>2, <1>3, <1>6, <1>7 DEF KnowledgeInv

\* A step of p that commits nothing.
LEMMA AloneKept ==
    ASSUME KnowledgeInv, NEW p \in Ingesters, NEW next, UNCHANGED <<documents, kbChunks, query>>,
           ingester' = [ingester EXCEPT ![p] = next], RunShape(next), Wanted(next, documents)
    PROVE  KnowledgeInv'
<1>1. KbShape /\ OneVersion /\ FoundStored /\ SearchOfOneVersion /\ \A q \in Ingesters : Wanted(ingester[q], documents)
  BY DEF KnowledgeInv
<1>2. DOMAIN ingester' = Ingesters /\ \A q \in Ingesters : RunShape(ingester'[q]) /\ Wanted(ingester'[q], documents')
  BY <1>1 DEF KbShape
<1>3. KbShape' /\ OneVersion' /\ FoundStored' /\ SearchOfOneVersion'
  BY <1>1, <1>2 DEF KbShape, OneVersion, FoundStored, SearchOfOneVersion
<1> QED BY <1>2, <1>3 DEF KnowledgeInv

LEMMA IdleRun == RunShape(NotRunning) /\ Wanted(NotRunning, documents)
  BY DEF RunShape, Wanted, NotRunning

LEMMA StartKept ==
    ASSUME KnowledgeInv, NEW p \in Ingesters, NEW target \in KbTargets, StartIngest(p, target)
    PROVE  KnowledgeInv'
<1> DEFINE next == [pc |-> "docs", target |-> target, stored |-> documents,
                    todo |-> DOMAIN target.dir, others |-> FALSE]
<1>1. RunShape(next)
  BY DEF RunShape
<1>2. Wanted(next, documents)
  BY DEF Wanted
<1>3. ingester' = [ingester EXCEPT ![p] = next] /\ UNCHANGED <<documents, kbChunks, query>>
  BY DEF StartIngest
<1> HIDE DEF next
<1> QED BY <1>1, <1>2, <1>3, AloneKept

LEMMA FailsKept ==
    ASSUME KnowledgeInv, NEW p \in Ingesters, IngestFails(p)
    PROVE  KnowledgeInv'
  BY IdleRun, AloneKept DEF IngestFails

LEMMA StoreKept ==
    ASSUME KnowledgeInv, NEW p \in Ingesters, StoreDocument(p)
    PROVE  KnowledgeInv'
<1> DEFINE run == ingester[p]  d == Min(run.todo)  key == KeyIn(run.target, d)  left == run.todo \ {d}
           next == [run EXCEPT !.todo = left]
<1>1. /\ run.pc = "docs" /\ run.todo # {} /\ RunShape(run) /\ Wanted(run, documents)
      /\ run.target \in KbTargets /\ run.todo \subseteq DOMAIN run.target.dir /\ DOMAIN documents = KbDocs
  BY DEF StoreDocument, KnowledgeInv, KbShape, RunShape
<1>2. run.todo \subseteq Nat /\ DOMAIN run.target.dir \subseteq KbDocs
  BY <1>1, KnowledgeConstants DEF KbDocs
<1>3. d \in run.todo /\ d \in KbDocs /\ d \in DOMAIN run.target.dir
  BY <1>1, <1>2, MinIn
<1>4. key # NoKey
  BY <1>1, <1>3, KnowledgeConstants DEF KeyIn, NoKey
<1>5. CASE ingester' = [ingester EXCEPT ![p] = NotRunning] /\ UNCHANGED <<documents, kbChunks, query>>
  BY <1>5, IdleRun, AloneKept
<1>6. CASE run.stored[d] = key /\ ingester' = [ingester EXCEPT ![p] = next] /\ UNCHANGED <<documents, kbChunks, query>>
  <2> HIDE DEF d, key, left
  <2>1. /\ DOMAIN next = DOMAIN run /\ next.pc = run.pc /\ next.target = run.target
        /\ next.stored = run.stored /\ next.todo = left /\ next.others = run.others
    BY <1>1 DEF RunShape
  <2>2. RunShape(next)
    BY <1>1, <2>1 DEF RunShape, left
  <2>3. ~run.others => documents[d] = KeyIn(run.target, d)
    BY <1>1, <1>3, <1>6 DEF Wanted, key
  <2>4. Wanted(next, documents)
    BY <1>1, <2>1, <2>3 DEF Wanted, left
  <2> HIDE DEF next
  <2> QED BY <1>6, <2>2, <2>4, AloneKept
<1>7. CASE /\ documents' = [documents EXCEPT ![d] = key]
           /\ kbChunks' = {c \in kbChunks : c.doc # d} \cup PiecesOf(d, key)
           /\ Committed(p, {d}, next)
  <2> DEFINE new == [documents EXCEPT ![d] = key]
  <2> HIDE DEF d, key, left
  <2>1. /\ DOMAIN next = DOMAIN run /\ next.pc = run.pc /\ next.target = run.target
        /\ next.stored = run.stored /\ next.todo = left /\ next.others = run.others
    BY <1>1 DEF RunShape
  <2>2. RunShape(next)
    BY <1>1, <2>1 DEF RunShape, left
  <2>3. DOMAIN new = KbDocs /\ new[d] = key /\ \A e \in KbDocs \ {d} : new[e] = documents[e]
    BY <1>1, <1>3
  <2> HIDE DEF new
  <2>4. Wanted(next, new)
    BY <1>1, <2>1, <2>3 DEF Wanted, left, key
  <2>5. UNION {PiecesOf(e, new[e]) : e \in {f \in KbDocs \cap {d} : new[f] # NoKey}} = PiecesOf(d, key)
    BY <1>3, <1>4, <2>3
  <2>6. kbChunks' = {c \in kbChunks : c.doc \notin {d}}
                    \cup UNION {PiecesOf(e, new[e]) : e \in {f \in KbDocs \cap {d} : new[f] # NoKey}}
    BY <1>7, <2>5
  <2>7. documents' = new /\ Committed(p, {d}, next) /\ \A e \in KbDocs \cap {d} : new[e] = KeyIn(next.target, e)
    BY <1>7, <2>1, <2>3 DEF new, key
  <2> HIDE DEF next
  <2> QED BY <2>2, <2>3, <2>4, <2>6, <2>7, CommitKept
<1> QED BY <1>5, <1>6, <1>7 DEF StoreDocument, Same

LEMMA PruneKept ==
    ASSUME KnowledgeInv, NEW p \in Ingesters, PruneDocuments(p)
    PROVE  KnowledgeInv'
<1> DEFINE run == ingester[p]
           gone == IF run.target.prune THEN {d \in KbDocs : run.stored[d] # NoKey} \ DOMAIN run.target.dir ELSE {}
           next == [run EXCEPT !.pc = "done", !.stored = NoDocs]
           new == [d \in KbDocs |-> IF d \in gone THEN NoKey ELSE documents[d]]
<1>1. /\ run.pc = "docs" /\ run.todo = {} /\ RunShape(run) /\ Wanted(run, documents)
      /\ run.target \in KbTargets /\ DOMAIN documents = KbDocs
  BY DEF PruneDocuments, KnowledgeInv, KbShape, RunShape
<1>2. IF gone = {}
      THEN ingester' = [ingester EXCEPT ![p] = next] /\ UNCHANGED <<documents, kbChunks, query>>
      ELSE documents' = new /\ kbChunks' = {c \in kbChunks : c.doc \notin gone} /\ Committed(p, gone, next)
  BY DEF PruneDocuments
<1>3. gone \subseteq KbDocs /\ \A d \in gone : KeyIn(run.target, d) = NoKey
  BY DEF KeyIn
<1>4. ~run.others /\ run.target.prune => \A d \in KbDocs \ gone : documents[d] = KeyIn(run.target, d)
  BY <1>1 DEF Wanted, KeyIn
<1> HIDE DEF gone
<1>5. DOMAIN new = KbDocs /\ (\A d \in KbDocs \ gone : new[d] = documents[d]) /\ \A d \in gone : new[d] = NoKey
  BY <1>3
<1> HIDE DEF new
<1>6. /\ DOMAIN next = DOMAIN run /\ next.pc = "done" /\ next.target = run.target
      /\ next.todo = run.todo /\ next.others = run.others
  BY <1>1 DEF RunShape
<1> HIDE DEF next
<1>7. RunShape(next)
  BY <1>1, <1>6 DEF RunShape
<1>8. Wanted(next, new)
  <2> SUFFICES ASSUME ~run.others, NEW d \in KbDocs, d \in DOMAIN run.target.dir \/ run.target.prune
               PROVE  new[d] = KeyIn(run.target, d)
    BY <1>6 DEF Wanted
  <2>1. CASE d \in gone
    BY <1>3, <1>5, <2>1
  <2>2. CASE d \notin gone /\ d \in DOMAIN run.target.dir
    BY <1>1, <1>5, <2>2 DEF Wanted
  <2>3. CASE d \notin gone /\ run.target.prune
    BY <1>4, <1>5, <2>3
  <2> QED BY <2>1, <2>2, <2>3
<1>9. CASE gone = {}
  <2>1. Wanted(next, documents)
    BY <1>5, <1>8, <1>9 DEF Wanted
  <2> QED BY <1>2, <1>7, <1>9, <2>1, AloneKept
<1>10. CASE gone # {}
  <2>1. UNION {PiecesOf(d, new[d]) : d \in {e \in KbDocs \cap gone : new[e] # NoKey}} = {}
    BY <1>5
  <2>2. kbChunks' = {c \in kbChunks : c.doc \notin gone}
                    \cup UNION {PiecesOf(d, new[d]) : d \in {e \in KbDocs \cap gone : new[e] # NoKey}}
    BY <1>2, <2>1
  <2>3. \A d \in KbDocs \cap gone : new[d] = KeyIn(next.target, d)
    BY <1>3, <1>5, <1>6
  <2> QED BY <1>2, <1>5, <1>7, <1>8, <1>10, <2>2, <2>3, CommitKept
<1> QED BY <1>9, <1>10

LEMMA StoredTexts == KnowledgeInv => \A c \in kbChunks : c.doc \in KbDocs /\ c.key = documents[c.doc]
  BY ChunksAre, PieceOf DEF KnowledgeInv

LEMMA SearchesKept ==
    ASSUME KnowledgeInv, SearchText \/ \E t \in KbTargets : SearchVector(t.embedder)
    PROVE  KnowledgeInv'
<1>1. UNCHANGED <<documents, kbChunks, ingester>>
  BY DEF SearchText, SearchVector
<1>2. CASE SearchText
  <2>1. PICK texts \in SUBSET kbChunks : query' = [at |-> "bm25", texts |-> texts, between |-> {}]
    BY <1>2 DEF SearchText
  <2>2. query'.at = "bm25" /\ query'.texts = texts /\ query'.between = {} /\ DOMAIN query' = {"at", "texts", "between"}
    BY <2>1
  <2>3. \A a \in texts : a.doc \in KbDocs /\ a.key = documents[a.doc]
    BY <2>1, StoredTexts
  <2>4. FoundStored' /\ SearchOfOneVersion'
    BY <1>1, <2>2, <2>3 DEF FoundStored, SearchOfOneVersion
  <2> QED BY <1>1, <2>2, <2>3, <2>4 DEF KnowledgeInv, KbShape, OneVersion
<1>3. ASSUME NEW t \in KbTargets, SearchVector(t.embedder) PROVE KnowledgeInv'
  <2>1. query.at = "bm25" /\ DOMAIN query = {"at", "texts", "between"}
    BY <1>3 DEF SearchVector, KnowledgeInv, KbShape
  <2>2. PICK texts \in SUBSET kbChunks : query' = [query EXCEPT !.at = "fused", !.texts = @ \cup texts]
    BY <1>3 DEF SearchVector, kSubset
  <2> DEFINE all == query.texts \cup texts
  <2>3. query' = [query EXCEPT !.at = "fused", !.texts = all]
    BY <2>2
  <2> HIDE DEF all
  <2>4. query'.at = "fused" /\ query'.texts = all /\ query'.between = query.between /\ DOMAIN query' = DOMAIN query
    BY <2>1, <2>3
  <2>5. \A a \in texts : a.doc \in KbDocs /\ a.key = documents[a.doc]
    BY <2>2, StoredTexts
  <2>6. \A a \in query.texts : a.doc \in KbDocs /\ (a.doc \notin query.between => a.key = documents[a.doc])
    BY <2>1 DEF KnowledgeInv, KbShape, FoundStored
  <2>7. FoundStored' /\ SearchOfOneVersion'
    BY <2>4, <2>5, <2>6 DEF FoundStored, SearchOfOneVersion, all
  <2> QED BY <1>1, <2>1, <2>4, <2>5, <2>6, <2>7 DEF KnowledgeInv, KbShape, OneVersion, all
<1> QED BY <1>2, <1>3

LEMMA KnowledgeStep == KnowledgeInv /\ [KnowledgeNext]_kbVars => KnowledgeInv'
<1> SUFFICES ASSUME KnowledgeInv, [KnowledgeNext]_kbVars PROVE KnowledgeInv'
  OBVIOUS
<1>1. CASE UNCHANGED kbVars
  BY <1>1 DEF kbVars, KnowledgeInv, KbShape, OneVersion, FoundStored, SearchOfOneVersion
<1> QED BY <1>1, StartKept, StoreKept, PruneKept, FailsKept, SearchesKept DEF KnowledgeNext

\* What is found is what was stored (app/kb/store.py, search.py), for any number
\* of ingesters, documents, targets and runs.
THEOREM FoundIsStored == KnowledgeSpec => []KnowledgeSound
<1>1. KnowledgeInv => KnowledgeSound
  BY DEF KnowledgeInv, KnowledgeSound, IngestConverges, Wanted
<1> QED BY <1>1, KnowledgeStart, KnowledgeStep, PTL DEF KnowledgeSpec

-----------------------------------------------------------------------------
(* Evaluate: the invariant                                                 *)

Scenarios == Range(EvalCatalogue)
Observations == Scenarios \X Variants

EvalTypeOK ==
    /\ waiting \in Seq(Scenarios) /\ IsInjective(waiting)
    /\ results \in Seq(Observations)
    /\ timesRun \in [Scenarios -> Nat]
    /\ spent \in Nat /\ window \in Nat

\* A scenario that is still to be run was run once if it was put back, and not
\* at all otherwise.
StillToRun(s) == ended = "" /\ s \in Range(waiting)
RunsOf(s) ==
    /\ timesRun[s] <= 2
    /\ StillToRun(s) \/ s \notin retried => timesRun[s] <= 1
    /\ StillToRun(s) /\ s \notin retried => timesRun[s] = 0
RunsCounted == \A s \in Scenarios : RunsOf(s)

\* While the window is open, what was used of it is part of what was spent.
Spending ==
    /\ ~closed => window <= spent
    /\ ended = "" /\ waiting # <<>> => spent < TokenBudget

\* Of what is still to be run only the first may have been run before.
OthersNotRun ==
    ended = "" => \A s \in Range(waiting) : s # Head(waiting) => timesRun[s] = 0

EvalInv ==
    EvalTypeOK /\ ObservedOnce /\ NothingLost /\ OthersNotRun /\ RunsCounted /\ Spending /\ WindowBudget

LEMMA Budget == TokenBudget \in Nat /\ TokenBudget > 0 /\ MaxTokens \in Nat
  BY EvalAssumption

-----------------------------------------------------------------------------
(* Evaluate: sequences                                                     *)

LEMMA SetAsSeq ==
    ASSUME NEW S, IsFiniteSet(S)
    PROVE  SetToSeq(S) \in Seq(S) /\ IsInjective(SetToSeq(S)) /\ Range(SetToSeq(S)) = S
<1> DEFINE n == Cardinality(S)  f == SetToSeq(S)
<1>1. n \in Nat /\ ExistsBijection(1..n, S)
  BY FS_CardinalityType
<1>2. \E g \in [1..n -> S] : IsInjective(g)
  BY <1>1 DEF ExistsBijection, Bijection, Injection, IsInjective
<1>3. f \in [1..n -> S] /\ IsInjective(f)
  BY <1>2 DEF SetToSeq
<1> HIDE DEF n, f
<1>4. Range(f) \in SUBSET S
  BY <1>3 DEF Range
<1>5. f \in Bijection(1..n, Range(f))
  BY <1>3 DEF Bijection, Injection, Surjection, IsInjective, Range
<1>6. Cardinality(Range(f)) = n
  BY <1>1, <1>5, FS_CountingElements DEF ExistsBijection
<1>7. Range(f) = S
  BY <1>4, <1>6, FS_Subset DEF n
<1> QED BY <1>1, <1>3, <1>7 DEF n, f

LEMMA SliceStep ==
    ASSUME NEW n \in Nat \ {0}, NEW j \in Nat, NEW k \in Nat, j < k
    PROVE  j * n + n <= k * n
<1>1. (j + 1) * n <= k * n
  OBVIOUS
<1> QED BY <1>1

LEMMA ShardOf ==
    ASSUME NEW n \in Nat \ {0}, NEW i \in 1..n
    PROVE  /\ shard(EvalCatalogue, i, n) \in Seq(Scenarios)
           /\ IsInjective(shard(EvalCatalogue, i, n))
<1> DEFINE L == Len(EvalCatalogue)
           m == (L - i + n) \div n
           q == shard(EvalCatalogue, i, n)
<1>1. L \in Nat /\ m \in Nat /\ m * n <= L - i + n
  BY EvalAssumption DEF Scenarios
<1>2. ASSUME NEW k \in 1..m
      PROVE  (k - 1) * n \in Nat /\ i + (k - 1) * n \in 1..L
  <2>1. k * n <= m * n /\ (k - 1) * n = k * n - n
    BY <1>1
  <2> QED BY <1>1, <2>1
<1>3. q = [k \in 1..m |-> EvalCatalogue[i + (k - 1) * n]]
  BY DEF shard
<1>4. \A k \in 1..m : EvalCatalogue[i + (k - 1) * n] \in Scenarios
  BY <1>2, EvalAssumption DEF Scenarios
<1> HIDE DEF q, m
<1>5. q \in Seq(Scenarios)
  BY <1>1, <1>3, <1>4
<1>6. ASSUME NEW a \in 1..m, NEW b \in 1..m, a < b PROVE q[a] # q[b]
  <2>1. (a - 1) * n + n <= (b - 1) * n /\ (a - 1) * n \in Nat /\ (b - 1) * n \in Nat
    BY <1>1, <1>2, <1>6, SliceStep
  <2>2. i + (a - 1) * n # i + (b - 1) * n
    BY <2>1
  <2> QED BY <1>2, <1>3, <2>2, EvalAssumption DEF IsInjective
<1>7. IsInjective(q)
  <2> SUFFICES ASSUME NEW a \in 1..m, NEW b \in 1..m, q[a] = q[b] PROVE a = b
    BY <1>3 DEF IsInjective
  <2>1. ~(a < b) /\ ~(b < a)
    BY <1>6
  <2> QED BY <2>1, <1>1
<1> QED BY <1>5, <1>7 DEF q

LEMMA TailOf ==
    ASSUME NEW s \in Seq(Scenarios), s # <<>>, IsInjective(s)
    PROVE  /\ Head(s) \in Scenarios /\ Tail(s) \in Seq(Scenarios) /\ IsInjective(Tail(s))
           /\ Head(s) \in Range(s) /\ Range(Tail(s)) = Range(s) \ {Head(s)}
           /\ \A i \in DOMAIN Tail(s) : Tail(s)[i] \in Range(s) \ {Head(s)}
<1>1. Len(s) \in Nat \ {0} /\ DOMAIN s = 1..Len(s) /\ Head(s) = s[1]
  OBVIOUS
<1>2. /\ Tail(s) \in Seq(Scenarios) /\ DOMAIN Tail(s) = 1..(Len(s) - 1)
      /\ \A i \in 1..(Len(s) - 1) : Tail(s)[i] = s[i + 1]
  BY <1>1
<1>3. IsInjective(Tail(s))
  <2> SUFFICES ASSUME NEW a \in 1..(Len(s) - 1), NEW b \in 1..(Len(s) - 1), Tail(s)[a] = Tail(s)[b]
               PROVE  a = b
    BY <1>2 DEF IsInjective
  <2>1. s[a + 1] = s[b + 1] /\ a + 1 \in DOMAIN s /\ b + 1 \in DOMAIN s
    BY <1>1, <1>2
  <2>2. a + 1 = b + 1
    BY <2>1 DEF IsInjective
  <2> QED BY <2>2
<1>4. ASSUME NEW i \in 1..(Len(s) - 1) PROVE s[i + 1] # s[1]
  <2>1. i + 1 \in DOMAIN s /\ 1 \in DOMAIN s /\ i + 1 # 1
    BY <1>1
  <2> QED BY <2>1 DEF IsInjective
<1>5. Range(Tail(s)) = Range(s) \ {Head(s)}
  <2>1. ASSUME NEW x \in Range(Tail(s)) PROVE x \in Range(s) \ {Head(s)}
    <3>1. PICK i \in 1..(Len(s) - 1) : x = s[i + 1]
      BY <1>2 DEF Range
    <3>2. i + 1 \in DOMAIN s
      BY <1>1
    <3> QED BY <1>1, <1>4, <3>1, <3>2 DEF Range
  <2>2. ASSUME NEW x \in Range(s) \ {Head(s)} PROVE x \in Range(Tail(s))
    <3>1. PICK j \in DOMAIN s : x = s[j]
      BY DEF Range
    <3>2. j # 1
      BY <1>1, <3>1
    <3>3. j - 1 \in 1..(Len(s) - 1) /\ (j - 1) + 1 = j
      BY <1>1, <3>2
    <3>4. Tail(s)[j - 1] = x
      BY <1>2, <3>1, <3>3
    <3> QED BY <1>2, <3>3, <3>4 DEF Range
  <2> QED BY <2>1, <2>2
<1>6. \A i \in DOMAIN Tail(s) : Tail(s)[i] \in Range(Tail(s))
  BY DEF Range
<1>7. Head(s) \in Range(s) /\ Head(s) \in Scenarios
  BY <1>1 DEF Range
<1> QED BY <1>2, <1>3, <1>5, <1>6, <1>7

\* Observations that are new to the results, added to them.
LEMMA Added ==
    ASSUME NEW old \in Seq(Observations), IsInjective(old),
           NEW more \in Seq(Observations), IsInjective(more),
           \A o \in Range(more) : o \notin Range(old)
    PROVE  /\ old \o more \in Seq(Observations) /\ IsInjective(old \o more)
           /\ Range(old \o more) = Range(old) \cup Range(more)
<1> DEFINE q == old \o more  L == Len(old)  M == Len(more)
<1>1. /\ L \in Nat /\ M \in Nat /\ DOMAIN old = 1..L /\ DOMAIN more = 1..M
      /\ q \in Seq(Observations) /\ DOMAIN q = 1..(L + M)
      /\ \A i \in 1..(L + M) : q[i] = IF i <= L THEN old[i] ELSE more[i - L]
  OBVIOUS
<1> HIDE DEF q, L, M
<1>2. ASSUME NEW i \in 1..(L + M)
      PROVE  \/ i \in DOMAIN old /\ q[i] = old[i] /\ q[i] \in Range(old)
             \/ i > L /\ i - L \in DOMAIN more /\ q[i] = more[i - L] /\ q[i] \in Range(more)
  <2>1. CASE i <= L
    BY <1>1, <2>1 DEF Range
  <2>2. CASE i > L
    <3>1. i - L \in 1..M /\ i \in 1..(L + M)
      BY <1>1, <2>2
    <3>2. q[i] = more[i - L]
      BY <1>1, <2>2, <3>1
    <3> QED BY <1>1, <2>2, <3>1, <3>2 DEF Range
  <2> QED BY <2>1, <2>2, <1>1
<1>3. IsInjective(q)
  <2> SUFFICES ASSUME NEW a \in 1..(L + M), NEW b \in 1..(L + M), q[a] = q[b] PROVE a = b
    BY <1>1 DEF IsInjective
  <2>1. CASE a \in DOMAIN old /\ q[a] = old[a] /\ q[a] \in Range(old)
    <3>1. b \in DOMAIN old /\ q[b] = old[b]
      BY <1>2, <2>1
    <3> QED BY <2>1, <3>1 DEF IsInjective
  <2>2. CASE a > L /\ a - L \in DOMAIN more /\ q[a] = more[a - L] /\ q[a] \in Range(more)
    <3>1. b > L /\ b - L \in DOMAIN more /\ q[b] = more[b - L]
      BY <1>2, <2>2
    <3>2. a - L = b - L
      BY <2>2, <3>1 DEF IsInjective
    <3> QED BY <1>1, <3>2
  <2> QED BY <1>2, <2>1, <2>2
<1>4. Range(q) = Range(old) \cup Range(more)
  <2>1. \A x \in Range(q) : x \in Range(old) \cup Range(more)
    BY <1>1, <1>2 DEF Range
  <2>2. ASSUME NEW x \in Range(old) PROVE x \in Range(q)
    <3>1. PICK i \in 1..L : x = old[i]
      BY <1>1 DEF Range
    <3>2. i \in 1..(L + M) /\ q[i] = x
      BY <1>1, <3>1
    <3> QED BY <1>1, <3>2 DEF Range
  <2>3. ASSUME NEW x \in Range(more) PROVE x \in Range(q)
    <3>1. PICK i \in 1..M : x = more[i]
      BY <1>1 DEF Range
    <3>2. i + L \in 1..(L + M) /\ ~(i + L <= L) /\ (i + L) - L = i
      BY <1>1
    <3>3. q[i + L] = x
      BY <1>1, <3>1, <3>2
    <3> QED BY <1>1, <3>2, <3>3 DEF Range
  <2> QED BY <2>1, <2>2, <2>3
<1> QED BY <1>1, <1>3, <1>4 DEF q

LEMMA ObservationsOf ==
    ASSUME NEW s \in Scenarios
    PROVE  /\ SetToSeq(observations(s)) \in Seq(Observations) /\ IsInjective(SetToSeq(observations(s)))
           /\ Range(SetToSeq(observations(s))) = observations(s) /\ \A o \in observations(s) : o[1] = s
<1> DEFINE S == observations(s)
<1>1. S \subseteq Observations /\ \A o \in S : o[1] = s
  BY DEF observations, Observations
<1>2. IsFiniteSet(S)
  <2> DEFINE f == [v \in Variants |-> <<s, v>>]
  <2>1. f \in Surjection(Variants, S)
    BY DEF Surjection, observations
  <2> QED BY <2>1, FS_Surjection, EvalAssumption
<1> HIDE DEF S
<1>3. SetToSeq(S) \in Seq(S) /\ IsInjective(SetToSeq(S)) /\ Range(SetToSeq(S)) = S
  BY <1>2, SetAsSeq
<1>4. SetToSeq(S) \in Seq(Observations)
  BY <1>1, <1>3
<1> QED BY <1>1, <1>3, <1>4 DEF S

-----------------------------------------------------------------------------
(* Evaluate: steps                                                         *)

LEMMA EvalStart == EvalInit => EvalInv
<1> SUFFICES ASSUME EvalInit PROVE EvalInv
  OBVIOUS
<1>1. PICK n \in 1..Len(EvalCatalogue) : \E i \in 1..n : waiting = shard(EvalCatalogue, i, n)
  BY DEF EvalInit
<1>2. n \in Nat \ {0}
  BY EvalAssumption
<1>3. waiting \in Seq(Scenarios) /\ IsInjective(waiting)
  BY <1>1, <1>2, ShardOf
<1>4. /\ results = <<>> /\ file = <<>> /\ timesRun = [s \in Scenarios |-> 0]
      /\ spent = 0 /\ window = 0 /\ closed = FALSE /\ ended = ""
  BY DEF EvalInit, Scenarios
<1>5. results \in Seq(Observations) /\ Range(results) = {} /\ IsInjective(results)
  <2>1. DOMAIN <<>> = {} /\ <<>> \in Seq(Observations)
    OBVIOUS
  <2> QED BY <1>4, <2>1 DEF Range, IsInjective
<1>6. EvalTypeOK /\ ObservedOnce
  BY <1>3, <1>4, <1>5 DEF EvalTypeOK, ObservedOnce
<1>7. RunsCounted
  <2>1. 0 <= 2 /\ 0 <= 1
    OBVIOUS
  <2> SUFFICES ASSUME NEW s \in Scenarios PROVE RunsOf(s)
    BY Zenon DEF RunsCounted
  <2>2. timesRun[s] = 0
    BY <1>4, Zenon
  <2> QED BY <2>1, <2>2, Zenon DEF RunsOf
<1>8. 0 <= 0 /\ 0 < TokenBudget /\ 0 < TokenBudget + MaxTokens
  BY Budget
<1>9. Spending /\ WindowBudget
  BY <1>4, <1>8, Zenon DEF Spending, WindowBudget
<1>10. NothingLost /\ OthersNotRun
  <2>1. ~(0 > 0) /\ \A s \in Range(waiting) : s \in Scenarios
    BY <1>3 DEF Range
  <2> QED BY <1>4, <2>1 DEF NothingLost, OthersNotRun
<1> QED BY <1>6, <1>7, <1>9, <1>10 DEF EvalInv

\* Of the scenario that is run, and of the others.
LEMMA StartedOf ==
    ASSUME EvalInv, Started
    PROVE  /\ Head(waiting) \in Scenarios /\ StillToRun(Head(waiting))
           /\ timesRun' \in [Scenarios -> Nat]
           /\ timesRun'[Head(waiting)] = timesRun[Head(waiting)] + 1
           /\ \A s \in Scenarios : s # Head(waiting) => timesRun'[s] = timesRun[s]
           /\ ended = "" /\ ~closed /\ window <= spent /\ spent < TokenBudget
<1>1. Head(waiting) \in Scenarios /\ Head(waiting) \in Range(waiting)
  BY TailOf DEF EvalInv, EvalTypeOK, Started
<1>2. timesRun \in [Scenarios -> Nat] /\ timesRun' = [timesRun EXCEPT ![Head(waiting)] = @ + 1]
  BY DEF EvalInv, EvalTypeOK, Started
<1>3. /\ timesRun' \in [Scenarios -> Nat] /\ timesRun'[Head(waiting)] = timesRun[Head(waiting)] + 1
      /\ \A s \in Scenarios : s # Head(waiting) => timesRun'[s] = timesRun[s]
  BY <1>1, <1>2
<1>4. ended = "" /\ ~closed /\ window <= spent /\ spent < TokenBudget
  BY DEF EvalInv, Started, Spending
<1> QED BY <1>1, <1>3, <1>4 DEF StillToRun

LEMMA WaitInv ==
    ASSUME EvalInv, NEW tokens \in 0..MaxTokens, NEW timeLeft \in BOOLEAN, WaitForWindow(tokens, timeLeft)
    PROVE  EvalInv'
<1> DEFINE h == Head(waiting)
<1>1. /\ h \in Scenarios /\ StillToRun(h) /\ timesRun' \in [Scenarios -> Nat]
      /\ timesRun'[h] = timesRun[h] + 1 /\ \A s \in Scenarios : s # h => timesRun'[s] = timesRun[s]
      /\ ended = "" /\ ~closed /\ window <= spent /\ spent < TokenBudget
  BY StartedOf DEF WaitForWindow
<1>2. /\ h \notin retried /\ retried' = retried \cup {h} /\ window' = window + tokens /\ closed' = TRUE
      /\ UNCHANGED <<waiting, results, file, spent, ended>>
  BY DEF WaitForWindow, Again
<1> HIDE DEF h
<1>3. tokens \in Nat /\ tokens <= MaxTokens /\ window \in Nat /\ spent \in Nat
  BY Budget DEF EvalInv, EvalTypeOK
<1>6. window <= spent /\ spent < TokenBudget /\ window' = window + tokens
  BY <1>1, <1>2, Zenon
<1>7. window' \in Nat /\ window' < TokenBudget + MaxTokens
  BY <1>3, <1>6, Budget
<1>8. EvalTypeOK'
  BY <1>1, <1>2, <1>7 DEF EvalInv, EvalTypeOK
<1>9. ObservedOnce'
  BY <1>2 DEF EvalInv, ObservedOnce
<1>10. \A s \in Range(waiting) : s \in Scenarios
  BY DEF EvalInv, EvalTypeOK, Range
<1>11. h \in Range(waiting) /\ h = Head(waiting)
  BY <1>1 DEF StillToRun, h
<1>12. NothingLost'
  BY <1>1, <1>2, <1>11 DEF EvalInv, EvalTypeOK, NothingLost, observations
<1>13. OthersNotRun'
  BY <1>1, <1>2, <1>10, <1>11 DEF EvalInv, OthersNotRun
<1>4. RunsCounted'
  <2> SUFFICES ASSUME NEW s \in Scenarios PROVE RunsOf(s)'
    BY DEF RunsCounted
  <2>1. RunsOf(s) /\ (StillToRun(s)' <=> StillToRun(s)) /\ timesRun[s] \in Nat
    BY <1>2 DEF EvalInv, RunsCounted, StillToRun, EvalTypeOK
  <2>2. CASE s = h
    <3>1. timesRun[s] = 0 /\ timesRun'[s] = timesRun[s] + 1 /\ s \in retried'
      BY <1>1, <1>2, <2>1, <2>2 DEF RunsOf
    <3>2. timesRun'[s] <= 2 /\ timesRun'[s] <= 1
      BY <3>1
    <3> QED BY <3>1, <3>2 DEF RunsOf
  <2>3. CASE s # h
    <3>1. timesRun'[s] = timesRun[s] /\ (s \in retried' <=> s \in retried)
      BY <1>1, <1>2, <2>3
    <3> QED BY <2>1, <3>1, Zenon DEF RunsOf
  <2> QED BY <2>2, <2>3
<1>5. Spending' /\ WindowBudget'
  BY <1>1, <1>2, <1>7, Zenon DEF Spending, WindowBudget
<1> QED BY <1>4, <1>5, <1>8, <1>9, <1>12, <1>13 DEF EvalInv

LEMMA RunInv ==
    ASSUME EvalInv, NEW tokens \in 0..MaxTokens, NEW timeLeft \in BOOLEAN, NEW limit,
           RunScenario(tokens, limit, timeLeft)
    PROVE  EvalInv'
<1> DEFINE h == Head(waiting)  more == SetToSeq(observations(h))
           stop == NoTime(h, limit, timeLeft) \/ BudgetSpent(spent + tokens)
<1>1. /\ h \in Scenarios /\ StillToRun(h) /\ timesRun' \in [Scenarios -> Nat]
      /\ timesRun'[h] = timesRun[h] + 1 /\ \A s \in Scenarios : s # h => timesRun'[s] = timesRun[s]
      /\ ended = "" /\ ~closed /\ window <= spent /\ spent < TokenBudget
  BY StartedOf DEF RunScenario
<1>2. /\ results' = results \o more /\ file' = results'
      /\ spent' = spent + tokens /\ window' = window + tokens
      /\ waiting' = IF stop THEN <<>> ELSE Tail(waiting)
      /\ UNCHANGED <<retried, closed>>
  BY DEF RunScenario
<1>3. /\ more \in Seq(Observations) /\ IsInjective(more)
      /\ Range(more) = observations(h) /\ \A o \in observations(h) : o[1] = h
  BY <1>1, ObservationsOf
<1>5. /\ waiting \in Seq(Scenarios) /\ waiting # <<>> /\ IsInjective(waiting)
      /\ results \in Seq(Observations) /\ IsInjective(results)
      /\ tokens \in Nat /\ tokens <= MaxTokens /\ spent \in Nat /\ window \in Nat
  <2>1. waiting # <<>>
    BY Zenon DEF RunScenario, Started
  <2>2. tokens \in Nat /\ tokens <= MaxTokens
    BY Budget
  <2> QED BY <2>1, <2>2 DEF EvalInv, EvalTypeOK, ObservedOnce
<1>4. stop \/ spent + tokens < TokenBudget
  <2>1. ~BudgetSpent(spent + tokens) => spent + tokens < TokenBudget
    BY <1>5, Budget DEF BudgetSpent
  <2> QED BY <2>1
<1> HIDE DEF more, stop
<1>17. window <= spent /\ spent < TokenBudget /\ spent' = spent + tokens /\ window' = window + tokens
  BY <1>1, <1>2, Zenon
<1>6. \A i \in DOMAIN waiting : \A o \in observations(waiting[i]) : o \notin Range(results)
  BY <1>1 DEF EvalInv, ObservedOnce
<1>7. \A s \in Range(waiting) : \A o \in observations(s) : o \notin Range(results)
  BY <1>6 DEF Range
<1>8. /\ waiting' \in Seq(Scenarios) /\ IsInjective(waiting')
      /\ \A i \in DOMAIN waiting' : waiting'[i] \in Range(waiting) \ {h}
      /\ Range(waiting') \subseteq Range(waiting) \ {h}
  <2>1. CASE stop
    BY <1>2, <2>1 DEF IsInjective, Range
  <2>2. CASE ~stop
    BY <1>2, <1>5, <2>2, TailOf DEF h
  <2> QED BY <2>1, <2>2
<1>9. h \in Range(waiting)
  BY <1>1 DEF StillToRun
<1>10. \A o \in Range(more) : o \notin Range(results)
  BY <1>3, <1>7, <1>9
<1>11. /\ results' \in Seq(Observations) /\ IsInjective(results')
       /\ Range(results') = Range(results) \cup Range(more)
  BY <1>2, <1>3, <1>5, <1>10, Added
<1>12. ObservedOnce'
  <2> SUFFICES ASSUME NEW i \in DOMAIN waiting', NEW o \in observations(waiting'[i])
               PROVE  o \notin Range(results')
    BY <1>2, <1>11 DEF ObservedOnce, observations
  <2>1. o[1] = waiting'[i] /\ waiting'[i] \in Range(waiting) \ {h}
    BY <1>8 DEF observations
  <2>2. o \notin Range(more)
    BY <1>3, <2>1
  <2>3. o \notin Range(results)
    BY <1>7, <2>1
  <2> QED BY <1>11, <2>2, <2>3
<1>13. EvalTypeOK'
  <2>1. spent' \in Nat /\ window' \in Nat
    BY <1>2, <1>5
  <2> QED BY <1>1, <1>8, <1>11, <2>1, Zenon DEF EvalTypeOK
<1>14. RunsCounted'
  <2> SUFFICES ASSUME NEW s \in Scenarios PROVE RunsOf(s)'
    BY DEF RunsCounted
  <2>1. RunsOf(s) /\ timesRun[s] \in Nat
    BY DEF EvalInv, RunsCounted, EvalTypeOK
  <2>2. CASE s = h
    <3>1. ~StillToRun(s)'
      BY <1>8, <2>2 DEF StillToRun
    <3>2. timesRun[s] <= 1 /\ (s \notin retried => timesRun[s] = 0) /\ timesRun'[s] = timesRun[s] + 1
      BY <1>1, <2>1, <2>2 DEF RunsOf
    <3>3. timesRun'[s] <= 2 /\ (s \notin retried' => timesRun'[s] <= 1)
      BY <1>2, <2>1, <3>2
    <3> QED BY <3>1, <3>3, Zenon DEF RunsOf
  <2>3. CASE s # h
    <3>1. StillToRun(s)' => StillToRun(s)
      BY <1>1, <1>8 DEF StillToRun
    <3> QED BY <1>1, <1>2, <2>1, <2>3, <3>1 DEF RunsOf
  <2> QED BY <2>2, <2>3
<1>15. Spending'
  <2>1. waiting' # <<>> => spent' < TokenBudget
    BY <1>2, <1>4, Zenon
  <2>2. window' <= spent'
    BY <1>5, <1>17
  <2> QED BY <2>1, <2>2, Zenon DEF Spending
<1>16. WindowBudget'
  <2>1. window' < TokenBudget + MaxTokens
    BY <1>5, <1>17, Budget
  <2> QED BY <2>1 DEF WindowBudget
<1>18. \A s \in Range(waiting) : s \in Scenarios /\ (s # h => timesRun[s] = 0)
  <2>1. \A s \in Range(waiting) : s \in Scenarios
    BY <1>5 DEF Range
  <2>2. \A s \in Range(waiting) : s # h => timesRun[s] = 0
    BY <1>1, Zenon DEF EvalInv, OthersNotRun, h
  <2> QED BY <2>1, <2>2, Zenon
<1>19. OthersNotRun'
  <2>1. \A s \in Range(waiting') : s \in Range(waiting) /\ s # h
    BY <1>8
  <2>2. \A s \in Range(waiting') : timesRun'[s] = 0
    BY <1>1, <1>18, <2>1, Zenon
  <2> QED BY <2>2, Zenon DEF OthersNotRun, Range
<1>20. NothingLost'
  <2> SUFFICES ASSUME NEW s \in Scenarios, timesRun'[s] > 0, s \notin Range(waiting')
               PROVE  observations(s) \subseteq Range(results')
    BY <1>1 DEF NothingLost, observations
  <2>1. CASE s = h
    BY <1>3, <1>11, <2>1
  <2>2. CASE s # h
    <3>1. timesRun[s] > 0
      BY <1>1, <2>2
    <3>2. s \notin Range(waiting)
      BY <1>18, <2>2, <3>1
    <3>3. observations(s) \subseteq Range(results)
      BY <3>1, <3>2 DEF EvalInv, EvalTypeOK, NothingLost
    <3> QED BY <1>11, <3>3
  <2> QED BY <2>1, <2>2
<1> QED BY <1>12, <1>13, <1>14, <1>15, <1>16, <1>19, <1>20 DEF EvalInv

LEMMA CrashInv ==
    ASSUME EvalInv, RunCrashes
    PROVE  EvalInv'
<1> DEFINE h == Head(waiting)
<1>1. /\ h \in Scenarios /\ StillToRun(h) /\ timesRun' \in [Scenarios -> Nat]
      /\ timesRun'[h] = timesRun[h] + 1 /\ \A s \in Scenarios : s # h => timesRun'[s] = timesRun[s]
      /\ ended = ""
  BY StartedOf DEF RunCrashes
<1>2. ended' = "crashed" /\ UNCHANGED <<waiting, retried, results, file, spent, window, closed>>
  BY DEF RunCrashes
<1> HIDE DEF h
<1>3. EvalTypeOK' /\ ObservedOnce' /\ Spending' /\ WindowBudget'
  BY <1>1, <1>2 DEF EvalInv, EvalTypeOK, ObservedOnce, observations, Spending, WindowBudget
<1>4. RunsCounted'
  <2> SUFFICES ASSUME NEW s \in Scenarios PROVE RunsOf(s)'
    BY DEF RunsCounted
  <2>1. RunsOf(s) /\ ~StillToRun(s)' /\ timesRun[s] \in Nat
    BY <1>2 DEF EvalInv, RunsCounted, StillToRun, EvalTypeOK
  <2>2. CASE s = h
    <3>1. timesRun[s] <= 1 /\ (s \notin retried => timesRun[s] = 0) /\ timesRun'[s] = timesRun[s] + 1
      BY <1>1, <2>1, <2>2 DEF RunsOf
    <3>2. timesRun'[s] <= 2 /\ (s \notin retried' => timesRun'[s] <= 1)
      BY <1>2, <2>1, <3>1
    <3> QED BY <2>1, <3>2, Zenon DEF RunsOf
  <2>3. CASE s # h
    BY <1>1, <1>2, <2>1, <2>3 DEF RunsOf
  <2> QED BY <2>2, <2>3
<1>5. h \in Range(waiting)
  BY <1>1 DEF StillToRun
<1>6. OthersNotRun'
  BY <1>2 DEF OthersNotRun
<1>7. NothingLost'
  BY <1>1, <1>2, <1>5 DEF EvalInv, EvalTypeOK, NothingLost, observations
<1> QED BY <1>3, <1>4, <1>6, <1>7 DEF EvalInv

LEMMA ReopenInv ==
    ASSUME EvalInv, WindowReopens \/ UNCHANGED evalVars
    PROVE  EvalInv'
<1>1. /\ UNCHANGED <<waiting, retried, results, file, spent, timesRun, ended>>
      /\ (window' = window /\ closed' = closed) \/ window' = 0
  BY Zenon DEF WindowReopens, evalVars
<1>2. EvalTypeOK'
  <2>1. window' \in Nat
    BY <1>1 DEF EvalInv, EvalTypeOK
  <2> QED BY <1>1, <2>1 DEF EvalInv, EvalTypeOK
<1>3. ObservedOnce'
  BY <1>1 DEF EvalInv, ObservedOnce
<1>4. RunsCounted'
  BY <1>1 DEF EvalInv, RunsCounted, RunsOf, StillToRun
<1>5. spent \in Nat /\ window \in Nat
  BY DEF EvalInv, EvalTypeOK
<1>6. Spending' /\ WindowBudget'
  <2>1. CASE window' = window /\ closed' = closed
    BY <1>1, <2>1, Zenon DEF EvalInv, Spending, WindowBudget
  <2>2. CASE window' = 0
    <3>1. window' <= spent' /\ window' < TokenBudget + MaxTokens
      BY <1>1, <1>5, <2>2, Budget
    <3> QED BY <1>1, <3>1, Zenon DEF EvalInv, Spending, WindowBudget
  <2> QED BY <1>1, <2>1, <2>2
<1>7. NothingLost' /\ OthersNotRun'
  <2>1. NothingLost /\ OthersNotRun
    BY DEF EvalInv
  <2> QED BY <1>1, <2>1, Zenon DEF NothingLost, OthersNotRun, observations, Range
<1> QED BY <1>2, <1>3, <1>4, <1>6, <1>7 DEF EvalInv

LEMMA EvalStep == EvalInv /\ [EvalNext]_evalVars => EvalInv'
  BY WaitInv, RunInv, CrashInv, ReopenInv DEF EvalNext

\* No scenario is counted twice, what was run is counted unless it is run again, and
\* none is run more than twice (evaluate.run, ResultFile.dump), for any catalogue.
THEOREM CountsOnce == EvalSpec => []CountedOnce
<1>1. EvalInv => CountedOnce
  BY DEF EvalInv, CountedOnce, RunAtMostTwice, RunsCounted, RunsOf, EvalTypeOK
<1> QED BY <1>1, EvalStart, EvalStep, PTL DEF EvalSpec

\* A run goes over the budget of a usage window by less than one scenario, for any
\* budget and any cost of a scenario (evaluate.run).
THEOREM StaysInBudget == EvalSpec => []WindowBudget
<1>1. EvalInv => WindowBudget
  BY DEF EvalInv
<1> QED BY <1>1, EvalStart, EvalStep, PTL DEF EvalSpec

-----------------------------------------------------------------------------
(* Replay: the invariant                                                   *)

Answers == Nat \X Nat
Entries == [agent: {r[2] : r \in AgentRuns}, answer: Answers]
Runs == [pc: {"idle", "think", "ask", "done", "missed"}, view: SUBSET Investigated, shown: Seq(Answers)]

\* The places of a run's entries in the cassette, and that of an answer.
Mine(r) == {p \in DOMAIN toolCalls[r[1]] : toolCalls[r[1]][p].agent = r[2]}
PlaceOf(answer) == answer[2] + 1
Upto(answers, n) == [k \in 1..n |-> answers[k]]

LiveTypeOK ==
    /\ tick \in Nat
    /\ opened \in [Investigated -> 0..tick] /\ shut \in [Investigated -> 0..tick]
    /\ toolCalls \in [Investigated -> Seq(Entries)]
    /\ live \in [AgentRuns -> Runs]
    /\ \A r \in AgentRuns : live[r].pc = "idle" => live[r] = NotRun

\* Whenever a run began, it was told of what can still be read off the rows.
LiveView(r) ==
    live[r].pc # "idle" => opened[r[1]] > 0 /\ live[r].view = RelatedView(r[1], shut)

\* The entries of a run that was not interrupted are the answers it was shown.
Own(r) ==
    LET told == live[r].shown
    IN  /\ \A n \in DOMAIN told : /\ PlaceOf(told[n]) \in Mine(r)
                                  /\ toolCalls[r[1]][PlaceOf(told[n])].answer = told[n]
        /\ \A n, m \in DOMAIN told : n < m => PlaceOf(told[n]) < PlaceOf(told[m])
        /\ \A p \in Mine(r) : \E n \in DOMAIN told : PlaceOf(told[n]) = p

\* Its n-th request is recorded with this step and no other.
RequestAt(r, n) == [run |-> r, view |-> live[r].view, shown |-> Upto(live[r].shown, n)]
KeptUpTo(r, n, what) ==
    /\ \E s \in steps : s.request = RequestAt(r, n)
    /\ \A s \in steps : s.request = RequestAt(r, n) => s.step = what
StepsKept(r) ==
    LET n == Len(live[r].shown)
    IN  /\ \A k \in 0..n : k < n => KeptUpTo(r, k, "ask")
        /\ live[r].pc = "ask" => KeptUpTo(r, n, "ask")
        /\ live[r].pc = "done" => KeptUpTo(r, n, "final")

Smooth(r) == r \notin reruns
LiveInv ==
    /\ LiveTypeOK
    /\ \A r \in AgentRuns : LiveView(r) /\ (Smooth(r) => Own(r) /\ StepsKept(r))

PlayTypeOK ==
    /\ replayed \in [AgentRuns -> Runs]
    /\ \A r \in AgentRuns : replayed[r].pc = "idle" => replayed[r] = NotRun
    /\ lastOf \in [Keys -> Answers] /\ queues \in [Keys -> SUBSET Nat]
    /\ phase = "live" => \A r \in AgentRuns : replayed[r].pc = "idle"
    /\ phase # "live" => \A r \in AgentRuns : live[r].pc = "done"
    /\ phase = "replay" => turn \in Investigated /\ \A k \in Keys : queues[k] \subseteq DOMAIN toolCalls[turn]

\* One incident is replayed after the other.
InTurn ==
    \A r, s \in AgentRuns :
        r[1] = s[1] /\ replayed[r].pc # "idle" =>
        (phase = "replay" /\ turn = r[1]) \/ replayed[s].pc \in {"done", "missed"}

ReplayView(r) ==
    replayed[r].pc # "idle" => replayed[r].view = RelatedView(r[1], [i \in Investigated |-> 0])

\* A run that is told the same asks and is answered what it was live, so far.
SameView(r) == replayed[r].pc # "idle" => replayed[r].view = live[r].view
Follows(r) ==
    LET told == live[r].shown
        n == Len(replayed[r].shown)
    IN  /\ n <= Len(told) /\ replayed[r].shown = Upto(told, n)
        /\ replayed[r].pc # "missed"
        /\ replayed[r].pc = "ask" => n < Len(told)
        /\ replayed[r].pc = "done" => n = Len(told)
\* What is left in its queue is what it has not been answered yet.
QueueOf(r) ==
    phase = "replay" /\ turn = r[1] =>
        queues[r[2]] = {p \in Mine(r) : \A k \in 1..Len(replayed[r].shown) : p # PlaceOf(live[r].shown[k])}

PlayInv ==
    /\ PlayTypeOK /\ InTurn
    /\ \A r \in AgentRuns : ReplayView(r) /\ (Smooth(r) /\ SameView(r) => Follows(r) /\ QueueOf(r))

ReplayInv == LiveInv /\ PlayInv

-----------------------------------------------------------------------------
(* Replay: runs and prefixes                                               *)

\* A run is an incident's and an agent's.
LEMMA RunIs ==
    /\ \A r \in AgentRuns : /\ r[1] \in Investigated /\ r[2] \in Keys /\ r[2] # AnyAgent
                            /\ r = <<r[1], r[2]>>
    /\ \A r, s \in AgentRuns : r[1] = s[1] /\ r[2] = s[2] => r = s
    /\ Investigated \subseteq Nat /\ AnyAgent \in Keys
  BY ReplayConstants DEF Investigated, Keys

LEMMA WholeOf ==
    ASSUME NEW told \in Seq(Answers)
    PROVE  Upto(told, Len(told)) = told
  BY DEF Upto

LEMMA NoPrefix == ASSUME NEW a PROVE Upto(a, 0) = <<>> /\ Len(<<>>) = 0
  BY DEF Upto

LEMMA PrefixAt ==
    ASSUME NEW a, NEW n \in Nat, NEW m \in Nat, n < m
    PROVE  Upto(a, n) # Upto(a, m)
<1>1. m \in DOMAIN Upto(a, m) /\ m \notin DOMAIN Upto(a, n)
  BY DEF Upto
<1> QED BY <1>1

LEMMA Appended ==
    ASSUME NEW told \in Seq(Answers), NEW answer \in Answers, NEW n \in 0..Len(told)
    PROVE  /\ Append(told, answer) \in Seq(Answers) /\ Len(Append(told, answer)) = Len(told) + 1
           /\ Upto(Append(told, answer), n) = Upto(told, n)
           /\ Append(told, answer)[Len(told) + 1] = answer
           /\ \A k \in 1..Len(told) : Append(told, answer)[k] = told[k]
           /\ DOMAIN Append(told, answer) = DOMAIN told \cup {Len(told) + 1}
  BY DEF Upto

LEMMA ViewIn == ASSUME NEW i, NEW f PROVE RelatedView(i, f) \in SUBSET Investigated
  BY DEF RelatedView

-----------------------------------------------------------------------------
(* Replay: the live steps                                                  *)

LEMMA ReplayStart == ReplayInit => ReplayInv
<1> SUFFICES ASSUME ReplayInit PROVE ReplayInv
  OBVIOUS
<1>1. <<>> \in Seq(Answers) /\ <<>> \in Seq(Entries) /\ Len(<<>>) = 0 /\ DOMAIN <<>> = {}
  OBVIOUS
<1>2. NotRun \in Runs /\ NotRun.pc = "idle" /\ NotRun.shown = <<>>
  BY <1>1 DEF NotRun, Runs
<1>3. /\ tick = 1 /\ phase = "live" /\ opened = [i \in Investigated |-> 0] /\ shut = [i \in Investigated |-> 0]
      /\ live = [r \in AgentRuns |-> NotRun] /\ replayed = [r \in AgentRuns |-> NotRun]
      /\ toolCalls = [i \in Investigated |-> <<>>]
      /\ queues = [k \in Keys |-> {}] /\ lastOf = [k \in Keys |-> NoEntry]
  BY DEF ReplayInit
<1>4. LiveTypeOK
  BY <1>1, <1>2, <1>3 DEF LiveTypeOK
<1>5. PlayTypeOK
  BY <1>2, <1>3 DEF PlayTypeOK, NoEntry, Answers
<1>6. InTurn
  BY <1>2, <1>3 DEF InTurn
<1>7. ASSUME NEW r \in AgentRuns
      PROVE  LiveView(r) /\ Own(r) /\ StepsKept(r) /\ ReplayView(r) /\ Follows(r) /\ QueueOf(r)
  <2>1. live[r] = NotRun /\ replayed[r] = NotRun /\ toolCalls[r[1]] = <<>>
    BY <1>3, RunIs
  <2>2. LiveView(r) /\ ReplayView(r) /\ QueueOf(r)
    BY <2>1, <1>2, <1>3 DEF LiveView, ReplayView, QueueOf
  <2>3. Mine(r) = {}
    BY <2>1, <1>1 DEF Mine
  <2>4. Own(r)
    BY <2>1, <2>3, <1>1, <1>2 DEF Own
  <2>5. StepsKept(r)
    BY <2>1, <1>1, <1>2 DEF StepsKept
  <2>6. Follows(r)
    BY <2>1, <1>1, <1>2, NoPrefix DEF Follows
  <2> QED BY <2>2, <2>4, <2>5, <2>6
<1> QED BY <1>4, <1>5, <1>6, <1>7 DEF ReplayInv, LiveInv, PlayInv

\* While the incidents are live nothing is replayed.
LEMMA NothingReplayed ==
    ASSUME ReplayInv, LiveTypeOK', phase = "live", UNCHANGED <<phase, turn, replayed, source>>
    PROVE  PlayInv'
<1>1. \A r \in AgentRuns : replayed[r] = NotRun /\ replayed[r].pc = "idle" /\ replayed'[r] = replayed[r]
  BY DEF ReplayInv, PlayInv, PlayTypeOK
<1>2. phase' = "live"
  OBVIOUS
<1>3. PlayTypeOK'
  BY <1>1, <1>2 DEF ReplayInv, PlayInv, PlayTypeOK, source
<1>4. InTurn'
  BY <1>1 DEF InTurn
<1>5. ASSUME NEW r \in AgentRuns PROVE ReplayView(r)' /\ Follows(r)' /\ QueueOf(r)'
  <2>1. ReplayView(r)' /\ QueueOf(r)'
    BY <1>1, <1>2 DEF ReplayView, QueueOf
  <2>2. replayed'[r].shown = <<>> /\ replayed'[r].pc = "idle"
    BY <1>1 DEF NotRun
  <2>3. Follows(r)'
    <3>1. live'[r].shown \in Seq(Answers)
      BY DEF LiveTypeOK, Runs
    <3>2. Len(live'[r].shown) \in Nat /\ 0 <= Len(live'[r].shown)
      BY <3>1
    <3> QED BY <2>2, <3>2, NoPrefix, Zenon DEF Follows
  <2> QED BY <2>1, <2>3
<1> QED BY <1>3, <1>4, <1>5 DEF PlayInv

\* What is recorded of a run stays, while the run and its rows do.
LEMMA RecordStays ==
    ASSUME NEW r \in AgentRuns,
           live'[r] = live[r], toolCalls'[r[1]] = toolCalls[r[1]], UNCHANGED steps,
           Own(r) /\ StepsKept(r)
    PROVE  Own(r)' /\ StepsKept(r)'
<1>1. Mine(r)' = Mine(r) /\ live'[r].shown = live[r].shown /\ live'[r].pc = live[r].pc
  BY DEF Mine
<1>2. Own(r)'
  BY <1>1 DEF Own, PlaceOf
<1>3. \A n, what : KeptUpTo(r, n, what)' <=> KeptUpTo(r, n, what)
  BY DEF KeptUpTo, RequestAt
<1>4. StepsKept(r)'
  BY <1>1, <1>3 DEF StepsKept
<1> QED BY <1>2, <1>4

LEMMA OpensInv ==
    ASSUME LiveInv, NEW new \in SUBSET Investigated, Opens(new) PROVE LiveInv'
<1>1. /\ tick' = tick + 1 /\ opened' = [i \in Investigated |-> IF i \in new THEN tick' ELSE opened[i]]
      /\ \A i \in new : opened[i] = 0
      /\ UNCHANGED <<shut, live, reruns, toolCalls, steps>>
  BY DEF Opens
<1>2. LiveTypeOK'
  BY <1>1 DEF LiveInv, LiveTypeOK
<1>3. ASSUME NEW r \in AgentRuns PROVE LiveView(r)'
  <2> SUFFICES ASSUME live'[r].pc # "idle" PROVE opened'[r[1]] > 0 /\ live'[r].view = RelatedView(r[1], shut)'
    BY DEF LiveView
  <2>1. opened[r[1]] > 0 /\ live[r].view = RelatedView(r[1], shut)
    BY <1>1 DEF LiveInv, LiveView
  <2>2. opened'[r[1]] = opened[r[1]]
    BY <1>1, <2>1, RunIs
  <2>3. \A j \in Investigated : opened'[j] \in 1..opened'[r[1]] <=> opened[j] \in 1..opened[r[1]]
    BY <1>1, <2>2, RunIs DEF LiveInv, LiveTypeOK
  <2> QED BY <1>1, <2>1, <2>2, <2>3 DEF RelatedView
<1>4. ASSUME NEW r \in AgentRuns, Smooth(r)' PROVE Own(r)' /\ StepsKept(r)'
  BY <1>1, <1>4, RecordStays DEF LiveInv, Smooth
<1> QED BY <1>2, <1>3, <1>4 DEF LiveInv

LEMMA ClosedInv ==
    ASSUME LiveInv, NEW i \in Investigated, Closed(i) PROVE LiveInv'
<1>1. /\ tick' = tick + 1 /\ shut' = [shut EXCEPT ![i] = tick'] /\ shut[i] = 0
      /\ UNCHANGED <<opened, live, reruns, toolCalls, steps>>
  BY DEF Closed
<1>2. LiveTypeOK'
  BY <1>1 DEF LiveInv, LiveTypeOK
<1>3. ASSUME NEW r \in AgentRuns PROVE LiveView(r)'
  <2> SUFFICES ASSUME live'[r].pc # "idle" PROVE opened'[r[1]] > 0 /\ live'[r].view = RelatedView(r[1], shut)'
    BY DEF LiveView
  <2>1. opened[r[1]] > 0 /\ live[r].view = RelatedView(r[1], shut)
    BY <1>1 DEF LiveInv, LiveView
  <2>2. opened[r[1]] \in 0..tick /\ tick' > opened[r[1]] /\ tick' # 0
    BY <1>1, RunIs DEF LiveInv, LiveTypeOK
  <2>3. \A j \in Investigated : (shut'[j] = 0 \/ shut'[j] > opened[r[1]]) <=> (shut[j] = 0 \/ shut[j] > opened[r[1]])
    BY <1>1, <2>2 DEF LiveInv, LiveTypeOK
  <2> QED BY <1>1, <2>1, <2>3 DEF RelatedView
<1>4. ASSUME NEW r \in AgentRuns, Smooth(r)' PROVE Own(r)' /\ StepsKept(r)'
  BY <1>1, <1>4, RecordStays DEF LiveInv, Smooth
<1> QED BY <1>2, <1>3, <1>4 DEF LiveInv

LEMMA StartsInv ==
    ASSUME LiveInv, NEW q \in AgentRuns, Starts(q) PROVE LiveInv'
<1> DEFINE began == [pc |-> "think", view |-> RelatedView(q[1], shut), shown |-> <<>>]
<1>1. /\ live' = [live EXCEPT ![q] = began] /\ live[q].pc = "idle" /\ opened[q[1]] > 0
      /\ UNCHANGED <<tick, opened, shut, reruns, toolCalls, steps>>
  BY DEF Starts
<1>2. /\ began \in Runs /\ began.pc = "think" /\ began.shown = <<>> /\ began.view = RelatedView(q[1], shut)
  <2>1. <<>> \in Seq(Answers) /\ RelatedView(q[1], shut) \in SUBSET Investigated
    BY ViewIn
  <2> QED BY <2>1 DEF Runs
<1> HIDE DEF began
<1>3. live'[q] = began /\ \A r \in AgentRuns : r # q => live'[r] = live[r]
  BY <1>1 DEF LiveInv, LiveTypeOK
<1>4. LiveTypeOK'
  BY <1>1, <1>2, <1>3 DEF LiveInv, LiveTypeOK
<1>5. ASSUME NEW r \in AgentRuns PROVE LiveView(r)'
  BY <1>1, <1>2, <1>3 DEF LiveInv, LiveView, RelatedView
<1>6. ASSUME NEW r \in AgentRuns, Smooth(r)' PROVE Own(r)' /\ StepsKept(r)'
  <2>1. CASE r # q
    BY <1>1, <1>3, <1>6, <2>1, RecordStays DEF LiveInv, Smooth
  <2>2. CASE r = q
    <3>1. live[q].shown = <<>> /\ live'[q].shown = <<>> /\ live'[q].pc = "think" /\ Len(<<>>) = 0 /\ DOMAIN <<>> = {}
      BY <1>1, <1>2, <1>3 DEF LiveInv, LiveTypeOK, NotRun
    <3>2. Own(q) /\ Mine(q)' = Mine(q)
      BY <1>1, <1>6, <2>2 DEF LiveInv, Smooth, Mine
    <3>3. Own(q)'
      BY <3>1, <3>2 DEF Own
    <3>4. StepsKept(q)'
      BY <3>1 DEF StepsKept
    <3> QED BY <2>2, <3>3, <3>4
  <2> QED BY <2>1, <2>2
<1> QED BY <1>4, <1>5, <1>6 DEF LiveInv

LEMMA AnsweredInv ==
    ASSUME LiveInv, NEW q \in AgentRuns, NEW what \in {"ask", "final"}, Answered(q, what) PROVE LiveInv'
<1> DEFINE req == Request(q, live[q])
           to == IF what = "ask" THEN "ask" ELSE "done"
           n == Len(live[q].shown)
<1>1. /\ live' = [live EXCEPT ![q].pc = to] /\ live[q].pc = "think"
      /\ steps' = {s \in steps : s.request # req} \cup {[request |-> req, step |-> what]}
      /\ UNCHANGED <<tick, opened, shut, reruns, toolCalls>>
  BY DEF Answered
<1>2. /\ req.run = q /\ req = RequestAt(q, n)
  BY WholeOf DEF Request, RequestAt, LiveInv, LiveTypeOK, Runs
<1>3. to \in {"ask", "done"}
  OBVIOUS
<1>4. live[q] \in Runs
  BY DEF LiveInv, LiveTypeOK
<1>5. n \in Nat
  BY <1>4 DEF Runs
<1> HIDE DEF req, n
<1>6. /\ \A r \in AgentRuns : r # q => live'[r] = live[r]
      /\ live'[q] = [live[q] EXCEPT !.pc = to]
  BY <1>1 DEF LiveInv, LiveTypeOK
<1>7. live'[q].shown = live[q].shown /\ live'[q].view = live[q].view /\ live'[q].pc = to /\ live'[q] \in Runs
  <2> HIDE DEF to
  <2> QED BY <1>3, <1>4, <1>6 DEF Runs
<1>8. LiveTypeOK'
  BY <1>1, <1>3, <1>6, <1>7 DEF LiveInv, LiveTypeOK
<1>9. ASSUME NEW r \in AgentRuns PROVE LiveView(r)'
  BY <1>1, <1>6, <1>7 DEF LiveInv, LiveView, RelatedView
<1>10. \A s : (s \in steps' /\ s.request # req) <=> (s \in steps /\ s.request # req)
  BY <1>1
<1>11. ASSUME NEW r \in AgentRuns, NEW k, NEW st, RequestAt(r, k) # req, RequestAt(r, k)' = RequestAt(r, k), KeptUpTo(r, k, st)
       PROVE  KeptUpTo(r, k, st)'
  BY <1>10, <1>11, Zenon DEF KeptUpTo
<1>12. KeptUpTo(q, n, what)'
  <2>1. RequestAt(q, n)' = req /\ n' = n
    BY <1>2, <1>7 DEF RequestAt, n
  <2>2. \A s \in steps' : s.request = req => s = [request |-> req, step |-> what]
    BY <1>1
  <2>3. [request |-> req, step |-> what] \in steps'
    BY <1>1
  <2> QED BY <2>1, <2>2, <2>3 DEF KeptUpTo
<1>13. ASSUME NEW r \in AgentRuns, Smooth(r)' PROVE Own(r)' /\ StepsKept(r)'
  <2>1. Own(r) /\ StepsKept(r)
    BY <1>1, <1>13 DEF LiveInv, Smooth
  <2>2. live'[r].shown = live[r].shown /\ live'[r].view = live[r].view /\ toolCalls' = toolCalls
    <3> HIDE DEF to
    <3>1. CASE r = q
      BY <1>1, <1>7, <3>1, Zenon
    <3>2. CASE r # q
      BY <1>1, <1>6, <3>2, Zenon
    <3> QED BY <3>1, <3>2, Zenon
  <2>3. Own(r)'
    BY <2>1, <2>2, Zenon DEF Own, Mine, PlaceOf
  <2>4. \A k : RequestAt(r, k)' = RequestAt(r, k)
    BY <2>2 DEF RequestAt
  <2>5. CASE r # q
    <3>1. \A k : RequestAt(r, k) # req
      BY <1>2, <2>5 DEF RequestAt
    <3>2. \A k, st : KeptUpTo(r, k, st) => KeptUpTo(r, k, st)'
      BY <1>11, <2>4, <3>1, Zenon
    <3>3. live'[r] = live[r]
      BY <1>6, <2>5
    <3> QED BY <2>1, <2>3, <3>2, <3>3 DEF StepsKept
  <2>6. CASE r = q
    <3>1. ASSUME NEW k \in 0..n, k < n PROVE KeptUpTo(q, k, "ask")'
      <4>1. RequestAt(q, k) # req
        BY <1>2, <1>5, <3>1, PrefixAt DEF RequestAt
      <4>2. KeptUpTo(q, k, "ask")
        BY <2>1, <2>6, <3>1 DEF StepsKept, n
      <4> QED BY <1>11, <2>4, <2>6, <4>1, <4>2, Zenon
    <3>2. Len(live'[q].shown) = n /\ n' = n
      BY <1>7 DEF n
    <3>3. (to = "ask" => what = "ask") /\ (to = "done" => what = "final")
      OBVIOUS
    <3> HIDE DEF to
    <3>4. (live'[q].pc = "ask" => KeptUpTo(q, n, "ask")') /\ (live'[q].pc = "done" => KeptUpTo(q, n, "final")')
      BY <1>7, <1>12, <3>3
    <3>5. StepsKept(q)'
      BY <3>1, <3>2, <3>4 DEF StepsKept
    <3> QED BY <2>3, <2>6, <3>5
  <2> QED BY <2>5, <2>6
<1> QED BY <1>8, <1>9, <1>13 DEF LiveInv

LEMMA CalledInv ==
    ASSUME LiveInv, NEW q \in AgentRuns, Called(q) PROVE LiveInv'
<1> DEFINE calls == toolCalls[q[1]]
           answer == <<q[1], Len(calls)>>
           entry == [agent |-> q[2], answer |-> answer]
           told == live[q].shown
<1>1. /\ toolCalls' = [toolCalls EXCEPT ![q[1]] = Append(calls, entry)]
      /\ live' = [live EXCEPT ![q].pc = "think", ![q].shown = Append(told, answer)]
      /\ live[q].pc = "ask" /\ UNCHANGED <<tick, opened, shut, reruns, steps>>
  BY DEF Called, LiveInv, LiveTypeOK
<1>2. /\ calls \in Seq(Entries) /\ live[q] \in Runs /\ told \in Seq(Answers) /\ q[1] \in Nat /\ q[1] \in Investigated
  BY RunIs DEF LiveInv, LiveTypeOK, Runs
<1>3. answer \in Answers /\ PlaceOf(answer) = Len(calls) + 1 /\ Len(calls) \in Nat
  BY <1>2 DEF Answers, PlaceOf
<1>4. entry \in Entries /\ entry.agent = q[2] /\ entry.answer = answer
  BY <1>3 DEF Entries
<1> HIDE DEF calls, answer, entry, told
<1>5. /\ \A r \in AgentRuns : r # q => live'[r] = live[r]
      /\ live'[q] = [live[q] EXCEPT !.pc = "think", !.shown = Append(told, answer)]
  BY <1>1 DEF LiveInv, LiveTypeOK
<1>6. Append(told, answer) \in Seq(Answers)
  BY <1>2, <1>3
<1>7. live'[q].shown = Append(told, answer) /\ live'[q].view = live[q].view /\ live'[q].pc = "think" /\ live'[q] \in Runs
  BY <1>2, <1>5, <1>6 DEF Runs
<1>8. /\ toolCalls'[q[1]] = Append(calls, entry)
      /\ \A i \in Investigated : i # q[1] => toolCalls'[i] = toolCalls[i]
      /\ toolCalls' \in [Investigated -> Seq(Entries)]
  BY <1>1, <1>2, <1>4 DEF LiveInv, LiveTypeOK
<1>9. LiveTypeOK'
  BY <1>1, <1>5, <1>7, <1>8 DEF LiveInv, LiveTypeOK
<1>10. ASSUME NEW r \in AgentRuns PROVE LiveView(r)'
  BY <1>1, <1>5, <1>7 DEF LiveInv, LiveView, RelatedView
\* Who asked has a place more; the places of the others are what they were.
<1>11. /\ DOMAIN Append(calls, entry) = DOMAIN calls \cup {Len(calls) + 1} /\ Len(calls) + 1 \notin DOMAIN calls
       /\ Append(calls, entry)[Len(calls) + 1] = entry
       /\ \A p \in DOMAIN calls : Append(calls, entry)[p] = calls[p] /\ p < Len(calls) + 1
  BY <1>2, <1>3, <1>4
<1>12. ASSUME NEW r \in AgentRuns
       PROVE  /\ r # q => Mine(r)' = Mine(r)
              /\ r = q => Mine(r)' = Mine(r) \cup {Len(calls) + 1}
              /\ \A p \in Mine(r) : toolCalls'[r[1]][p] = toolCalls[r[1]][p]
  <2>1. CASE r[1] # q[1]
    BY <1>8, <2>1, RunIs DEF Mine
  <2>2. CASE r[1] = q[1]
    <3>1. r[2] = q[2] => r = q
      BY <2>2, RunIs
    <3>2. /\ Mine(r) = {p \in DOMAIN calls : calls[p].agent = r[2]}
          /\ Mine(r)' = {p \in DOMAIN Append(calls, entry) : Append(calls, entry)[p].agent = r[2]}
      BY <1>8, <2>2 DEF Mine, calls
    <3>3. \A p \in DOMAIN calls : Append(calls, entry)[p] = calls[p]
      BY <1>11
    <3>4. \A p \in Mine(r) : toolCalls'[r[1]][p] = toolCalls[r[1]][p]
      BY <1>8, <2>2, <3>2, <3>3 DEF calls
    <3>5. r # q => Mine(r)' = Mine(r)
      BY <1>4, <1>11, <3>1, <3>2, <3>3
    <3>6. r = q => Mine(r)' = Mine(r) \cup {Len(calls) + 1}
      BY <1>4, <1>11, <3>2, <3>3
    <3> QED BY <3>4, <3>5, <3>6
  <2> QED BY <2>1, <2>2
<1>13. ASSUME NEW r \in AgentRuns, Smooth(r)' PROVE Own(r)' /\ StepsKept(r)'
  <2>1. Own(r) /\ StepsKept(r)
    BY <1>1, <1>13 DEF LiveInv, Smooth
  <2>2. CASE r # q
    <3>1. live'[r] = live[r] /\ Mine(r)' = Mine(r)
      BY <1>5, <1>12, <2>2
    <3>2. Own(r)'
      BY <1>12, <2>1, <3>1 DEF Own, PlaceOf
    <3>3. \A n, what : KeptUpTo(r, n, what)' <=> KeptUpTo(r, n, what)
      BY <1>1, <3>1 DEF KeptUpTo, RequestAt
    <3> QED BY <2>1, <3>1, <3>2, <3>3 DEF StepsKept
  <2>3. CASE r = q
    <3> DEFINE n == Len(told)  more == Append(told, answer)
    <3>1. /\ n \in Nat /\ DOMAIN told = 1..n /\ DOMAIN more = 1..(n + 1) /\ Len(more) = n + 1
          /\ more[n + 1] = answer /\ \A k \in 1..n : more[k] = told[k]
          /\ \A k \in 0..n : Upto(more, k) = Upto(told, k)
      BY <1>2, <1>3, Appended
    <3> HIDE DEF n, more
    <3>2. live'[q].shown = more
      BY <1>7 DEF more
    <3>3. Own(q)'
      <4>1. /\ \A k \in 1..n : /\ PlaceOf(told[k]) \in Mine(q)
                               /\ toolCalls[q[1]][PlaceOf(told[k])].answer = told[k]
            /\ \A k, m \in 1..n : k < m => PlaceOf(told[k]) < PlaceOf(told[m])
            /\ \A p \in Mine(q) : \E k \in 1..n : PlaceOf(told[k]) = p
        BY <2>1, <2>3, <3>1, Zenon DEF Own, told
      <4>2. Len(calls) + 1 \in Mine(q)' /\ toolCalls'[q[1]][Len(calls) + 1].answer = answer
        BY <1>4, <1>8, <1>11, <1>12
      <4>3. ASSUME NEW k \in 1..(n + 1)
            PROVE  PlaceOf(more[k]) \in Mine(q)' /\ toolCalls'[q[1]][PlaceOf(more[k])].answer = more[k]
        <5>1. CASE k = n + 1
          BY <1>3, <3>1, <4>2, <5>1
        <5>2. CASE k \in 1..n
          BY <1>12, <3>1, <4>1, <5>2
        <5> QED BY <3>1, <5>1, <5>2
      <4>4. ASSUME NEW k \in 1..(n + 1), NEW m \in 1..(n + 1), k < m PROVE PlaceOf(more[k]) < PlaceOf(more[m])
        <5>1. k \in 1..n /\ more[k] = told[k]
          BY <3>1, <4>4
        <5>2. CASE m = n + 1
          <6>1. PlaceOf(told[k]) \in DOMAIN calls
            BY <4>1, <5>1 DEF Mine, calls
          <6>2. PlaceOf(told[k]) < Len(calls) + 1
            BY <6>1, <1>11
          <6> QED BY <1>3, <3>1, <5>1, <5>2, <6>2
        <5>3. CASE m \in 1..n
          BY <3>1, <4>1, <4>4, <5>1, <5>3
        <5> QED BY <3>1, <5>2, <5>3
      <4>5. ASSUME NEW p \in Mine(q)' PROVE \E k \in 1..(n + 1) : PlaceOf(more[k]) = p
        <5>1. CASE p = Len(calls) + 1
          BY <1>3, <3>1, <5>1
        <5>2. CASE p \in Mine(q)
          <6>1. PICK k \in 1..n : PlaceOf(told[k]) = p
            BY <4>1, <5>2
          <6> QED BY <3>1, <6>1
        <5> QED BY <1>12, <4>5, <5>1, <5>2
      <4> QED BY <3>1, <3>2, <4>3, <4>4, <4>5, Zenon DEF Own, PlaceOf
    <3>4. \A what : \A k \in 0..n : KeptUpTo(q, k, what)' <=> KeptUpTo(q, k, what)
      BY <1>1, <1>7, <3>1, <3>2 DEF KeptUpTo, RequestAt, told
    <3>5. \A k \in 0..(n + 1) : k < n + 1 => KeptUpTo(q, k, "ask")
      <4>1. KeptUpTo(q, n, "ask") /\ \A k \in 0..n : k < n => KeptUpTo(q, k, "ask")
        BY <1>1, <2>1, <2>3, Zenon DEF StepsKept, n, told
      <4>2. \A k \in 0..(n + 1) : k < n + 1 => k = n \/ (k \in 0..n /\ k < n)
        BY <3>1
      <4> QED BY <4>1, <4>2, Zenon
    <3>6. StepsKept(q)'
      <4>1. live'[q].pc = "think" /\ Len(live'[q].shown) = n + 1
        BY <1>7, <3>1, <3>2
      <4>2. \A k \in 0..(n + 1) : k < n + 1 => k \in 0..n
        BY <3>1
      <4> QED BY <3>4, <3>5, <4>1, <4>2 DEF StepsKept
    <3> QED BY <2>3, <3>3, <3>6
  <2> QED BY <2>2, <2>3
<1> QED BY <1>9, <1>10, <1>13 DEF LiveInv

LEMMA InterruptedInv ==
    ASSUME LiveInv, NEW q \in AgentRuns, Interrupted(q) PROVE LiveInv'
<1>1. /\ reruns' = reruns \cup {q} /\ live' = [live EXCEPT ![q] = NotRun]
      /\ UNCHANGED <<tick, opened, shut, toolCalls, steps>>
  BY DEF Interrupted
<1>2. NotRun \in Runs /\ NotRun.pc = "idle"
  <2>1. <<>> \in Seq(Answers) /\ {} \in SUBSET Investigated
    OBVIOUS
  <2> QED BY <2>1 DEF NotRun, Runs
<1>3. live'[q] = NotRun /\ \A r \in AgentRuns : r # q => live'[r] = live[r]
  BY <1>1 DEF LiveInv, LiveTypeOK
<1>4. LiveTypeOK'
  BY <1>1, <1>2, <1>3 DEF LiveInv, LiveTypeOK
<1>5. ASSUME NEW r \in AgentRuns PROVE LiveView(r)'
  BY <1>1, <1>2, <1>3 DEF LiveInv, LiveView, RelatedView
<1>6. ASSUME NEW r \in AgentRuns, Smooth(r)' PROVE Own(r)' /\ StepsKept(r)'
  BY <1>1, <1>3, <1>6, RecordStays DEF LiveInv, Smooth
<1> QED BY <1>4, <1>5, <1>6 DEF LiveInv

-----------------------------------------------------------------------------
(* Replay: the steps of the replay                                         *)

LEMMA LiveKept == LiveInv /\ UNCHANGED liveVars => LiveInv'
<1> SUFFICES ASSUME LiveInv, UNCHANGED liveVars PROVE LiveInv'
  OBVIOUS
<1>1. UNCHANGED <<tick, opened, shut, live, reruns, toolCalls, steps>>
  BY DEF liveVars
<1>2. LiveTypeOK'
  BY <1>1 DEF LiveInv, LiveTypeOK
<1>3. ASSUME NEW r \in AgentRuns PROVE LiveView(r)'
  BY <1>1 DEF LiveInv, LiveView, RelatedView
<1>4. ASSUME NEW r \in AgentRuns, Smooth(r)' PROVE Own(r)' /\ StepsKept(r)'
  BY <1>1, <1>4, RecordStays DEF LiveInv, Smooth
<1> QED BY <1>2, <1>3, <1>4 DEF LiveInv

\* Of the runs a step leaves as they are, unless it takes from their queue.
LEMMA RunStays ==
    ASSUME NEW r \in AgentRuns, UNCHANGED liveVars, replayed'[r] = replayed[r],
           ReplayView(r), Smooth(r) /\ SameView(r) => Follows(r) /\ QueueOf(r),
           phase' = "replay" /\ turn' = r[1] => phase = "replay" /\ turn = r[1] /\ queues'[r[2]] = queues[r[2]]
    PROVE  ReplayView(r)' /\ (Smooth(r)' /\ SameView(r)' => Follows(r)' /\ QueueOf(r)')
<1>1. UNCHANGED <<opened, live, reruns, toolCalls>>
  BY DEF liveVars
<1>2. ReplayView(r)'
  BY <1>1 DEF ReplayView, RelatedView
<1>3. ASSUME Smooth(r)', SameView(r)' PROVE Follows(r) /\ QueueOf(r)
  BY <1>1, <1>3 DEF Smooth, SameView
<1>4. Follows(r) => Follows(r)'
  BY <1>1 DEF Follows, Upto
<1>5. QueueOf(r) => QueueOf(r)'
  BY <1>1 DEF QueueOf, Mine, PlaceOf
<1> QED BY <1>2, <1>3, <1>4, <1>5

\* A turn begins for an incident of which nothing is replayed yet.
LEMMA NewTurn ==
    ASSUME ReplayInv, UNCHANGED <<liveVars, replayed>>, phase' # "live",
           \A r \in AgentRuns : live[r].pc = "done",
           \A r, s \in AgentRuns : r[1] = s[1] /\ replayed[r].pc # "idle" => replayed[s].pc \in {"done", "missed"},
           NEW left \in SUBSET Investigated,
           \A r \in AgentRuns : r[1] \in left => replayed[r].pc = "idle",
           \/ phase' # "replay" /\ UNCHANGED source
           \/ \E i \in left : phase' = "replay" /\ turn' = i /\ Load(i)
    PROVE  PlayInv'
<1>1. UNCHANGED <<opened, live, reruns, toolCalls>> /\ replayed' = replayed
  BY DEF liveVars
<1>2. InTurn'
  BY <1>1 DEF InTurn
<1>3. \A r \in AgentRuns : ReplayView(r) /\ (Smooth(r) /\ SameView(r) => Follows(r) /\ QueueOf(r))
  BY DEF ReplayInv, PlayInv
<1>4. CASE phase' # "replay" /\ UNCHANGED source
  <2>1. PlayTypeOK'
    BY <1>1, <1>4 DEF ReplayInv, PlayInv, PlayTypeOK, source
  <2>2. \A r \in AgentRuns : ReplayView(r)' /\ (Smooth(r)' /\ SameView(r)' => Follows(r)' /\ QueueOf(r)')
    BY <1>1, <1>3, <1>4, RunStays
  <2> QED BY <1>2, <2>1, <2>2 DEF PlayInv
<1>5. ASSUME NEW i \in left, phase' = "replay", turn' = i, Load(i) PROVE PlayInv'
  <2>1. /\ queues' = [k \in Keys |-> {n \in DOMAIN toolCalls[i] : k \in KeysOf(toolCalls[i][n])}]
        /\ lastOf' = [k \in Keys |-> NoEntry]
    BY <1>5 DEF Load, incident_tools
  <2>2. toolCalls[i] \in Seq(Entries) /\ DOMAIN toolCalls[i] \subseteq Nat
    BY <1>5 DEF ReplayInv, LiveInv, LiveTypeOK
  <2>3. PlayTypeOK'
    <3>1. lastOf' \in [Keys -> Answers] /\ queues' \in [Keys -> SUBSET Nat]
      BY <2>1, <2>2 DEF NoEntry, Answers
    <3>2. \A k \in Keys : queues'[k] \subseteq DOMAIN toolCalls'[turn']
      BY <1>1, <1>5, <2>1
    <3> QED BY <1>1, <1>5, <3>1, <3>2 DEF ReplayInv, PlayInv, PlayTypeOK
  <2>4. ASSUME NEW r \in AgentRuns PROVE ReplayView(r)' /\ (Smooth(r)' /\ SameView(r)' => Follows(r)' /\ QueueOf(r)')
    <3>1. CASE r[1] # i
      BY <1>1, <1>3, <1>5, <3>1, RunStays
    <3>2. CASE r[1] = i
      <4>1. replayed[r].pc = "idle" /\ replayed[r] = NotRun /\ Len(replayed[r].shown) = 0
        <5>1. Len(<<>>) = 0
          OBVIOUS
        <5> QED BY <1>5, <3>2, <5>1 DEF ReplayInv, PlayInv, PlayTypeOK, NotRun
      <4>2. queues'[r[2]] = Mine(r)
        <5>1. \A n \in DOMAIN toolCalls[i] : r[2] \in KeysOf(toolCalls[i][n]) <=> toolCalls[i][n].agent = r[2]
          BY RunIs DEF KeysOf
        <5> QED BY <2>1, <3>2, <5>1, RunIs DEF Mine
      <4>3. ReplayView(r)'
        BY <1>1, <4>1 DEF ReplayView
      <4>4. ASSUME Smooth(r)', SameView(r)' PROVE Follows(r)'
        <5>1. Follows(r)
          BY <1>1, <1>3, <4>4 DEF Smooth, SameView
        <5> QED BY <1>1, <5>1 DEF Follows, Upto
      <4>5. QueueOf(r)'
        <5>1. Mine(r)' = Mine(r)
          BY <1>1 DEF Mine
        <5> QED BY <1>1, <4>1, <4>2, <5>1 DEF QueueOf
      <4> QED BY <4>3, <4>4, <4>5
    <3> QED BY <3>1, <3>2
  <2> QED BY <1>2, <2>3, <2>4 DEF PlayInv
<1> QED BY <1>4, <1>5

LEMMA LoadedInv == ASSUME ReplayInv, Loaded PROVE PlayInv'
<1>1. /\ phase = "live" /\ \A r \in AgentRuns : live[r].pc = "done"
      /\ UNCHANGED <<liveVars, replayed>>
  BY DEF Loaded
<1>2. \A r \in AgentRuns : replayed[r].pc = "idle"
  BY <1>1 DEF ReplayInv, PlayInv, PlayTypeOK
<1>3. \/ phase' \in {"failed", "done"} /\ UNCHANGED source
      \/ \E i \in Investigated : phase' = "replay" /\ turn' = i /\ Load(i)
  BY DEF Loaded, TurnOf, NextOf
<1>4. phase' # "live" /\ (phase' \in {"failed", "done"} => phase' # "replay")
  BY <1>3
<1> QED BY <1>1, <1>2, <1>3, <1>4, NewTurn

LEMMA NextTurnInv == ASSUME ReplayInv, NextTurn PROVE PlayInv'
<1> DEFINE unplayed == {r[1] : r \in {s \in AgentRuns : replayed[s].pc = "idle"}}
<1>1. /\ phase = "replay" /\ \A r \in AgentRuns : r[1] = turn => replayed[r].pc \in {"done", "missed"}
      /\ TurnOf(unplayed) /\ UNCHANGED <<liveVars, replayed>>
  BY DEF NextTurn
<1>2. \A r \in AgentRuns : live[r].pc = "done"
  BY <1>1 DEF ReplayInv, PlayInv, PlayTypeOK
<1>3. \A r, s \in AgentRuns : r[1] = s[1] /\ replayed[r].pc # "idle" => replayed[s].pc \in {"done", "missed"}
  BY <1>1 DEF ReplayInv, PlayInv, InTurn
<1>4. \A r \in AgentRuns : r[1] \in unplayed => replayed[r].pc = "idle"
  BY <1>3
<1>5. unplayed \in SUBSET Investigated
  BY RunIs
<1> HIDE DEF unplayed
<1>6. \/ phase' = "done" /\ UNCHANGED source
      \/ \E i \in unplayed : phase' = "replay" /\ turn' = i /\ Load(i)
  BY <1>1 DEF TurnOf, NextOf
<1>7. phase' # "live" /\ (phase' = "done" => phase' # "replay")
  BY <1>6
<1> QED BY <1>1, <1>2, <1>3, <1>4, <1>5, <1>6, <1>7, NewTurn

\* In a turn only the runs of its incident move.
LEMMA MovesInTurn ==
    ASSUME InTurn, NEW q \in AgentRuns, phase = "replay", turn = q[1], UNCHANGED <<phase, turn>>,
           \A r \in AgentRuns : r # q => replayed'[r] = replayed[r]
    PROVE  InTurn'
<1> SUFFICES ASSUME NEW r \in AgentRuns, NEW s \in AgentRuns, r[1] = s[1], replayed'[r].pc # "idle", turn # r[1]
             PROVE  replayed'[s].pc \in {"done", "missed"}
  BY DEF InTurn
<1>1. r # q /\ s # q
  OBVIOUS
<1> QED BY <1>1 DEF InTurn

LEMMA ReplayStartsInv ==
    ASSUME ReplayInv, NEW q \in AgentRuns, ReplayStarts(q) PROVE PlayInv'
<1> DEFINE began == [pc |-> "think", view |-> RelatedView(q[1], [i \in Investigated |-> 0]), shown |-> <<>>]
<1>1. /\ phase = "replay" /\ turn = q[1] /\ replayed[q].pc = "idle"
      /\ replayed' = [replayed EXCEPT ![q] = began] /\ UNCHANGED <<liveVars, phase, turn, source>>
  BY DEF ReplayStarts
<1>2. /\ began \in Runs /\ began.pc = "think" /\ began.shown = <<>>
      /\ began.view = RelatedView(q[1], [i \in Investigated |-> 0])
  <2>1. <<>> \in Seq(Answers) /\ RelatedView(q[1], [i \in Investigated |-> 0]) \in SUBSET Investigated
    BY ViewIn
  <2> QED BY <2>1 DEF Runs
<1> HIDE DEF began
<1>3. replayed'[q] = began /\ \A r \in AgentRuns : r # q => replayed'[r] = replayed[r]
  BY <1>1 DEF ReplayInv, PlayInv, PlayTypeOK
<1>4. PlayTypeOK'
  BY <1>1, <1>2, <1>3 DEF ReplayInv, PlayInv, PlayTypeOK, source, liveVars
<1>5. InTurn'
  BY <1>1, <1>3, MovesInTurn DEF ReplayInv, PlayInv
<1>6. ASSUME NEW r \in AgentRuns PROVE ReplayView(r)' /\ (Smooth(r)' /\ SameView(r)' => Follows(r)' /\ QueueOf(r)')
  <2>1. ReplayView(r) /\ (Smooth(r) /\ SameView(r) => Follows(r) /\ QueueOf(r))
    BY DEF ReplayInv, PlayInv
  <2>2. CASE r # q
    BY <1>1, <1>3, <2>1, <2>2, RunStays DEF source
  <2>3. CASE r = q
    <3>1. UNCHANGED <<opened, live, reruns, toolCalls, queues>>
      BY <1>1 DEF liveVars, source
    <3>2. replayed[q].shown = <<>> /\ replayed'[q].shown = <<>> /\ Len(<<>>) = 0
      BY <1>1, <1>2, <1>3 DEF ReplayInv, PlayInv, PlayTypeOK, NotRun
    <3>3. ReplayView(q)'
      BY <1>2, <1>3, <3>1 DEF ReplayView, RelatedView
    <3>4. ASSUME Smooth(q)' PROVE Follows(q)' /\ QueueOf(q)'
      <4>1. Follows(q) /\ QueueOf(q)
        BY <1>1, <2>1, <2>3, <3>1, <3>4 DEF Smooth, SameView
      <4>2. replayed'[q].pc = "think"
        BY <1>2, <1>3
      <4>3. Follows(q)'
        BY <3>1, <3>2, <4>1, <4>2 DEF Follows, Upto
      <4>4. Mine(q)' = Mine(q)
        BY <3>1 DEF Mine
      <4>5. QueueOf(q)'
        BY <1>1, <3>1, <3>2, <4>1, <4>4 DEF QueueOf, PlaceOf
      <4> QED BY <4>3, <4>5
    <3> QED BY <2>3, <3>3, <3>4
  <2> QED BY <2>2, <2>3
<1> QED BY <1>4, <1>5, <1>6 DEF PlayInv

LEMMA ReplayAnsweredInv ==
    ASSUME ReplayInv, NEW q \in AgentRuns, ReplayAnswered(q) PROVE PlayInv'
<1> DEFINE found == {s \in steps : s.request = Request(q, replayed[q])}
           to == IF found = {} THEN "missed" ELSE IF \E s \in found : s.step = "ask" THEN "ask" ELSE "done"
<1>1. /\ phase = "replay" /\ turn = q[1] /\ replayed[q].pc = "think"
      /\ replayed' = [replayed EXCEPT ![q].pc = to] /\ UNCHANGED <<liveVars, phase, turn, source>>
  BY DEF ReplayAnswered
<1>2. to \in {"missed", "ask", "done"} /\ replayed[q] \in Runs
  BY DEF ReplayInv, PlayInv, PlayTypeOK
<1>3. /\ found = {} => to = "missed"
      /\ found # {} /\ (\A s \in found : s.step = "ask") => to = "ask"
      /\ found # {} /\ (\A s \in found : s.step = "final") => to = "done"
  OBVIOUS
<1> HIDE DEF to
<1>4. /\ \A r \in AgentRuns : r # q => replayed'[r] = replayed[r]
      /\ replayed'[q] = [replayed[q] EXCEPT !.pc = to]
  BY <1>1 DEF ReplayInv, PlayInv, PlayTypeOK
<1>5. /\ replayed'[q].shown = replayed[q].shown /\ replayed'[q].view = replayed[q].view
      /\ replayed'[q].pc = to /\ replayed'[q] \in Runs
  BY <1>2, <1>4 DEF Runs
<1>6. PlayTypeOK'
  BY <1>1, <1>2, <1>4, <1>5 DEF ReplayInv, PlayInv, PlayTypeOK, source, liveVars
<1>7. InTurn'
  BY <1>1, <1>4, MovesInTurn DEF ReplayInv, PlayInv
<1>8. ASSUME NEW r \in AgentRuns PROVE ReplayView(r)' /\ (Smooth(r)' /\ SameView(r)' => Follows(r)' /\ QueueOf(r)')
  <2>1. ReplayView(r) /\ (Smooth(r) /\ SameView(r) => Follows(r) /\ QueueOf(r))
    BY DEF ReplayInv, PlayInv
  <2>2. CASE r # q
    BY <1>1, <1>4, <2>1, <2>2, RunStays DEF source
  <2>3. CASE r = q
    <3>1. UNCHANGED <<opened, live, reruns, toolCalls, queues>>
      BY <1>1 DEF liveVars, source
    <3>2. ReplayView(q)'
      BY <1>1, <1>5, <2>1, <2>3, <3>1 DEF ReplayView, RelatedView
    <3>3. ASSUME Smooth(q)', SameView(q)' PROVE Follows(q)' /\ QueueOf(q)'
      <4> DEFINE told == live[q].shown  n == Len(replayed[q].shown)
      <4>1. Follows(q) /\ QueueOf(q) /\ replayed[q].view = live[q].view
        BY <1>1, <1>2, <1>5, <2>1, <2>3, <3>1, <3>3 DEF Smooth, SameView
      <4>2. StepsKept(q) /\ live[q].pc = "done"
        BY <1>1, <3>1, <3>3 DEF ReplayInv, LiveInv, PlayInv, PlayTypeOK, Smooth
      <4>3. n <= Len(told) /\ replayed[q].shown = Upto(told, n)
        BY <4>1 DEF Follows
      <4>4. Request(q, replayed[q]) = RequestAt(q, n)
        BY <4>1, <4>3 DEF Request, RequestAt
      <4>5. n \in Nat /\ Len(told) \in Nat
        BY <1>2 DEF Runs, ReplayInv, LiveInv, LiveTypeOK
      <4>6. n < Len(told) => KeptUpTo(q, n, "ask")
        BY <4>2, <4>3, <4>5 DEF StepsKept
      <4>7. n = Len(told) => KeptUpTo(q, n, "final")
        BY <4>2 DEF StepsKept
      <4>8. (KeptUpTo(q, n, "ask") => to = "ask") /\ (KeptUpTo(q, n, "final") => to = "done")
        BY <1>3, <4>4 DEF KeptUpTo
      <4>9. (n < Len(told) /\ to = "ask") \/ (n = Len(told) /\ to = "done")
        BY <4>3, <4>5, <4>6, <4>7, <4>8
      <4>10. Follows(q)'
        BY <1>5, <3>1, <4>3, <4>9 DEF Follows, Upto
      <4>11. Mine(q)' = Mine(q)
        BY <3>1 DEF Mine
      <4>12. QueueOf(q)'
        BY <1>1, <1>5, <3>1, <4>1, <4>11 DEF QueueOf, PlaceOf
      <4> QED BY <4>10, <4>12
    <3> QED BY <2>3, <3>2, <3>3
  <2> QED BY <2>2, <2>3
<1> QED BY <1>6, <1>7, <1>8 DEF PlayInv

\* Asking again, a run that is told the same finds its next answer in its queue.
LEMMA NextAnswer ==
    ASSUME ReplayInv, NEW q \in AgentRuns, Smooth(q), Follows(q), QueueOf(q),
           phase = "replay", turn = q[1], replayed[q].pc = "ask"
    PROVE  LET told == live[q].shown  n == Len(replayed[q].shown)
           IN  /\ Key(q[2]) = q[2] /\ n < Len(told) /\ queues[q[2]] # {}
               /\ Min(queues[q[2]]) = PlaceOf(told[n + 1])
               /\ toolCalls[turn][Min(queues[q[2]])].answer = told[n + 1]
<1> DEFINE told == live[q].shown  n == Len(replayed[q].shown)  left == queues[q[2]]
<1>1. told \in Seq(Answers) /\ Len(told) \in Nat /\ n \in Nat /\ n < Len(told) /\ DOMAIN told = 1..Len(told)
  BY DEF ReplayInv, LiveInv, LiveTypeOK, PlayInv, PlayTypeOK, Runs, Follows
<1>2. left = {p \in Mine(q) : \A k \in 1..n : p # PlaceOf(told[k])}
  BY DEF QueueOf
<1>3. /\ \A m \in DOMAIN told : PlaceOf(told[m]) \in Mine(q) /\ toolCalls[q[1]][PlaceOf(told[m])].answer = told[m]
      /\ \A m, k \in DOMAIN told : m < k => PlaceOf(told[m]) < PlaceOf(told[k])
      /\ \A p \in Mine(q) : \E m \in DOMAIN told : PlaceOf(told[m]) = p
  BY DEF ReplayInv, LiveInv, Own
<1>4. left \subseteq Nat
  BY RunIs DEF ReplayInv, PlayInv, PlayTypeOK
<1> HIDE DEF told, n, left
<1>5. \A m \in DOMAIN told : PlaceOf(told[m]) \in Nat
  BY <1>1 DEF Answers, PlaceOf
<1>6. n + 1 \in DOMAIN told /\ \A k \in 1..n : k \in DOMAIN told /\ k < n + 1
  BY <1>1
<1>7. PlaceOf(told[n + 1]) \in left
  BY <1>2, <1>3, <1>5, <1>6
<1>8. ASSUME NEW p \in left PROVE PlaceOf(told[n + 1]) <= p
  <2>1. PICK m \in DOMAIN told : PlaceOf(told[m]) = p
    BY <1>2, <1>3
  <2>2. m \notin 1..n
    BY <1>2, <2>1
  <2>3. m = n + 1 \/ n + 1 < m
    BY <1>1, <2>2
  <2> QED BY <1>3, <1>5, <1>6, <2>1, <2>3
<1>9. Min(left) \in left /\ Min(left) <= PlaceOf(told[n + 1])
  BY <1>4, <1>7, MinIn
<1>10. Min(left) = PlaceOf(told[n + 1])
  <2>1. Min(left) \in Nat /\ PlaceOf(told[n + 1]) \in Nat
    BY <1>4, <1>5, <1>6, <1>9
  <2>2. PlaceOf(told[n + 1]) <= Min(left)
    BY <1>8, <1>9
  <2> QED BY <1>9, <2>1, <2>2
<1>11. left # {} /\ Key(q[2]) = q[2]
  BY <1>7 DEF Key, left
<1>12. toolCalls[turn][Min(left)].answer = told[n + 1]
  BY <1>3, <1>6, <1>10
<1> QED BY <1>1, <1>10, <1>11, <1>12 DEF told, n, left

LEMMA ReplayCalledInv ==
    ASSUME ReplayInv, NEW q \in AgentRuns, ReplayCalled(q) PROVE PlayInv'
<1> DEFINE k == Key(q[2])  first == Min(queues[k])  answer == lastOf'[k]
           got == Append(replayed[q].shown, answer)
<1>1. /\ phase = "replay" /\ turn = q[1] /\ replayed[q].pc = "ask"
      /\ replayed' = [replayed EXCEPT ![q].pc = "think", ![q].shown = got]
      /\ UNCHANGED <<liveVars, phase, turn>>
  BY DEF ReplayCalled, ReplayInv, PlayInv, PlayTypeOK
<1>2. \/ /\ queues[k] # {} /\ queues' = [queues EXCEPT ![k] = @ \ {first}]
         /\ lastOf' = [lastOf EXCEPT ![k] = toolCalls[turn][first].answer]
      \/ queues[k] = {} /\ UNCHANGED <<queues, lastOf>>
  BY DEF ReplayCalled, incident_tools, source
<1>3. /\ k \in {q[2], AnyAgent} /\ k \in Keys /\ turn \in Investigated
      /\ lastOf \in [Keys -> Answers] /\ queues \in [Keys -> SUBSET Nat]
      /\ \A key \in Keys : queues[key] \subseteq DOMAIN toolCalls[turn]
      /\ toolCalls[turn] \in Seq(Entries) /\ replayed \in [AgentRuns -> Runs] /\ replayed[q] \in Runs
  BY <1>1, RunIs DEF Key, ReplayInv, LiveInv, LiveTypeOK, PlayInv, PlayTypeOK
<1> HIDE DEF k
<1>4. queues[k] # {} => first \in queues[k] /\ toolCalls[turn][first].answer \in Answers
  <2> SUFFICES ASSUME queues[k] # {} PROVE first \in queues[k] /\ toolCalls[turn][first].answer \in Answers
    OBVIOUS
  <2>1. first \in queues[k]
    BY <1>3, MinIn
  <2>2. toolCalls[turn][first] \in Entries
    BY <1>3, <2>1
  <2> QED BY <2>1, <2>2 DEF Entries
<1>5. lastOf' \in [Keys -> Answers] /\ queues' \in [Keys -> SUBSET Nat]
  BY <1>2, <1>3, <1>4
<1>6. \A key \in Keys : queues'[key] \subseteq queues[key] /\ (key # k => queues'[key] = queues[key])
  BY <1>2, <1>3
<1>7. answer \in Answers
  BY <1>3, <1>5
<1> HIDE DEF answer, first
<1>8. got \in Seq(Answers)
  BY <1>3, <1>7 DEF Runs
<1> HIDE DEF got
<1>9. /\ \A r \in AgentRuns : r # q => replayed'[r] = replayed[r]
      /\ replayed'[q] = [replayed[q] EXCEPT !.pc = "think", !.shown = got]
  BY <1>1, <1>3
<1>10. /\ replayed'[q].shown = got /\ replayed'[q].view = replayed[q].view
       /\ replayed'[q].pc = "think" /\ replayed'[q] \in Runs
  BY <1>3, <1>8, <1>9 DEF Runs
<1>11. UNCHANGED <<opened, live, reruns, toolCalls, phase, turn>>
  BY <1>1 DEF liveVars
<1>12. PlayTypeOK'
  <2>1. replayed' \in [AgentRuns -> Runs] /\ \A r \in AgentRuns : replayed'[r].pc = "idle" => replayed'[r] = NotRun
    BY <1>1, <1>3, <1>9, <1>10 DEF ReplayInv, PlayInv, PlayTypeOK
  <2>2. \A key \in Keys : queues'[key] \subseteq DOMAIN toolCalls'[turn']
    BY <1>3, <1>6, <1>11
  <2> QED BY <1>1, <1>3, <1>5, <1>11, <2>1, <2>2 DEF ReplayInv, PlayInv, PlayTypeOK
<1>13. InTurn'
  BY <1>1, <1>9, MovesInTurn DEF ReplayInv, PlayInv
<1>14. ASSUME NEW r \in AgentRuns PROVE ReplayView(r)' /\ (Smooth(r)' /\ SameView(r)' => Follows(r)' /\ QueueOf(r)')
  <2>1. ReplayView(r) /\ (Smooth(r) /\ SameView(r) => Follows(r) /\ QueueOf(r))
    BY DEF ReplayInv, PlayInv
  <2>2. CASE r # q
    <3>1. turn = r[1] => queues'[r[2]] = queues[r[2]]
      BY <1>1, <1>3, <1>6, <2>2, RunIs
    <3> QED BY <1>1, <1>9, <2>1, <2>2, <3>1, RunStays
  <2>3. CASE r = q
    <3>1. ReplayView(q)'
      BY <1>1, <1>10, <1>11, <2>1, <2>3 DEF ReplayView, RelatedView
    <3>2. ASSUME Smooth(q)', SameView(q)' PROVE Follows(q)' /\ QueueOf(q)'
      <4> DEFINE told == live[q].shown  n == Len(replayed[q].shown)
      <4>1. Smooth(q) /\ Follows(q) /\ QueueOf(q)
        BY <1>1, <1>10, <1>11, <2>1, <2>3, <3>2 DEF Smooth, SameView
      <4>2. /\ Key(q[2]) = q[2] /\ n < Len(told) /\ queues[q[2]] # {}
            /\ Min(queues[q[2]]) = PlaceOf(told[n + 1])
            /\ toolCalls[turn][Min(queues[q[2]])].answer = told[n + 1]
        BY <1>1, <4>1, NextAnswer
      <4>3. k = q[2] /\ first = PlaceOf(told[n + 1]) /\ answer = told[n + 1]
        <5> HIDE DEF told, n
        <5>1. k = q[2] /\ first = PlaceOf(told[n + 1]) /\ queues[k] # {}
          BY <4>2, Zenon DEF k, first
        <5>2. lastOf' = [lastOf EXCEPT ![k] = toolCalls[turn][first].answer] /\ k \in DOMAIN lastOf
          BY <1>2, <1>3, <5>1
        <5>3. answer = toolCalls[turn][first].answer
          BY <5>2 DEF answer
        <5> QED BY <4>2, <5>1, <5>3, Zenon DEF k, first
      <4>4. queues'[q[2]] = queues[q[2]] \ {PlaceOf(told[n + 1])}
        <5> HIDE DEF told, n
        <5>1. queues' = [queues EXCEPT ![k] = @ \ {first}] /\ k \in DOMAIN queues
          BY <1>2, <1>3, <4>2, <4>3, Zenon
        <5>2. queues'[k] = queues[k] \ {first}
          BY <5>1
        <5> QED BY <4>3, <5>2
      <4>5. n \in Nat /\ Len(told) \in Nat /\ replayed[q].shown = Upto(told, n) /\ replayed[q].shown \in Seq(Answers)
        BY <1>3, <4>1 DEF Follows, Runs, ReplayInv, LiveInv, LiveTypeOK
      <4>6. Len(got) = n + 1 /\ got = Upto(told, n + 1)
        BY <4>3, <4>5 DEF Upto, got
      <4>7. n + 1 <= Len(told)
        BY <4>2, <4>5
      <4>8. live'[q].shown = told
        BY <1>11
      <4> HIDE DEF told, n
      <4>9. Follows(q)'
        BY <1>10, <4>6, <4>7, <4>8 DEF Follows, Upto
      <4>10. QueueOf(q)'
        <5>1. queues[q[2]] = {p \in Mine(q) : \A j \in 1..n : p # PlaceOf(told[j])}
          BY <1>1, <4>1 DEF QueueOf, n, told
        <5>2. Mine(q)' = Mine(q)
          BY <1>11 DEF Mine
        <5>3. \A p : (\A j \in 1..(n + 1) : p # PlaceOf(told[j])) <=>
                     (\A j \in 1..n : p # PlaceOf(told[j])) /\ p # PlaceOf(told[n + 1])
          BY <4>5
        <5>4. queues'[q[2]] = {p \in Mine(q) : \A j \in 1..(n + 1) : p # PlaceOf(told[j])}
          BY <4>4, <5>1, <5>3
        <5> QED BY <1>10, <4>6, <4>8, <5>2, <5>4 DEF QueueOf, PlaceOf
      <4> QED BY <4>9, <4>10
    <3> QED BY <2>3, <3>1, <3>2
  <2> QED BY <2>2, <2>3
<1> QED BY <1>12, <1>13, <1>14 DEF PlayInv

-----------------------------------------------------------------------------

LEMMA ReplayStep == ReplayInv /\ [ReplayNext]_replayVars => ReplayInv'
<1> SUFFICES ASSUME ReplayInv, [ReplayNext]_replayVars PROVE ReplayInv'
  OBVIOUS
<1>1. LiveInv /\ PlayInv
  BY DEF ReplayInv
\* A live step moves the live run, and nothing is replayed yet.
<1>2. ASSUME LiveInv', phase = "live" /\ UNCHANGED <<phase, turn, replayed, source>> PROVE ReplayInv'
  BY <1>2, NothingReplayed DEF ReplayInv, LiveInv
<1>3. ASSUME NEW new \in SUBSET Investigated, Opens(new) PROVE ReplayInv'
  BY <1>1, <1>2, <1>3, OpensInv DEF Opens
<1>4. ASSUME NEW i \in Investigated, Closed(i) PROVE ReplayInv'
  BY <1>1, <1>2, <1>4, ClosedInv DEF Closed
<1>5. ASSUME NEW r \in AgentRuns, Starts(r) PROVE ReplayInv'
  BY <1>1, <1>2, <1>5, StartsInv DEF Starts
<1>6. ASSUME NEW r \in AgentRuns, NEW what \in {"ask", "final"}, Answered(r, what) PROVE ReplayInv'
  BY <1>1, <1>2, <1>6, AnsweredInv DEF Answered
<1>7. ASSUME NEW r \in AgentRuns, Called(r) PROVE ReplayInv'
  BY <1>1, <1>2, <1>7, CalledInv DEF Called
<1>8. ASSUME NEW r \in AgentRuns, Interrupted(r) PROVE ReplayInv'
  BY <1>1, <1>2, <1>8, InterruptedInv DEF Interrupted
\* A step of the replay leaves the live run as it was.
<1>9. CASE Loaded
  BY <1>1, <1>9, LiveKept, LoadedInv DEF Loaded, ReplayInv
<1>10. CASE NextTurn
  BY <1>1, <1>10, LiveKept, NextTurnInv DEF NextTurn, ReplayInv
<1>11. ASSUME NEW r \in AgentRuns, ReplayStarts(r) PROVE ReplayInv'
  BY <1>1, <1>11, LiveKept, ReplayStartsInv DEF ReplayStarts, ReplayInv
<1>12. ASSUME NEW r \in AgentRuns, ReplayAnswered(r) PROVE ReplayInv'
  BY <1>1, <1>12, LiveKept, ReplayAnsweredInv DEF ReplayAnswered, ReplayInv
<1>13. ASSUME NEW r \in AgentRuns, ReplayCalled(r) PROVE ReplayInv'
  BY <1>1, <1>13, LiveKept, ReplayCalledInv DEF ReplayCalled, ReplayInv
<1>14. CASE UNCHANGED replayVars
  <2>1. UNCHANGED <<liveVars, phase, turn, replayed, queues, lastOf>>
    BY <1>14 DEF replayVars, source
  <2>2. UNCHANGED <<opened, live, reruns, toolCalls>>
    BY <2>1 DEF liveVars
  <2>3. PlayTypeOK' /\ InTurn'
    BY <1>1, <2>1, <2>2 DEF PlayInv, PlayTypeOK, InTurn
  <2>4. \A r \in AgentRuns : ReplayView(r)' /\ (Smooth(r)' /\ SameView(r)' => Follows(r)' /\ QueueOf(r)')
    BY <1>1, <2>1, RunStays DEF PlayInv
  <2> QED BY <1>1, <2>1, <2>3, <2>4, LiveKept DEF ReplayInv, PlayInv
<1> QED BY <1>3, <1>4, <1>5, <1>6, <1>7, <1>8, <1>9, <1>10, <1>11, <1>12, <1>13, <1>14 DEF ReplayNext

LEMMA ReplayedAsLive == ReplayInv => ReplayFaithful
<1> SUFFICES ASSUME ReplayInv PROVE ToldTheSame /\ AnsweredTheSame
  BY DEF ReplayFaithful
<1>1. ASSUME NEW r \in AgentRuns, replayed[r].pc # "idle" PROVE live[r].pc = "done" /\ live[r] \in Runs /\ replayed[r] \in Runs
  BY <1>1 DEF ReplayInv, LiveInv, LiveTypeOK, PlayInv, PlayTypeOK
<1>2. ToldTheSame
  <2> SUFFICES ASSUME NEW r \in AgentRuns, replayed[r].pc # "idle"
               PROVE  live[r].view = replayed[r].view \ ClosedBefore(r[1])
    BY DEF ToldTheSame
  <2>1. /\ live[r].view = RelatedView(r[1], shut)
        /\ replayed[r].view = RelatedView(r[1], [i \in Investigated |-> 0])
    BY <1>1 DEF ReplayInv, LiveInv, LiveView, PlayInv, ReplayView
  <2>2. opened[r[1]] \in Nat /\ \A j \in Investigated : shut[j] \in Nat
    BY RunIs DEF ReplayInv, LiveInv, LiveTypeOK
  <2>3. \A j \in Investigated \ {r[1]} : j \in ClosedBefore(r[1]) <=> ~(shut[j] = 0 \/ shut[j] > opened[r[1]])
    BY <2>2 DEF ClosedBefore
  <2> QED BY <2>1, <2>3 DEF RelatedView, ClosedBefore
<1>3. AnsweredTheSame
  <2> SUFFICES ASSUME NEW r \in AgentRuns, replayed[r].pc \in {"done", "missed"}, replayed[r].view = live[r].view, r \notin reruns
               PROVE  replayed[r] = live[r]
    BY DEF AnsweredTheSame
  <2>1. Follows(r) /\ replayed[r].pc # "idle"
    BY DEF ReplayInv, PlayInv, Smooth, SameView
  <2>2. replayed[r].pc = "done" /\ Len(replayed[r].shown) = Len(live[r].shown)
    BY <2>1 DEF Follows
  <2>3. replayed[r].shown = live[r].shown
    BY <1>1, <2>1, <2>2, WholeOf DEF Follows, Runs
  <2> QED BY <1>1, <2>1, <2>2, <2>3 DEF Runs
<1> QED BY <1>2, <1>3

\* A replayed investigation is told what the live one was, but for incidents that
\* had been closed before its own was opened; told the same and not interrupted, an
\* agent is answered the same and ends the same (investigations.incident_view,
\* ReplaySource.fetch, ReplayBackend.step), for any number of incidents and agents.
THEOREM ReplaysAsLive == ReplaySpec => []ReplayFaithful
<1> QED BY ReplayStart, ReplayStep, ReplayedAsLive, PTL DEF ReplaySpec

-----------------------------------------------------------------------------
(* Evaluate: the shards                                                    *)

LEMMA Division ==
  ASSUME NEW a \in Nat, NEW n \in Nat \ {0}
  PROVE  /\ a \div n \in Nat /\ a % n \in 0..n - 1 /\ a = (a \div n) * n + (a % n)
         /\ \A j \in Nat : j <= a \div n <=> j * n <= a
<1>1. a \div n \in Nat /\ a % n \in 0..n - 1 /\ a = (a \div n) * n + (a % n)
  OBVIOUS
<1> DEFINE q == a \div n  r == a % n
<1> HIDE DEF q, r
<1>2. q \in Nat /\ r \in 0..n - 1 /\ a = q * n + r
  BY <1>1 DEF q, r
<1>3. ASSUME NEW j \in Nat PROVE j <= q <=> j * n <= a
  <2>1. CASE j <= q
    <3>1. q = j + (q - j) /\ q - j \in Nat
      BY <1>2, <2>1
    <3>2. q * n = j * n + (q - j) * n /\ (q - j) * n \in Nat /\ j * n \in Nat
      BY <1>2, <3>1
    <3> QED BY <1>2, <2>1, <3>2
  <2>2. CASE q < j
    <3>1. j = q + (j - q) /\ j - q \in Nat /\ j - q >= 1
      BY <1>2, <2>2
    <3>2. j * n = q * n + (j - q) * n /\ (j - q) * n >= n
      BY <1>2, <3>1
    <3>3. j * n >= q * n + n /\ q * n + n > a
      BY <1>2, <3>2
    <3> QED BY <1>2, <2>2, <3>3
  <2> QED BY <1>2, <2>1, <2>2
<1> QED BY <1>1, <1>3 DEF q

\* Where a place is: its row and its column are determined.
LEMMA OnePlace ==
  ASSUME NEW n \in Nat \ {0}, NEW a \in Nat, NEW b \in Nat, NEW r \in 1..n, NEW s \in 1..n,
         r + a * n = s + b * n
  PROVE  r = s /\ a = b
<1>1. ASSUME NEW x \in Nat, NEW y \in Nat, x < y PROVE x * n + n <= y * n
  <2>1. y = x + 1 + (y - x - 1) /\ y - x - 1 \in Nat
    BY <1>1
  <2>2. y * n = (x + 1) * n + (y - x - 1) * n /\ (y - x - 1) * n >= 0 /\ (x + 1) * n = x * n + n
    BY <2>1
  <2> QED BY <2>2
<1>2. a * n \in Nat /\ b * n \in Nat
  OBVIOUS
<1>3. ~(a < b) /\ ~(b < a)
  BY <1>1, <1>2
<1> QED BY <1>3, <1>2

\* The l-th item is one the i-th of n shards takes.
Taken(l, i, n) == \E j \in Nat : l = i + j * n

\* The places of a shard are those that are i more than a multiple of n.
LEMMA ShardPlaces ==
  ASSUME NEW items, Len(items) \in Nat, NEW n \in Nat \ {0}, NEW i \in 1..n
  PROVE  \A x : x \in Range(shard(items, i, n)) <=>
                \E l \in 1..Len(items) : x = items[l] /\ Taken(l, i, n)
<1> DEFINE len == Len(items)  last == (len - i + n) \div n
<1>1. len - i + n \in Nat /\ last \in Nat /\ \A j \in Nat : j <= last <=> j * n <= len - i + n
  <2>1. len - i + n \in Nat
    OBVIOUS
  <2> QED BY <2>1, Division
<1>2. Range(shard(items, i, n)) = {items[i + (j - 1) * n] : j \in 1..last}
  BY DEF Range, shard
<1> HIDE DEF last, len
<1>3. ASSUME NEW j \in 1..last PROVE i + (j - 1) * n \in 1..len
  <2>1. j \in Nat /\ j * n <= len - i + n /\ len \in Nat
    BY <1>1 DEF len
  <2>2. j * n = (j - 1) * n + n /\ (j - 1) * n >= 0
    BY <2>1, <1>3
  <2> QED BY <2>1, <2>2
<1>4. ASSUME NEW l \in 1..len, NEW j \in Nat, l = i + j * n PROVE j + 1 \in 1..last /\ l = i + ((j + 1) - 1) * n
  <2>1. len \in Nat /\ j * n \in Nat
    BY DEF len
  <2>2. (j + 1) * n = j * n + n
    OBVIOUS
  <2>3. (j + 1) * n <= len - i + n
    BY <1>4, <2>1, <2>2
  <2>4. j + 1 \in Nat /\ j + 1 >= 1 /\ (j + 1) - 1 = j
    OBVIOUS
  <2>5. j + 1 <= last
    BY <1>1, <2>3, <2>4
  <2>6. j + 1 \in 1..last
    BY <1>1, <2>4, <2>5
  <2> QED BY <1>4, <2>4, <2>6, Zenon
<1>5. \A l \in 1..len : (\E j \in Nat : l = i + j * n) <=> \E j \in 1..last : l = i + (j - 1) * n
  <2> SUFFICES ASSUME NEW l \in 1..len
               PROVE  (\E j \in Nat : l = i + j * n) <=> \E j \in 1..last : l = i + (j - 1) * n
    OBVIOUS
  <2>1. ASSUME NEW j \in Nat, l = i + j * n PROVE \E m \in 1..last : l = i + (m - 1) * n
    BY <1>4, <2>1
  <2>2. ASSUME NEW j \in 1..last, l = i + (j - 1) * n PROVE \E m \in Nat : l = i + m * n
    <3>1. j - 1 \in Nat
      BY <1>1
    <3> QED BY <2>2, <3>1
  <2> QED BY <2>1, <2>2
<1>6. ASSUME NEW x
      PROVE  (\E j \in 1..last : x = items[i + (j - 1) * n]) <=>
               \E l \in 1..len : x = items[l] /\ \E j \in 1..last : l = i + (j - 1) * n
  BY <1>3
<1>7. \A x : x \in Range(shard(items, i, n)) <=>
              \E l \in 1..len : x = items[l] /\ \E j \in Nat : l = i + j * n
  BY <1>2, <1>5, <1>6
<1> QED BY <1>7 DEF len, Taken

\* Whatever is cut into however many shards, each item is in exactly one of them
\* (shard in app/eval/scenarios.py, cmd_merge).
THEOREM ShardsCutAnything ==
  ASSUME NEW S, NEW items \in Seq(S), \A k, l \in 1..Len(items) : items[k] = items[l] => k = l,
         NEW n \in Nat \ {0}, NEW k \in 1..Len(items)
  PROVE  Cardinality({i \in 1..n : items[k] \in Range(shard(items, i, n))}) = 1
<1>1. Len(items) \in Nat
  OBVIOUS
<1> DEFINE a == (k - 1) \div n  r == ((k - 1) % n) + 1
<1>2. a \in Nat /\ r \in 1..n /\ k = r + a * n
  <2>1. k - 1 \in Nat
    OBVIOUS
  <2>2. a \in Nat /\ (k - 1) % n \in 0..n - 1 /\ k - 1 = a * n + ((k - 1) % n)
    BY <2>1, Division
  <2>3. a * n \in Nat
    BY <2>2
  <2> QED BY <2>2, <2>3
<1> HIDE DEF a, r
<1>3. ASSUME NEW i \in 1..n PROVE items[k] \in Range(shard(items, i, n)) <=> i = r
  <2>1. items[k] \in Range(shard(items, i, n)) <=> Taken(k, i, n)
    <3>1. items[k] \in Range(shard(items, i, n)) <=>
            \E l \in 1..Len(items) : items[k] = items[l] /\ Taken(l, i, n)
      BY <1>1, ShardPlaces
    <3>2. \A l \in 1..Len(items) : items[k] = items[l] <=> k = l
      OBVIOUS
    <3> QED BY <3>1, <3>2, Zenon
  <2>2. Taken(k, i, n) <=> i = r
    BY <1>2, OnePlace DEF Taken
  <2> QED BY <2>1, <2>2
<1>4. {i \in 1..n : items[k] \in Range(shard(items, i, n))} = {r}
  BY <1>2, <1>3
<1> QED BY <1>4, FS_Singleton

-----------------------------------------------------------------------------
(* Functions defined step by step                                          *)

\* What holds of nothing and passes on holds up to any length.
LEMMA Upwards ==
  ASSUME NEW len \in Nat, NEW P, 0 \in P, \A n \in 1..len : n - 1 \in P => n \in P
  PROVE  \A n \in 0..len : n \in P
<1> DEFINE Bad == {n \in 0..len : n \notin P}
<1>1. Bad = {}
  <2> SUFFICES ASSUME Bad # {} PROVE FALSE
    OBVIOUS
  <2>1. PICK m \in Bad : \A k \in Bad : m <= k
    <3>1. Bad \subseteq Nat
      OBVIOUS
    <3> HIDE DEF Bad
    <3> QED BY <3>1, Least
  <2>2. m \in 1..len
    OBVIOUS
  <2>3. m - 1 \in 0..len /\ m - 1 \notin Bad
    <3> HIDE DEF Bad
    <3> QED BY <2>1, <2>2
  <2> QED BY <2>2, <2>3
<1> QED BY <1>1

Leads(f, S, a, next, len) ==
    /\ f \in [0..len -> S] /\ f[0] = a
    /\ \A n \in 1..len : f[n] = next[<<n, f[n - 1]>>]

\* Steps lead from a start to a state for each place, all of them in one set.
LEMMA Trail ==
  ASSUME NEW len \in Nat, NEW S, NEW a \in S, NEW next \in [(1..len) \X S -> S]
  PROVE  \E f : Leads(f, S, a, next, len)
<1> DEFINE P == {m \in 0..len : \E f : Leads(f, S, a, next, m)}
<1>1. 0 \in P
  <2>1. Leads([n \in 0..0 |-> a], S, a, next, 0)
    BY DEF Leads
  <2>2. 0 \in 0..len
    OBVIOUS
  <2> QED BY <2>1, <2>2
<1>2. ASSUME NEW m \in 1..len, m - 1 \in P PROVE m \in P
  <2>1. PICK f : Leads(f, S, a, next, m - 1)
    BY <1>2
  <2> DEFINE h == [n \in 0..m |-> IF n = m THEN next[<<m, f[m - 1]>>] ELSE f[n]]
  <2>2. f[m - 1] \in S /\ next[<<m, f[m - 1]>>] \in S
    BY <2>1 DEF Leads
  <2>3. h \in [0..m -> S] /\ h[0] = a
    <3>1. h \in [0..m -> S]
      BY <2>1, <2>2 DEF Leads
    <3>2. 0 \in 0..m /\ m # 0
      OBVIOUS
    <3>3. f[0] = a
      BY <2>1 DEF Leads
    <3>4. h[0] = a
      BY <3>2, <3>3
    <3> QED BY <3>1, <3>4
  <2>4. ASSUME NEW n \in 1..m PROVE h[n] = next[<<n, h[n - 1]>>]
    <3>1. CASE n = m
      BY <3>1
    <3>2. CASE n # m
      <4>1. n \in 1..m - 1 /\ h[n] = f[n] /\ h[n - 1] = f[n - 1]
        BY <3>2
      <4> QED BY <2>1, <4>1 DEF Leads
    <3> QED BY <3>1, <3>2
  <2> HIDE DEF h
  <2>5. Leads(h, S, a, next, m)
    BY <2>3, <2>4, Zenon DEF Leads
  <2>6. m \in 0..len
    OBVIOUS
  <2> QED BY <2>5, <2>6
<1> HIDE DEF P
<1>3. len \in P
  BY <1>1, <1>2, Upwards
<1> QED BY <1>3 DEF P

\* Two functions that start alike and step alike are alike.
StepAlike(f, g, len) == f[0] = g[0] /\ \A n \in 1..len : f[n - 1] = g[n - 1] => f[n] = g[n]
SameUpTo(f, g, len) == \A n \in 0..len : f[n] = g[n]

LEMMA Alike ==
  ASSUME NEW len \in Nat, NEW f, NEW g, StepAlike(f, g, len)
  PROVE  SameUpTo(f, g, len)
<1> DEFINE P == {n \in 0..len : f[n] = g[n]}
<1>1. 0 \in P /\ \A n \in 1..len : n - 1 \in P => n \in P
  BY DEF StepAlike
<1> HIDE DEF P
<1>2. \A n \in 0..len : n \in P
  BY <1>1, Upwards
<1> QED BY <1>2 DEF P, SameUpTo

-----------------------------------------------------------------------------
(* Chunking: lines and what they weigh                                     *)

Line == [at : Nat \X Nat, kind : {"text", "item", "fence", "blank"}]

\* f holds what each beginning of the lines weighs.
TokensUpTo(f, lines, len) ==
    /\ f \in [0..len -> Nat] /\ f[0] = 0 /\ f[len] = LinesTokens(lines)
    /\ \A n \in 1..len : f[n] = f[n - 1] + LineTokens[lines[n].kind]

LEMMA TokensTrail ==
  ASSUME NEW lines \in Seq(Line)
  PROVE  \E f : TokensUpTo(f, lines, Len(lines))
<1> DEFINE len == Len(lines)
           next == [x \in (1..len) \X Nat |-> x[2] + LineTokens[lines[x[1]].kind]]
           Along(g) == g = [n \in 0..len |-> IF n = 0 THEN 0 ELSE g[n - 1] + LineTokens[lines[n].kind]]
           G == CHOOSE g : Along(g)
<1>1. len \in Nat /\ \A n \in 1..len : LineTokens[lines[n].kind] \in Nat
  <2>1. len \in Nat /\ \A n \in 1..len : lines[n] \in Line
    OBVIOUS
  <2> HIDE DEF len
  <2> QED BY <2>1 DEF LineTokens, Line
<1>2. next \in [(1..len) \X Nat -> Nat]
  BY <1>1
<1>3. LinesTokens(lines) = G[len]
  BY Zenon DEF LinesTokens, Stepwise
<1> HIDE DEF len
<1>4. PICK f : Leads(f, Nat, 0, next, len)
  <2> HIDE DEF next
  <2> QED BY <1>1, <1>2, Trail
<1>5. \A n \in 1..len : f[n - 1] \in Nat /\ f[n] = f[n - 1] + LineTokens[lines[n].kind]
  <2> SUFFICES ASSUME NEW n \in 1..len
               PROVE  f[n - 1] \in Nat /\ f[n] = f[n - 1] + LineTokens[lines[n].kind]
    OBVIOUS
  <2>1. n - 1 \in 0..len /\ f[n - 1] \in Nat
    BY <1>1, <1>4 DEF Leads
  <2>2. <<n, f[n - 1]>> \in (1..len) \X Nat /\ f[n] = next[<<n, f[n - 1]>>]
    BY <1>4, <2>1 DEF Leads
  <2> QED BY <2>1, <2>2, Zenon
<1> HIDE DEF next
<1>6. Along(f)
  BY <1>1, <1>4, <1>5 DEF Leads
<1>7. Along(G)
  BY <1>6, Zenon
<1> HIDE DEF G
<1>8. \A n \in 0..len : G[n] = f[n]
  <2>1. G[0] = f[0]
    BY <1>4, <1>7, <1>1 DEF Leads
  <2>2. \A n \in 1..len : G[n - 1] = f[n - 1] => G[n] = f[n]
    BY <1>5, <1>7, <1>1
  <2>3. len \in Nat
    BY <1>1
  <2> HIDE DEF Along
  <2>4. StepAlike(G, f, len)
    BY <2>1, <2>2, Zenon DEF StepAlike
  <2>5. SameUpTo(G, f, len)
    BY <2>3, <2>4, Alike, Zenon
  <2> QED BY <2>5, Zenon DEF SameUpTo
<1>9. f[len] = LinesTokens(lines) /\ f \in [0..len -> Nat] /\ f[0] = 0
  BY <1>1, <1>3, <1>4, <1>8 DEF Leads
<1> QED BY <1>5, <1>9, Zenon DEF len, TokensUpTo

\* A sum goes on where another ended.
LEMMA SumsOn ==
  ASSUME NEW m \in Nat, NEW n \in Nat, NEW g \in [0..n -> Nat], NEW h \in [0..m + n -> Nat],
         NEW c \in [1..n -> Nat], g[0] = 0,
         \A k \in 1..n : g[k] = g[k - 1] + c[k] /\ h[m + k] = h[(m + k) - 1] + c[k]
  PROVE  h[m + n] = h[m] + g[n]
<1> DEFINE P == {k \in 0..n : h[m + k] = h[m] + g[k]}
<1>0. \A k \in 0..n : m + k \in 0..m + n
  OBVIOUS
<1>1. 0 \in P
  <2>1. m + 0 = m /\ h[m] \in Nat /\ h[m] + 0 = h[m]
    BY <1>0
  <2>2. h[m + 0] = h[m] + g[0]
    BY <2>1, Zenon
  <2> QED BY <2>2
<1>2. ASSUME NEW k \in 1..n, k - 1 \in P PROVE k \in P
  <2>1. h[m + (k - 1)] = h[m] + g[k - 1] /\ m + (k - 1) = (m + k) - 1
    BY <1>2
  <2>2. h[m] \in Nat /\ g[k - 1] \in Nat /\ c[k] \in Nat
    <3>1. m \in 0..m + n /\ k - 1 \in 0..n
      OBVIOUS
    <3> QED BY <3>1
  <2>3. g[k] = g[k - 1] + c[k] /\ h[m + k] = h[(m + k) - 1] + c[k]
    OBVIOUS
  <2>4. h[m + k] = h[m] + g[k]
    BY <2>1, <2>2, <2>3
  <2> QED BY <2>4
<1>3. \A k \in 0..n : k \in P
  <2> HIDE DEF P
  <2> QED BY <1>1, <1>2, Upwards
<1> QED BY <1>3

\* The lines of two pieces weigh what the pieces weigh together.
LEMMA TokensTogether ==
  ASSUME NEW s \in Seq(Line), NEW t \in Seq(Line)
  PROVE  LinesTokens(s \o t) = LinesTokens(s) + LinesTokens(t) /\ LinesTokens(s) \in Nat /\ s \o t \in Seq(Line)
<1> DEFINE m == Len(s)  n == Len(t)  u == s \o t
<1>1. /\ m \in Nat /\ n \in Nat /\ u \in Seq(Line) /\ Len(u) = m + n
      /\ \A k \in 1..m : u[k] = s[k]
      /\ \A k \in 1..n : u[m + k] = t[k]
  OBVIOUS
<1>2. PICK f : TokensUpTo(f, s, m)
  BY TokensTrail
<1>3. PICK g : TokensUpTo(g, t, n)
  BY TokensTrail
<1>4. PICK h : TokensUpTo(h, u, m + n)
  <2> HIDE DEF u
  <2> QED BY <1>1, TokensTrail
<1> HIDE DEF m, n, u
<1>5. h[m] = f[m]
  <2>1. ASSUME NEW k \in 1..m, h[k - 1] = f[k - 1] PROVE h[k] = f[k]
    <3>1. k \in 1..m + n /\ u[k] = s[k]
      BY <1>1
    <3>2. h[k] = h[k - 1] + LineTokens[u[k].kind] /\ f[k] = f[k - 1] + LineTokens[s[k].kind]
      BY <1>2, <1>4, <3>1 DEF TokensUpTo
    <3> QED BY <2>1, <3>1, <3>2, Zenon
  <2>2. h[0] = f[0]
    BY <1>2, <1>4 DEF TokensUpTo
  <2>3. \A k \in 1..m : h[k - 1] = f[k - 1] => h[k] = f[k]
    BY <2>1
  <2>4. m \in Nat
    BY <1>1
  <2> DEFINE P == {k \in 0..m : h[k] = f[k]}
  <2>5. 0 \in P /\ \A k \in 1..m : k - 1 \in P => k \in P
    BY <2>2, <2>3, <2>4
  <2>6. \A k \in 0..m : k \in P
    <3> HIDE DEF P
    <3> QED BY <2>4, <2>5, Upwards
  <2>7. m \in 0..m
    BY <2>4
  <2> QED BY <2>6, <2>7, Zenon
<1> DEFINE c == [k \in 1..n |-> LineTokens[t[k].kind]]
<1>6. c \in [1..n -> Nat]
  <2>1. \A k \in 1..n : t[k] \in Line
    BY DEF n
  <2> QED BY <2>1 DEF LineTokens, Line
<1>7. \A k \in 1..n : g[k] = g[k - 1] + c[k] /\ h[m + k] = h[(m + k) - 1] + c[k]
  <2> SUFFICES ASSUME NEW k \in 1..n PROVE g[k] = g[k - 1] + c[k] /\ h[m + k] = h[(m + k) - 1] + c[k]
    OBVIOUS
  <2>1. m + k \in 1..m + n
    BY <1>1
  <2>2. h[m + k] = h[(m + k) - 1] + LineTokens[u[m + k].kind] /\ u[m + k] = t[k]
    BY <1>1, <1>4, <2>1 DEF TokensUpTo
  <2> QED BY <1>3, <2>2 DEF TokensUpTo
<1> HIDE DEF c
<1>8. h[m + n] = h[m] + g[n]
  <2>1. h \in [0..m + n -> Nat]
    BY <1>1, <1>4 DEF TokensUpTo
  <2>2. g[0] = 0
    BY <1>3 DEF TokensUpTo
  <2>3. g \in [0..n -> Nat]
    BY <1>3 DEF TokensUpTo
  <2> QED BY <1>1, <1>6, <1>7, <2>1, <2>2, <2>3, SumsOn
<1> QED BY <1>1, <1>2, <1>3, <1>4, <1>5, <1>8 DEF TokensUpTo, u, m, n

-----------------------------------------------------------------------------
(* Chunking: sequences joined to one                                       *)

Regroups(T) == \A s, t, u \in Seq(T) : (s \o t) \o u = s \o (t \o u)

LEMMA Associate ==
  ASSUME NEW T
  PROVE  Regroups(T)
BY ConcatAssociative, SMTT(40) DEF Regroups

\* f holds what each beginning of ss joins to.
JoinsUpTo(f, ss, T, len) ==
    /\ f \in [0..len -> Seq(T)] /\ f[0] = <<>> /\ f[len] = FlattenSeq(ss)
    /\ \A n \in 1..len : f[n] = f[n - 1] \o ss[n]

LEMMA JoinTrail ==
  ASSUME NEW T, NEW ss \in Seq(Seq(T))
  PROVE  \E f : JoinsUpTo(f, ss, T, Len(ss))
<1> DEFINE len == Len(ss)
           next == [x \in (1..len) \X Seq(T) |-> x[2] \o ss[x[1]]]
           Along(g) == g = [n \in 1..len |-> IF n = 1 THEN ss[n] ELSE g[n - 1] \o ss[n]]
           G == CHOOSE g : Along(g)
<1>1. len \in Nat /\ \A n \in 1..len : ss[n] \in Seq(T)
  OBVIOUS
<1>2. next \in [(1..len) \X Seq(T) -> Seq(T)]
  BY <1>1
<1>3. FlattenSeq(ss) = IF len = 0 THEN ss ELSE G[len]
  BY Zenon DEF FlattenSeq
<1>0. len = 0 => ss = <<>>
  OBVIOUS
<1> HIDE DEF len
<1>4. PICK f : Leads(f, Seq(T), <<>>, next, len)
  <2> HIDE DEF next
  <2>1. <<>> \in Seq(T)
    OBVIOUS
  <2> QED BY <1>1, <1>2, <2>1, Trail
<1>5. \A n \in 1..len : f[n - 1] \in Seq(T) /\ f[n] = f[n - 1] \o ss[n]
  <2> SUFFICES ASSUME NEW n \in 1..len
               PROVE  f[n - 1] \in Seq(T) /\ f[n] = f[n - 1] \o ss[n]
    OBVIOUS
  <2>1. n - 1 \in 0..len /\ f[n - 1] \in Seq(T)
    BY <1>1, <1>4 DEF Leads
  <2>2. <<n, f[n - 1]>> \in (1..len) \X Seq(T) /\ f[n] = next[<<n, f[n - 1]>>]
    BY <1>4, <2>1 DEF Leads
  <2> QED BY <2>1, <2>2, Zenon
<1> HIDE DEF next
<1>6. f \in [0..len -> Seq(T)] /\ f[0] = <<>>
  BY <1>4 DEF Leads
<1>7. len # 0 => 1 \in 1..len /\ f[1] = ss[1]
  <2> SUFFICES ASSUME len # 0 PROVE 1 \in 1..len /\ f[1] = ss[1]
    OBVIOUS
  <2>1. 1 \in 1..len /\ 1 - 1 = 0
    BY <1>1
  <2>2. f[1] = f[0] \o ss[1] /\ ss[1] \in Seq(T)
    BY <1>1, <1>5, <2>1
  <2> QED BY <1>6, <2>1, <2>2
<1>8. len # 0 => f[len] = G[len]
  <2> SUFFICES ASSUME len # 0 PROVE f[len] = G[len]
    OBVIOUS
  <2> DEFINE h == [n \in 1..len |-> f[n]]
  <2>1. ASSUME NEW n \in 1..len PROVE h[n] = IF n = 1 THEN ss[n] ELSE h[n - 1] \o ss[n]
    <3>1. CASE n = 1
      BY <1>7, <3>1
    <3>2. CASE n # 1
      <4>1. n - 1 \in 1..len
        BY <1>1, <3>2
      <4>2. h[n] = f[n] /\ h[n - 1] = f[n - 1]
        BY <4>1
      <4> QED BY <1>5, <3>2, <4>2
    <3> QED BY <3>1, <3>2
  <2>2. h = [n \in 1..len |-> h[n]]
    OBVIOUS
  <2>3. h[1] = ss[1]
    BY <1>7
  <2>4. Along(h)
    <3> HIDE DEF h
    <3> QED BY <2>1, <2>2, Zenon
  <2>5. Along(G)
    BY <2>4, Zenon
  <2> HIDE DEF G
  <2>6. \A n \in 1..len : G[n] = IF n = 1 THEN ss[n] ELSE G[n - 1] \o ss[n]
    BY <2>5, Zenon
  <2> DEFINE P == {n \in 0..len : n # 0 => G[n] = f[n]}
  <2>7. 0 \in P
    BY <1>1
  <2>8. ASSUME NEW n \in 1..len, n - 1 \in P PROVE n \in P
    <3>1. CASE n = 1
      BY <1>1, <1>7, <2>6, <3>1
    <3>2. CASE n # 1
      <4>1. n - 1 # 0 /\ G[n - 1] = f[n - 1]
        BY <1>1, <2>8, <3>2
      <4>2. G[n] = G[n - 1] \o ss[n] /\ f[n] = f[n - 1] \o ss[n]
        BY <1>5, <2>6, <3>2
      <4>3. n \in 0..len
        BY <1>1
      <4> QED BY <4>1, <4>2, <4>3
    <3> QED BY <3>1, <3>2
  <2>9. \A n \in 0..len : n \in P
    <3> HIDE DEF P
    <3> QED BY <1>1, <2>7, <2>8, Upwards
  <2> QED BY <1>1, <2>9
<1>9. f[len] = FlattenSeq(ss)
  <2>1. CASE len = 0
    BY <1>0, <1>3, <1>6, <2>1
  <2>2. CASE len # 0
    BY <1>3, <1>8, <2>2, Zenon
  <2> QED BY <2>1, <2>2
<1> QED BY <1>5, <1>6, <1>9, Zenon DEF JoinsUpTo, len

LEMMA JoinIs ==
  ASSUME NEW T, NEW ss \in Seq(Seq(T))
  PROVE  FlattenSeq(ss) \in Seq(T)
<1>1. PICK f : JoinsUpTo(f, ss, T, Len(ss))
  BY JoinTrail
<1>2. Len(ss) \in 0..Len(ss)
  OBVIOUS
<1> QED BY <1>1, <1>2 DEF JoinsUpTo

LEMMA JoinOfNone == FlattenSeq(<<>>) = <<>>
BY DEF FlattenSeq

LEMMA JoinOfOne ==
  ASSUME NEW T, NEW s \in Seq(T)
  PROVE  FlattenSeq(<<s>>) = s
<1>1. <<s>> \in Seq(Seq(T)) /\ Len(<<s>>) = 1
  OBVIOUS
<1>2. PICK f : JoinsUpTo(f, <<s>>, T, 1)
  BY <1>1, JoinTrail
<1>3. f[1] = f[1 - 1] \o <<s>>[1] /\ f[0] = <<>> /\ f[1] = FlattenSeq(<<s>>)
  <2>1. 1 \in 1..1
    OBVIOUS
  <2> QED BY <1>2, <2>1, Zenon DEF JoinsUpTo
<1> QED BY <1>3

\* Two sequences joined one after the other.
LEMMA JoinsTogether ==
  ASSUME NEW T, NEW a \in Seq(Seq(T)), NEW b \in Seq(Seq(T))
  PROVE  FlattenSeq(a \o b) = FlattenSeq(a) \o FlattenSeq(b)
<1> DEFINE m == Len(a)  n == Len(b)  u == a \o b
<1>1. /\ m \in Nat /\ n \in Nat /\ u \in Seq(Seq(T)) /\ Len(u) = m + n
      /\ \A k \in 1..m : u[k] = a[k]
      /\ \A k \in 1..n : u[m + k] = b[k] /\ b[k] \in Seq(T)
  OBVIOUS
<1>2. PICK f : JoinsUpTo(f, a, T, m)
  BY JoinTrail
<1>3. PICK g : JoinsUpTo(g, b, T, n)
  BY JoinTrail
<1>4. PICK h : JoinsUpTo(h, u, T, m + n)
  <2> HIDE DEF u
  <2> QED BY <1>1, JoinTrail
<1> HIDE DEF m, n, u
<1>5. h[m] = f[m]
  <2>1. ASSUME NEW k \in 1..m, h[k - 1] = f[k - 1] PROVE h[k] = f[k]
    <3>1. k \in 1..m + n /\ u[k] = a[k]
      BY <1>1
    <3>2. h[k] = h[k - 1] \o u[k] /\ f[k] = f[k - 1] \o a[k]
      BY <1>2, <1>4, <3>1 DEF JoinsUpTo
    <3> QED BY <2>1, <3>1, <3>2, Zenon
  <2>2. h[0] = f[0]
    BY <1>2, <1>4 DEF JoinsUpTo
  <2> DEFINE P == {k \in 0..m : h[k] = f[k]}
  <2>3. 0 \in P /\ \A k \in 1..m : k - 1 \in P => k \in P
    BY <1>1, <2>1, <2>2
  <2>4. \A k \in 0..m : k \in P
    <3> HIDE DEF P
    <3> QED BY <1>1, <2>3, Upwards
  <2>5. m \in 0..m
    BY <1>1
  <2> QED BY <2>4, <2>5, Zenon
<1>6. h[m + n] = f[m] \o g[n]
  <2> DEFINE P == {k \in 0..n : h[m + k] = f[m] \o g[k]}
  <2>0. f[m] \in Seq(T) /\ g[0] = <<>> /\ \A k \in 0..n : g[k] \in Seq(T)
    BY <1>1, <1>2, <1>3 DEF JoinsUpTo
  <2>1. 0 \in P
    <3>1. m + 0 = m /\ f[m] \o g[0] = f[m]
      BY <1>1, <2>0
    <3>2. h[m + 0] = f[m] \o g[0]
      BY <1>5, <3>1, Zenon
    <3>3. 0 \in 0..n
      BY <1>1
    <3> QED BY <3>2, <3>3, Zenon
  <2>2. ASSUME NEW k \in 1..n, k - 1 \in P PROVE k \in P
    <3>1. m + k \in 1..m + n /\ u[m + k] = b[k] /\ b[k] \in Seq(T) /\ (m + k) - 1 = m + (k - 1)
      BY <1>1
    <3>2. h[m + k] = h[(m + k) - 1] \o u[m + k] /\ g[k] = g[k - 1] \o b[k]
      BY <1>3, <1>4, <3>1 DEF JoinsUpTo
    <3>3. h[m + (k - 1)] = f[m] \o g[k - 1] /\ k - 1 \in 0..n
      BY <2>2
    <3>4. h[m + k] = (f[m] \o g[k - 1]) \o b[k]
      BY <3>1, <3>2, <3>3, Zenon
    <3>5. (f[m] \o g[k - 1]) \o b[k] = f[m] \o (g[k - 1] \o b[k])
      <4> DEFINE p == f[m]  q == g[k - 1]  r == b[k]
      <4>1. p \in Seq(T) /\ q \in Seq(T) /\ r \in Seq(T)
        BY <2>0, <3>1, <3>3
      <4> HIDE DEF p, q, r
      <4>2. Regroups(T)
        BY Associate, Zenon
      <4>3. (p \o q) \o r = p \o (q \o r)
        BY <4>1, <4>2, Zenon DEF Regroups
      <4> QED BY <4>3 DEF p, q, r
    <3>6. h[m + k] = f[m] \o g[k] /\ k \in 0..n
      BY <1>1, <3>2, <3>4, <3>5
    <3> QED BY <3>6
  <2>3. \A k \in 0..n : k \in P
    <3> HIDE DEF P
    <3> QED BY <1>1, <2>1, <2>2, Upwards
  <2>4. n \in 0..n
    BY <1>1
  <2> QED BY <2>3, <2>4, Zenon
<1> QED BY <1>2, <1>3, <1>4, <1>5, <1>6, Zenon DEF JoinsUpTo, u

-----------------------------------------------------------------------------
(* Chunking: lines kept and lines of all parts                             *)

Mapped(g, a) == [i \in DOMAIN a |-> g[a[i]]]

\* m is a, each element replaced by what g makes of it.
Maps(m, g, a, B) == m \in Seq(B) /\ Len(m) = Len(a) /\ \A i \in 1..Len(a) : m[i] = g[a[i]]

LEMMA MappedIs ==
  ASSUME NEW A, NEW B, NEW g \in [A -> B], NEW a \in Seq(A)
  PROVE  Maps(Mapped(g, a), g, a, B) /\ Mapped(g, a) \in Seq(B)
<1>1. Len(a) \in Nat /\ DOMAIN a = 1..Len(a) /\ \A i \in 1..Len(a) : g[a[i]] \in B
  OBVIOUS
<1>2. Mapped(g, a) = [i \in 1..Len(a) |-> g[a[i]]]
  BY <1>1 DEF Mapped
<1>3. Mapped(g, a) \in [1..Len(a) -> B]
  BY <1>1, <1>2
<1> QED BY <1>1, <1>2, <1>3 DEF Maps

\* z goes on as y where x ended.
GoesOn(z, x, y) ==
    /\ Len(z) = Len(x) + Len(y)
    /\ \A i \in 1..Len(x) : z[i] = x[i]
    /\ \A i \in 1..Len(y) : z[Len(x) + i] = y[i]

LEMMA JoinedIs ==
  ASSUME NEW B, NEW x \in Seq(B), NEW y \in Seq(B), NEW z \in Seq(B), GoesOn(z, x, y)
  PROVE  z = x \o y
<1>1. Len(x) \in Nat /\ Len(y) \in Nat /\ x \o y \in Seq(B) /\ Len(x \o y) = Len(x) + Len(y)
  OBVIOUS
<1>2. ASSUME NEW i \in 1..Len(z) PROVE z[i] = (x \o y)[i]
  <2>1. CASE i <= Len(x)
    <3>1. i \in 1..Len(x) /\ (x \o y)[i] = x[i]
      BY <1>1, <2>1 DEF GoesOn
    <3> QED BY <3>1 DEF GoesOn
  <2>2. CASE ~(i <= Len(x))
    <3>1. i - Len(x) \in 1..Len(y) /\ (x \o y)[i] = y[i - Len(x)] /\ Len(x) + (i - Len(x)) = i
      BY <1>1, <2>2 DEF GoesOn
    <3>2. z[Len(x) + (i - Len(x))] = y[i - Len(x)]
      BY <3>1 DEF GoesOn
    <3> QED BY <3>1, <3>2
  <2> QED BY <2>1, <2>2
<1>3. Len(z) = Len(x \o y)
  BY <1>1 DEF GoesOn
<1> QED BY <1>1, <1>2, <1>3, SeqEqual

LEMMA GoesOnIs ==
  ASSUME NEW B, NEW x \in Seq(B), NEW y \in Seq(B)
  PROVE  x \o y \in Seq(B) /\ GoesOn(x \o y, x, y)
BY DEF GoesOn

LEMMA MappedGoesOn ==
  ASSUME NEW A, NEW B, NEW g \in [A -> B], NEW a \in Seq(A), NEW b \in Seq(A), NEW u \in Seq(A), GoesOn(u, a, b)
  PROVE  GoesOn(Mapped(g, u), Mapped(g, a), Mapped(g, b))
<1>1. /\ Len(u) = Len(a) + Len(b) /\ Len(a) \in Nat /\ Len(b) \in Nat
      /\ \A i \in 1..Len(a) : i \in 1..Len(u) /\ u[i] = a[i]
      /\ \A i \in 1..Len(b) : Len(a) + i \in 1..Len(u) /\ u[Len(a) + i] = b[i]
  BY DEF GoesOn
<1> DEFINE x == Mapped(g, a)  y == Mapped(g, b)  z == Mapped(g, u)
<1>2. Maps(x, g, a, B) /\ Maps(y, g, b, B) /\ Maps(z, g, u, B)
  BY MappedIs
<1> HIDE DEF x, y, z
<1>3. x \in Seq(B) /\ y \in Seq(B) /\ z \in Seq(B) /\ Len(x) = Len(a) /\ Len(y) = Len(b) /\ Len(z) = Len(u)
  BY <1>2 DEF Maps
<1>4. ASSUME NEW i \in 1..Len(x) PROVE z[i] = x[i]
  BY <1>1, <1>2, <1>3 DEF Maps
<1>5. ASSUME NEW i \in 1..Len(y) PROVE z[Len(x) + i] = y[i]
  BY <1>1, <1>2, <1>3 DEF Maps
<1>6. Len(z) = Len(x) + Len(y)
  BY <1>1, <1>3
<1>7. GoesOn(z, x, y)
  BY <1>4, <1>5, <1>6 DEF GoesOn
<1> QED BY <1>7 DEF x, y, z

LEMMA MappedTogether ==
  ASSUME NEW A, NEW B, NEW g \in [A -> B], NEW a \in Seq(A), NEW b \in Seq(A)
  PROVE  FlattenSeq(Mapped(g, a \o b)) = FlattenSeq(Mapped(g, a) \o Mapped(g, b))
<1> DEFINE u == a \o b
<1>1. u \in Seq(A) /\ GoesOn(u, a, b)
  BY GoesOnIs
<1> HIDE DEF u
<1> DEFINE x == Mapped(g, a)  y == Mapped(g, b)  z == Mapped(g, u)
<1>2. GoesOn(z, x, y)
  BY <1>1, MappedGoesOn
<1>3. x \in Seq(B) /\ y \in Seq(B) /\ z \in Seq(B)
  BY <1>1, MappedIs
<1> HIDE DEF x, y, z
<1>4. z = x \o y
  BY <1>2, <1>3, JoinedIs
<1> QED BY <1>4 DEF u, x, y, z

\* What a sequence is joined to, each element replaced by a sequence.
Spread(g, a) == FlattenSeq(Mapped(g, a))

Spreads(g, A, T) ==
    \A a, b \in Seq(A) : Spread(g, a \o b) = Spread(g, a) \o Spread(g, b) /\ Spread(g, a) \in Seq(T)

LEMMA SpreadTogether ==
  ASSUME NEW A, NEW T, NEW g \in [A -> Seq(T)]
  PROVE  Spreads(g, A, T)
<1> SUFFICES ASSUME NEW a \in Seq(A), NEW b \in Seq(A)
             PROVE  Spread(g, a \o b) = Spread(g, a) \o Spread(g, b) /\ Spread(g, a) \in Seq(T)
  BY DEF Spreads
<1> DEFINE x == Mapped(g, a)  y == Mapped(g, b)
<1>1. Spread(g, a \o b) = FlattenSeq(x \o y)
  BY MappedTogether DEF Spread
<1>2. x \in Seq(Seq(T)) /\ y \in Seq(Seq(T))
  BY MappedIs
<1>3. Spread(g, a) = FlattenSeq(x) /\ Spread(g, b) = FlattenSeq(y)
  BY DEF Spread
<1> HIDE DEF x, y
<1> QED BY <1>1, <1>2, <1>3, JoinsTogether, JoinIs

KeptOf(kind) == [line \in Line |-> IF line.kind = kind THEN <<>> ELSE <<line>>]

LEMMA WithoutMapped ==
  ASSUME NEW lines \in Seq(Line), NEW kind
  PROVE  KeptOf(kind) \in [Line -> Seq(Line)] /\ Without(kind, lines) = Spread(KeptOf(kind), lines)
<1>1. \A i \in DOMAIN lines : lines[i] \in Line
  OBVIOUS
<1>2. Mapped(KeptOf(kind), lines) = [i \in DOMAIN lines |-> IF lines[i].kind = kind THEN <<>> ELSE <<lines[i]>>]
  BY <1>1 DEF Mapped, KeptOf
<1>3. \A line \in Line : <<>> \in Seq(Line) /\ <<line>> \in Seq(Line)
  OBVIOUS
<1>4. KeptOf(kind) \in [Line -> Seq(Line)]
  BY <1>3 DEF KeptOf
<1> QED BY <1>2, <1>4 DEF Without, Spread

LEMMA WithoutIs ==
  ASSUME NEW lines \in Seq(Line), NEW kind
  PROVE  Without(kind, lines) \in Seq(Line)
<1>1. Spreads(KeptOf(kind), Line, Line)
  BY WithoutMapped, SpreadTogether
<1> QED BY <1>1, WithoutMapped DEF Spreads

LEMMA KeptTogether ==
  ASSUME NEW s \in Seq(Line), NEW t \in Seq(Line)
  PROVE  Kept(s \o t) = Kept(s) \o Kept(t) /\ Kept(s) \in Seq(Line)
<1> DEFINE g == KeptOf("blank")
<1>1. g \in [Line -> Seq(Line)] /\ \A u \in Seq(Line) : Kept(u) = Spread(g, u)
  BY WithoutMapped DEF Kept
<1> HIDE DEF g
<1>2. s \o t \in Seq(Line)
  OBVIOUS
<1>3. Spreads(g, Line, Line)
  BY <1>1, SpreadTogether
<1>4. Spread(g, s \o t) = Spread(g, s) \o Spread(g, t) /\ Spread(g, s) \in Seq(Line)
  BY <1>3 DEF Spreads
<1>5. Kept(s) = Spread(g, s) /\ Kept(t) = Spread(g, t) /\ Kept(s \o t) = Spread(g, s \o t)
  BY <1>1, <1>2
<1> QED BY <1>4, <1>5, Zenon

LEMMA KeptNone == Kept(<<>>) = <<>>
BY JoinOfNone DEF Kept, Without

LEMMA KeptOne ==
  ASSUME NEW line \in Line
  PROVE  Kept(<<line>>) = IF line.kind = "blank" THEN <<>> ELSE <<line>>
<1>1. <<line>> \in Seq(Line) /\ <<>> \in Seq(Line)
  OBVIOUS
<1>2. [i \in DOMAIN <<line>> |-> IF <<line>>[i].kind = "blank" THEN <<>> ELSE <<<<line>>[i]>>]
        = <<IF line.kind = "blank" THEN <<>> ELSE <<line>>>>
  OBVIOUS
<1>3. (IF line.kind = "blank" THEN <<>> ELSE <<line>>) \in Seq(Line)
  BY <1>1
<1> QED BY <1>2, <1>3, JoinOfOne DEF Kept, Without

\* A set of parts of a document: each has lines.
Parts(R) == \A r \in R : r.lines \in Seq(Line)

LEMMA AllTogether ==
  ASSUME NEW R, Parts(R), NEW a \in Seq(R), NEW b \in Seq(R)
  PROVE  AllLines(a \o b) = AllLines(a) \o AllLines(b) /\ AllLines(a) \in Seq(Line)
<1> DEFINE g == [r \in R |-> r.lines]
<1>1. g \in [R -> Seq(Line)]
  BY DEF Parts
<1>2. \A u \in Seq(R) : AllLines(u) = Spread(g, u)
  <2> SUFFICES ASSUME NEW u \in Seq(R) PROVE AllLines(u) = Spread(g, u)
    OBVIOUS
  <2>1. \A i \in DOMAIN u : u[i] \in R
    OBVIOUS
  <2>2. Mapped(g, u) = [i \in DOMAIN u |-> u[i].lines]
    BY <2>1 DEF Mapped
  <2> QED BY <2>2 DEF AllLines, Spread
<1> HIDE DEF g
<1>3. a \o b \in Seq(R)
  OBVIOUS
<1>4. Spreads(g, R, Line)
  BY <1>1, SpreadTogether
<1> QED BY <1>2, <1>3, <1>4 DEF Spreads

LEMMA AllOne ==
  ASSUME NEW r, r.lines \in Seq(Line)
  PROVE  AllLines(<<r>>) = r.lines
<1>1. [i \in DOMAIN <<r>> |-> <<r>>[i].lines] = <<r.lines>>
  OBVIOUS
<1> QED BY <1>1, JoinOfOne DEF AllLines

LEMMA AllNone == AllLines(<<>>) = <<>>
BY JoinOfNone DEF AllLines

LEMMA JoinOfMore ==
  ASSUME NEW T, NEW ss \in Seq(Seq(T)), NEW s \in Seq(T)
  PROVE  FlattenSeq(Append(ss, s)) = FlattenSeq(ss) \o s
<1>1. Append(ss, s) = ss \o <<s>> /\ <<s>> \in Seq(Seq(T))
  OBVIOUS
<1>2. FlattenSeq(ss \o <<s>>) = FlattenSeq(ss) \o FlattenSeq(<<s>>)
  BY <1>1, JoinsTogether
<1> QED BY <1>1, <1>2, JoinOfOne

-----------------------------------------------------------------------------
(* Chunking: the blocks of a section                                       *)

Filled == Seq(Line) \ {<<>>}
BlocksState == [fence : BOOLEAN, blocks : Seq(Filled), buf : Seq(Line)]

LEMMA BlocksStateIs ==
  ASSUME NEW acc \in BlocksState, NEW line \in Line
  PROVE  BlocksLine(acc, line) \in BlocksState
<1> DEFINE fence == acc.fence # (line.kind = "fence")
           flush == ~fence /\ line.kind \in {"blank", "item"} /\ acc.buf # <<>>
           buf == IF flush THEN <<>> ELSE acc.buf
           blocks == IF flush THEN Append(acc.blocks, acc.buf) ELSE acc.blocks
           more == IF line.kind # "blank" \/ fence THEN Append(buf, line) ELSE buf
<1>1. acc.buf \in Seq(Line) /\ acc.blocks \in Seq(Filled)
  BY DEF BlocksState
<1>2. flush => acc.buf \in Filled
  BY <1>1 DEF Filled
<1>3. blocks \in Seq(Filled)
  <2>1. CASE flush
    <3>1. Append(acc.blocks, acc.buf) \in Seq(Filled)
      BY <1>1, <1>2, <2>1, AppendProperties
    <3> QED BY <2>1, <3>1, Zenon
  <2>2. CASE ~flush
    BY <1>1, <2>2, Zenon
  <2> QED BY <2>1, <2>2
<1>4. <<>> \in Seq(Line) /\ buf \in Seq(Line)
  BY <1>1
<1>5. more \in Seq(Line)
  <2> HIDE DEF buf
  <2>1. Append(buf, line) \in Seq(Line)
    BY <1>4, AppendProperties
  <2> QED BY <1>4, <2>1
<1>6. fence \in BOOLEAN
  OBVIOUS
<1>7. BlocksLine(acc, line) = [fence |-> fence, blocks |-> blocks, buf |-> more]
  BY Zenon DEF BlocksLine
<1> HIDE DEF fence, blocks, more
<1> QED BY <1>3, <1>5, <1>6, <1>7 DEF BlocksState

\* Nothing is lost by one line, and the line itself not unless it is blank.
LEMMA BlocksLineKeeps ==
  ASSUME NEW acc \in BlocksState, NEW line \in Line, NEW then, then = BlocksLine(acc, line)
  PROVE  Kept(FlattenSeq(then.blocks)) \o Kept(then.buf)
           = (Kept(FlattenSeq(acc.blocks)) \o Kept(acc.buf)) \o Kept(<<line>>)
<1> DEFINE fence == acc.fence # (line.kind = "fence")
           flush == ~fence /\ line.kind \in {"blank", "item"} /\ acc.buf # <<>>
           buf == IF flush THEN <<>> ELSE acc.buf
           blocks == IF flush THEN Append(acc.blocks, acc.buf) ELSE acc.blocks
           more == IF line.kind # "blank" \/ fence THEN Append(buf, line) ELSE buf
           flat == FlattenSeq(acc.blocks)
<1>1. acc.buf \in Seq(Line) /\ acc.blocks \in Seq(Seq(Line)) /\ flat \in Seq(Line)
  <2>1. acc.buf \in Seq(Line) /\ acc.blocks \in Seq(Seq(Line))
    BY DEF BlocksState, Filled
  <2> QED BY <2>1, JoinIs
<1>2. then.blocks = blocks /\ then.buf = more
  BY Zenon DEF BlocksLine
<1>3. Kept(flat) \in Seq(Line) /\ Kept(acc.buf) \in Seq(Line) /\ Kept(<<line>>) \in Seq(Line) /\ <<line>> \in Seq(Line)
  <2>1. <<line>> \in Seq(Line)
    OBVIOUS
  <2> HIDE DEF flat
  <2> QED BY <1>1, <2>1, KeptTogether
<1>4. Kept(FlattenSeq(blocks)) \o Kept(buf) = Kept(flat) \o Kept(acc.buf) /\ buf \in Seq(Line)
  <2>1. CASE flush
    <3>1. FlattenSeq(blocks) = flat \o acc.buf
      BY <1>1, <2>1, JoinOfMore
    <3>2. Kept(flat \o acc.buf) = Kept(flat) \o Kept(acc.buf)
      <4> HIDE DEF flat
      <4> QED BY <1>1, KeptTogether
    <3>3. Kept(buf) = <<>> /\ buf \in Seq(Line)
      BY <2>1, KeptNone
    <3>4. (Kept(flat) \o Kept(acc.buf)) \o <<>> = Kept(flat) \o Kept(acc.buf)
      BY <1>3
    <3> QED BY <3>1, <3>2, <3>3, <3>4
  <2>2. CASE ~flush
    BY <1>1, <2>2, Zenon
  <2> QED BY <2>1, <2>2
<1>5. Kept(more) = Kept(buf) \o Kept(<<line>>) /\ Kept(buf) \in Seq(Line)
  <2> HIDE DEF buf
  <2>1. Kept(buf) \in Seq(Line)
    BY <1>4, KeptTogether
  <2>2. CASE line.kind # "blank" \/ fence
    <3>1. more = buf \o <<line>>
      BY <1>4, <2>2
    <3>2. Kept(buf \o <<line>>) = Kept(buf) \o Kept(<<line>>)
      BY <1>3, <1>4, KeptTogether
    <3> QED BY <2>1, <3>1, <3>2, Zenon
  <2>3. CASE ~(line.kind # "blank" \/ fence)
    <3>1. Kept(<<line>>) = <<>> /\ more = buf
      BY <2>3, KeptOne
    <3> QED BY <2>1, <3>1
  <2> QED BY <2>2, <2>3
<1>6. Kept(FlattenSeq(blocks)) \in Seq(Line)
  <2>1. blocks \in Seq(Seq(Line))
    BY <1>1
  <2> HIDE DEF blocks
  <2>2. FlattenSeq(blocks) \in Seq(Line)
    BY <2>1, JoinIs
  <2> QED BY <2>2, KeptTogether
<1> DEFINE a == Kept(FlattenSeq(blocks))  b == Kept(buf)  c == Kept(<<line>>)
<1>7. a \in Seq(Line) /\ b \in Seq(Line) /\ c \in Seq(Line)
  <2>1. a \in Seq(Line)
    BY <1>6, Zenon DEF a
  <2>2. b \in Seq(Line)
    BY <1>5, Zenon DEF b
  <2>3. c \in Seq(Line)
    BY <1>3, Zenon DEF c
  <2> QED BY <2>1, <2>2, <2>3, Zenon
<1>8. Kept(FlattenSeq(then.blocks)) \o Kept(then.buf) = a \o (b \o c)
  BY <1>2, <1>5
<1>9. (a \o b) \o c = (Kept(FlattenSeq(acc.blocks)) \o Kept(acc.buf)) \o Kept(<<line>>)
  BY <1>4
<1> HIDE DEF a, b, c
<1>10. (a \o b) \o c = a \o (b \o c)
  <2>1. Regroups(Line)
    BY Associate, Zenon
  <2> QED BY <1>7, <2>1, Zenon DEF Regroups
<1> QED BY <1>8, <1>9, <1>10

NoBlocks == [fence |-> FALSE, blocks |-> <<>>, buf |-> <<>>]
EndBlocks(end) == IF end.buf # <<>> THEN Append(end.blocks, end.buf) ELSE end.blocks

\* f holds what is known after each line.
BlocksUpTo(f, lines, len) ==
    /\ f \in [0..len -> BlocksState] /\ f[0] = NoBlocks /\ TextBlocks(lines) = EndBlocks(f[len])
    /\ \A n \in 1..len : f[n] = BlocksLine(f[n - 1], lines[n])

LEMMA BlocksTrail ==
  ASSUME NEW lines \in Seq(Line)
  PROVE  \E f : BlocksUpTo(f, lines, Len(lines))
<1> DEFINE len == Len(lines)
           next == [x \in (1..len) \X BlocksState |-> BlocksLine(x[2], lines[x[1]])]
           Along(g) == g = [n \in 0..len |-> IF n = 0 THEN [fence |-> FALSE, blocks |-> <<>>, buf |-> <<>>]
                                            ELSE BlocksLine(g[n - 1], lines[n])]
           G == CHOOSE g : Along(g)
<1>1. len \in Nat /\ \A n \in 1..len : lines[n] \in Line
  OBVIOUS
<1>2. next \in [(1..len) \X BlocksState -> BlocksState]
  BY <1>1, BlocksStateIs
<1>3. TextBlocks(lines) = EndBlocks(G[len])
  BY Zenon DEF TextBlocks, Stepwise, EndBlocks
<1> HIDE DEF len
<1>0. NoBlocks \in BlocksState
  BY DEF NoBlocks, BlocksState
<1>4. PICK f : Leads(f, BlocksState, NoBlocks, next, len)
  <2> HIDE DEF next
  <2> QED BY <1>0, <1>1, <1>2, Trail
<1>5. \A n \in 1..len : f[n] = BlocksLine(f[n - 1], lines[n])
  <2> SUFFICES ASSUME NEW n \in 1..len
               PROVE  f[n] = BlocksLine(f[n - 1], lines[n])
    OBVIOUS
  <2>1. n - 1 \in 0..len /\ f[n - 1] \in BlocksState
    BY <1>1, <1>4 DEF Leads
  <2>2. <<n, f[n - 1]>> \in (1..len) \X BlocksState /\ f[n] = next[<<n, f[n - 1]>>]
    BY <1>4, <2>1 DEF Leads
  <2> QED BY <2>1, <2>2, Zenon
<1> HIDE DEF next
<1>6. Along(f)
  BY <1>1, <1>4, <1>5 DEF Leads, NoBlocks
<1>7. Along(G)
  BY <1>6, Zenon
<1> HIDE DEF G
<1>8. \A n \in 0..len : G[n] = f[n]
  <2>1. G[0] = f[0]
    BY <1>4, <1>7, <1>1 DEF Leads, NoBlocks
  <2>2. \A n \in 1..len : G[n - 1] = f[n - 1] => G[n] = f[n]
    <3> SUFFICES ASSUME NEW n \in 1..len, G[n - 1] = f[n - 1] PROVE G[n] = f[n]
      OBVIOUS
    <3>1. n \in 0..len /\ n # 0
      BY <1>1
    <3>2. G[n] = BlocksLine(G[n - 1], lines[n])
      BY <1>7, <3>1, Zenon
    <3> QED BY <1>5, <3>2, Zenon
  <2>3. len \in Nat
    BY <1>1
  <2> HIDE DEF Along
  <2>4. StepAlike(G, f, len)
    BY <2>1, <2>2, Zenon DEF StepAlike
  <2>5. SameUpTo(G, f, len)
    BY <2>3, <2>4, Alike, Zenon
  <2> QED BY <2>5, Zenon DEF SameUpTo
<1>9. G[len] = f[len]
  BY <1>1, <1>8
<1>10. f \in [0..len -> BlocksState] /\ f[0] = NoBlocks
  BY <1>4 DEF Leads
<1> QED BY <1>3, <1>5, <1>9, <1>10, Zenon DEF len, BlocksUpTo

\* The blocks hold the lines of the section.
LEMMA BlocksKeep ==
  ASSUME NEW lines \in Seq(Line)
  PROVE  TextBlocks(lines) \in Seq(Filled) /\ Kept(FlattenSeq(TextBlocks(lines))) = Kept(lines)
<1> DEFINE len == Len(lines)  g == KeptOf("blank")
<1>1. len \in Nat /\ \A n \in 1..len : lines[n] \in Line
  OBVIOUS
<1>2. PICK f : BlocksUpTo(f, lines, len)
  BY BlocksTrail
<1>3. g \in [Line -> Seq(Line)] /\ Kept(lines) = FlattenSeq(Mapped(g, lines))
  BY WithoutMapped DEF Kept, Spread
<1>4. Mapped(g, lines) \in Seq(Seq(Line)) /\ Maps(Mapped(g, lines), g, lines, Seq(Line))
  <2> HIDE DEF g
  <2> QED BY <1>3, MappedIs
<1> DEFINE ks == Mapped(g, lines)
<1>5. Len(ks) = len /\ \A n \in 1..len : ks[n] = Kept(<<lines[n]>>)
  <2>1. \A n \in 1..len : ks[n] = g[lines[n]]
    BY <1>4 DEF Maps
  <2>2. \A line \in Line : g[line] = Kept(<<line>>)
    BY KeptOne DEF KeptOf
  <2>3. Len(ks) = len
    BY <1>4 DEF Maps
  <2> HIDE DEF ks, g
  <2> QED BY <1>1, <2>1, <2>2, <2>3
<1> HIDE DEF ks, g
<1>6. PICK j : JoinsUpTo(j, ks, Line, len)
  <2>1. ks \in Seq(Seq(Line))
    BY <1>4 DEF ks
  <2> QED BY <1>5, <2>1, JoinTrail
<1> HIDE DEF len
<1> DEFINE K(s) == Kept(FlattenSeq(s.blocks)) \o Kept(s.buf)
<1>7. K(f[0]) = j[0]
  <2>1. f[0].blocks = <<>> /\ f[0].buf = <<>> /\ j[0] = <<>>
    BY <1>2, <1>6 DEF BlocksUpTo, JoinsUpTo, NoBlocks
  <2> QED BY <2>1, JoinOfNone, KeptNone
<1>8. \A n \in 1..len : K(f[n - 1]) = j[n - 1] => K(f[n]) = j[n]
  <2> SUFFICES ASSUME NEW n \in 1..len, K(f[n - 1]) = j[n - 1] PROVE K(f[n]) = j[n]
    OBVIOUS
  <2>1. f[n - 1] \in BlocksState /\ lines[n] \in Line /\ f[n] = BlocksLine(f[n - 1], lines[n])
    BY <1>1, <1>2 DEF BlocksUpTo
  <2>2. K(f[n]) = K(f[n - 1]) \o Kept(<<lines[n]>>)
    BY <2>1, BlocksLineKeeps
  <2>3. j[n] = j[n - 1] \o Kept(<<lines[n]>>)
    BY <1>5, <1>6 DEF JoinsUpTo
  <2> HIDE DEF K
  <2> QED BY <2>2, <2>3
<1>9. K(f[len]) = j[len]
  <2> DEFINE P == {n \in 0..len : K(f[n]) = j[n]}
  <2> HIDE DEF K
  <2>1. 0 \in P /\ \A n \in 1..len : n - 1 \in P => n \in P
    BY <1>1, <1>7, <1>8
  <2>2. \A n \in 0..len : n \in P
    <3> HIDE DEF P
    <3> QED BY <1>1, <2>1, Upwards
  <2>3. len \in 0..len
    BY <1>1
  <2> QED BY <2>2, <2>3, Zenon
<1>10. j[len] = Kept(lines)
  BY <1>3, <1>6 DEF JoinsUpTo, ks
<1> DEFINE end == f[len]
<1>11. end \in BlocksState /\ TextBlocks(lines) = EndBlocks(end)
  BY <1>1, <1>2 DEF BlocksUpTo
<1> HIDE DEF end
<1>12. end.blocks \in Seq(Filled) /\ end.blocks \in Seq(Seq(Line)) /\ end.buf \in Seq(Line)
  BY <1>11 DEF BlocksState, Filled
<1>13. FlattenSeq(end.blocks) \in Seq(Line) /\ Kept(FlattenSeq(end.blocks)) \in Seq(Line)
  <2>1. FlattenSeq(end.blocks) \in Seq(Line)
    BY <1>12, JoinIs
  <2> QED BY <2>1, KeptTogether
<1>14. CASE end.buf # <<>>
  <2>1. end.buf \in Filled /\ Append(end.blocks, end.buf) \in Seq(Filled)
    BY <1>12, <1>14, AppendProperties DEF Filled
  <2>2. FlattenSeq(Append(end.blocks, end.buf)) = FlattenSeq(end.blocks) \o end.buf
    BY <1>12, JoinOfMore
  <2>3. Kept(FlattenSeq(end.blocks) \o end.buf) = Kept(FlattenSeq(end.blocks)) \o Kept(end.buf)
    BY <1>12, <1>13, KeptTogether
  <2> QED BY <1>9, <1>10, <1>11, <1>14, <2>1, <2>2, <2>3, Zenon DEF EndBlocks, end
<1>15. CASE end.buf = <<>>
  <2>1. Kept(FlattenSeq(end.blocks)) \o Kept(end.buf) = Kept(FlattenSeq(end.blocks))
    BY <1>13, <1>15, KeptNone
  <2> QED BY <1>9, <1>10, <1>11, <1>12, <1>15, <2>1, Zenon DEF EndBlocks, end
<1> QED BY <1>14, <1>15

-----------------------------------------------------------------------------
(* Chunking: the pieces of a section                                       *)

Text == [lines : Seq(Line), carried : Nat]
SplitState == [pieces : Seq(Text), buf : Text]
Params == {p \in [target : Nat, min : Nat, max : Nat, overlap : Nat] :
             p.overlap <= p.target /\ p.target <= p.max /\ p.min <= p.max}

LEMMA AllMore ==
  ASSUME NEW R, Parts(R), NEW a \in Seq(R), NEW r \in R
  PROVE  AllLines(Append(a, r)) = AllLines(a) \o r.lines
<1>1. Append(a, r) = a \o <<r>> /\ <<r>> \in Seq(R)
  OBVIOUS
<1>2. AllLines(a \o <<r>>) = AllLines(a) \o AllLines(<<r>>)
  BY <1>1, AllTogether
<1>3. AllLines(<<r>>) = r.lines
  BY AllOne DEF Parts
<1> QED BY <1>1, <1>2, <1>3, Zenon

LEMMA LinesTokensIs ==
  ASSUME NEW lines \in Seq(Line)
  PROVE  LinesTokens(lines) \in Nat
BY TokensTogether

LEMMA NoTokens == LinesTokens(<<>>) = 0
<1>1. <<>> \in Seq(Line) /\ Len(<<>>) = 0
  OBVIOUS
<1>2. PICK f : TokensUpTo(f, <<>>, Len(<<>>))
  BY <1>1, TokensTrail
<1> QED BY <1>1, <1>2 DEF TokensUpTo

LEMMA TailIs ==
  ASSUME NEW text \in Text, NEW n \in Nat
  PROVE  TailTokens(text, n) \in Nat /\ TailTokens(text, n) <= n
<1> DEFINE w == LinesTokens(Without("fence", text.lines))
<1>1. text.lines \in Seq(Line) /\ text.carried \in Nat
  BY DEF Text
<1>2. w \in Nat
  BY <1>1, WithoutIs, LinesTokensIs
<1> HIDE DEF w
<1> DEFINE k == text.carried + w
<1>3. k \in Nat
  BY <1>1, <1>2
<1> HIDE DEF k
<1>4. \E x \in {n, k} : \A y \in {n, k} : x <= y
  BY <1>3
<1>5. Min({n, k}) \in {n, k} /\ Min({n, k}) <= n
  BY <1>4 DEF Min
<1> QED BY <1>3, <1>5 DEF TailTokens, w, k

LEMMA TextTokensIs ==
  ASSUME NEW text \in Text
  PROVE  TextTokens(text) \in Nat
<1>1. text.lines \in Seq(Line) /\ text.carried \in Nat
  BY DEF Text
<1> QED BY <1>1, LinesTokensIs DEF TextTokens

\* A block changes what was cut so far in one of two ways.
Begun(acc, block, p, then) ==
    /\ acc.buf.lines # <<>>
    /\ then = [pieces |-> Append(acc.pieces, acc.buf),
               buf |-> [lines |-> block, carried |-> TailTokens(acc.buf, p.overlap)]]
Extended(acc, block, p, then) ==
    /\ acc.buf.lines = <<>> \/ TextTokens(acc.buf) + LinesTokens(block) <= p.target
    /\ then = [pieces |-> acc.pieces,
               buf |-> [lines |-> acc.buf.lines \o block, carried |-> acc.buf.carried]]

LEMMA SplitBlockCases ==
  ASSUME NEW acc \in SplitState, NEW block \in Filled, NEW p \in Params,
         NEW then, then = SplitBlock(acc, block, p)
  PROVE  Begun(acc, block, p, then) \/ Extended(acc, block, p, then)
<1>1. TextTokens(acc.buf) \in Nat /\ LinesTokens(block) \in Nat /\ p.target \in Nat
  <2>1. acc.buf \in Text /\ block \in Seq(Line)
    BY DEF SplitState, Filled
  <2> QED BY <2>1, TextTokensIs, LinesTokensIs DEF Params
<1>2. CASE acc.buf.lines # <<>> /\ TextTokens(acc.buf) + LinesTokens(block) > p.target
  BY <1>2 DEF SplitBlock, Begun
<1>3. CASE ~(acc.buf.lines # <<>> /\ TextTokens(acc.buf) + LinesTokens(block) > p.target)
  <2>1. then = [acc EXCEPT !.buf.lines = @ \o block]
    BY <1>3, Zenon DEF SplitBlock
  <2>2. then = [pieces |-> acc.pieces,
                buf |-> [lines |-> acc.buf.lines \o block, carried |-> acc.buf.carried]]
    BY <2>1 DEF SplitState, Text
  <2>3. acc.buf.lines = <<>> \/ TextTokens(acc.buf) + LinesTokens(block) <= p.target
    BY <1>1, <1>3
  <2> QED BY <2>2, <2>3 DEF Extended
<1> QED BY <1>2, <1>3

LEMMA SplitStateIs ==
  ASSUME NEW acc \in SplitState, NEW block \in Filled, NEW p \in Params
  PROVE  SplitBlock(acc, block, p) \in SplitState
<1> DEFINE then == SplitBlock(acc, block, p)
<1>1. Begun(acc, block, p, then) \/ Extended(acc, block, p, then)
  BY SplitBlockCases
<1>2. /\ acc.buf \in Text /\ acc.pieces \in Seq(Text) /\ block \in Seq(Line)
      /\ acc.buf.lines \in Seq(Line) /\ acc.buf.carried \in Nat /\ p.overlap \in Nat
  BY DEF SplitState, Text, Filled, Params
<1> HIDE DEF then
<1>3. CASE Begun(acc, block, p, then)
  <2>1. TailTokens(acc.buf, p.overlap) \in Nat
    BY <1>2, TailIs
  <2>2. Append(acc.pieces, acc.buf) \in Seq(Text)
    BY <1>2, AppendProperties
  <2>3. [lines |-> block, carried |-> TailTokens(acc.buf, p.overlap)] \in Text
    BY <1>2, <2>1 DEF Text
  <2> QED BY <1>3, <2>2, <2>3 DEF Begun, SplitState, then
<1>4. CASE Extended(acc, block, p, then)
  <2>1. acc.buf.lines \o block \in Seq(Line)
    BY <1>2, ConcatProperties
  <2>2. [lines |-> acc.buf.lines \o block, carried |-> acc.buf.carried] \in Text
    BY <1>2, <2>1 DEF Text
  <2> QED BY <1>2, <1>4, <2>2 DEF Extended, SplitState, then
<1> QED BY <1>1, <1>3, <1>4

\* No line is lost by one block.
LEMMA SplitBlockKeeps ==
  ASSUME NEW acc \in SplitState, NEW block \in Filled, NEW p \in Params,
         NEW then, then = SplitBlock(acc, block, p)
  PROVE  AllLines(then.pieces) \o then.buf.lines = (AllLines(acc.pieces) \o acc.buf.lines) \o block
<1>1. Begun(acc, block, p, then) \/ Extended(acc, block, p, then)
  BY SplitBlockCases
<1>2. acc.buf \in Text /\ acc.pieces \in Seq(Text) /\ block \in Seq(Line) /\ acc.buf.lines \in Seq(Line)
  BY DEF SplitState, Text, Filled
<1>3. Parts(Text)
  BY DEF Parts, Text
<1>4. CASE Begun(acc, block, p, then)
  <2>2. AllLines(Append(acc.pieces, acc.buf)) = AllLines(acc.pieces) \o acc.buf.lines
    BY <1>2, <1>3, AllMore
  <2>3. then.pieces = Append(acc.pieces, acc.buf) /\ then.buf.lines = block
    BY <1>4 DEF Begun
  <2> QED BY <2>2, <2>3
<1>5. CASE Extended(acc, block, p, then)
  <2>1. then.pieces = acc.pieces /\ then.buf.lines = acc.buf.lines \o block
    BY <1>5 DEF Extended
  <2>2. AllLines(acc.pieces) \in Seq(Line)
    BY <1>2, <1>3, AllTogether
  <2>3. Regroups(Line)
    BY Associate, Zenon
  <2>4. (AllLines(acc.pieces) \o acc.buf.lines) \o block = AllLines(acc.pieces) \o (acc.buf.lines \o block)
    BY <1>2, <2>2, <2>3, Zenon DEF Regroups
  <2> QED BY <2>1, <2>4, Zenon
<1> QED BY <1>1, <1>4, <1>5

\* A text is as long as it may be, given the blocks it is made of.
Bounded(text, p, blocks) ==
    \/ TextTokens(text) <= p.max
    \/ \E b \in blocks : TextTokens(text) <= p.overlap + LinesTokens(b)

SplitBounded(acc, p, blocks) ==
    /\ \A i \in 1..Len(acc.pieces) : Bounded(acc.pieces[i], p, blocks)
    /\ IF acc.buf.lines = <<>> THEN acc.buf.carried = 0 ELSE Bounded(acc.buf, p, blocks)

\* No piece is too long after one block more.
LEMMA SplitBlockBounded ==
  ASSUME NEW acc \in SplitState, NEW block \in Filled, NEW p \in Params, NEW blocks, block \in blocks,
         SplitBounded(acc, p, blocks), NEW then, then = SplitBlock(acc, block, p)
  PROVE  SplitBounded(then, p, blocks)
<1>1. Begun(acc, block, p, then) \/ Extended(acc, block, p, then)
  BY SplitBlockCases
<1>2. /\ acc.buf \in Text /\ acc.pieces \in Seq(Text) /\ block \in Seq(Line) /\ acc.buf.lines \in Seq(Line)
      /\ acc.buf.carried \in Nat /\ p.overlap \in Nat /\ p.target \in Nat /\ p.max \in Nat /\ p.target <= p.max
  BY DEF SplitState, Text, Filled, Params
<1>3. LinesTokens(block) \in Nat
  BY <1>2, LinesTokensIs
<1>4. CASE Begun(acc, block, p, then)
  <2>1. /\ then.pieces = Append(acc.pieces, acc.buf)
        /\ then.buf.lines = block /\ then.buf.carried = TailTokens(acc.buf, p.overlap)
    BY <1>4 DEF Begun
  <2>2. Bounded(acc.buf, p, blocks)
    BY <1>4 DEF Begun, SplitBounded
  <2>3. \A i \in 1..Len(then.pieces) : Bounded(then.pieces[i], p, blocks)
    <3> SUFFICES ASSUME NEW i \in 1..Len(then.pieces) PROVE Bounded(then.pieces[i], p, blocks)
      OBVIOUS
    <3>1. CASE i = Len(acc.pieces) + 1
      <4>1. then.pieces[i] = acc.buf
        BY <1>2, <2>1, <3>1
      <4> QED BY <2>2, <4>1
    <3>2. CASE i # Len(acc.pieces) + 1
      <4>1. i \in 1..Len(acc.pieces) /\ then.pieces[i] = acc.pieces[i]
        BY <1>2, <2>1, <3>2
      <4> QED BY <4>1 DEF SplitBounded
    <3> QED BY <3>1, <3>2
  <2>4. TextTokens(then.buf) <= p.overlap + LinesTokens(block)
    <3>1. TailTokens(acc.buf, p.overlap) \in Nat /\ TailTokens(acc.buf, p.overlap) <= p.overlap
      BY <1>2, TailIs
    <3>2. TextTokens(then.buf) = TailTokens(acc.buf, p.overlap) + LinesTokens(block)
      BY <2>1 DEF TextTokens
    <3> QED BY <1>2, <1>3, <3>1, <3>2
  <2>5. block # <<>>
    BY DEF Filled
  <2>6. Bounded(then.buf, p, blocks)
    BY <2>4 DEF Bounded
  <2> QED BY <2>1, <2>3, <2>5, <2>6 DEF SplitBounded
<1>5. CASE Extended(acc, block, p, then)
  <2>1. then.pieces = acc.pieces /\ then.buf.lines = acc.buf.lines \o block /\ then.buf.carried = acc.buf.carried
    BY <1>5 DEF Extended
  <2>2. TextTokens(then.buf) = TextTokens(acc.buf) + LinesTokens(block)
    <3>1. LinesTokens(acc.buf.lines \o block) = LinesTokens(acc.buf.lines) + LinesTokens(block)
          /\ LinesTokens(acc.buf.lines) \in Nat
      BY <1>2, TokensTogether
    <3> QED BY <1>2, <1>3, <2>1, <3>1 DEF TextTokens
  <2>3. TextTokens(acc.buf) \in Nat
    BY <1>2, TextTokensIs
  <2>4. Bounded(then.buf, p, blocks)
    <3>1. CASE TextTokens(acc.buf) + LinesTokens(block) <= p.target
      <4>1. TextTokens(then.buf) <= p.max
        BY <1>2, <1>3, <2>2, <2>3, <3>1
      <4> QED BY <4>1 DEF Bounded
    <3>2. CASE acc.buf.lines = <<>> /\ ~(TextTokens(acc.buf) + LinesTokens(block) <= p.target)
      <4>1. acc.buf.carried = 0
        BY <3>2 DEF SplitBounded
      <4>2. TextTokens(acc.buf) = 0
        BY <3>2, <4>1, NoTokens DEF TextTokens
      <4>3. TextTokens(then.buf) <= p.overlap + LinesTokens(block)
        BY <1>2, <1>3, <2>2, <4>2
      <4> QED BY <4>3 DEF Bounded
    <3>3. acc.buf.lines = <<>> \/ TextTokens(acc.buf) + LinesTokens(block) <= p.target
      BY <1>5 DEF Extended
    <3> QED BY <3>1, <3>2, <3>3
  <2>5. acc.buf.lines \o block # <<>>
    <3>1. block # <<>> /\ Len(block) \in Nat /\ Len(block) # 0
      BY <1>2 DEF Filled
    <3>2. Len(acc.buf.lines \o block) = Len(acc.buf.lines) + Len(block) /\ Len(acc.buf.lines) \in Nat
      BY <1>2
    <3>3. Len(<<>>) = 0
      OBVIOUS
    <3> QED BY <3>1, <3>2, <3>3
  <2> QED BY <2>1, <2>4, <2>5 DEF SplitBounded
<1> QED BY <1>1, <1>4, <1>5

NoPieces == [pieces |-> <<>>, buf |-> [lines |-> <<>>, carried |-> 0]]
EndPieces(end) == IF end.buf.lines # <<>> THEN Append(end.pieces, end.buf) ELSE end.pieces
Uncut(lines) == [lines |-> lines, carried |-> 0]

\* f holds what was cut so far after each block.
SplitUpTo(f, lines, p, blocks) ==
    /\ f \in [0..Len(blocks) -> SplitState] /\ f[0] = NoPieces
    /\ Split(lines, p) = IF TextTokens(Uncut(lines)) <= p.max THEN <<Uncut(lines)>>
                         ELSE EndPieces(f[Len(blocks)])
    /\ \A n \in 1..Len(blocks) : f[n] = SplitBlock(f[n - 1], blocks[n], p)

LEMMA SplitTrail ==
  ASSUME NEW lines \in Seq(Line), NEW p \in Params
  PROVE  \E f : SplitUpTo(f, lines, p, TextBlocks(lines))
<1> DEFINE blocks == TextBlocks(lines)
           len == Len(blocks)
           next == [x \in (1..len) \X SplitState |-> SplitBlock(x[2], blocks[x[1]], p)]
           Along(g) == g = [n \in 0..len |-> IF n = 0 THEN [pieces |-> <<>>, buf |-> [lines |-> <<>>, carried |-> 0]]
                                            ELSE SplitBlock(g[n - 1], blocks[n], p)]
           G == CHOOSE g : Along(g)
<1>1. len \in Nat /\ \A n \in 1..len : blocks[n] \in Filled
  <2>1. blocks \in Seq(Filled)
    BY BlocksKeep
  <2> HIDE DEF blocks
  <2> QED BY <2>1
<1>3. Split(lines, p) = IF TextTokens(Uncut(lines)) <= p.max THEN <<Uncut(lines)>> ELSE EndPieces(G[len])
  BY Zenon DEF Split, Stepwise, EndPieces, Uncut
<1> HIDE DEF blocks, len
<1>2. next \in [(1..len) \X SplitState -> SplitState]
  BY <1>1, SplitStateIs
<1>0. NoPieces \in SplitState
  <2>1. <<>> \in Seq(Text) /\ <<>> \in Seq(Line) /\ 0 \in Nat
    OBVIOUS
  <2> QED BY <2>1 DEF NoPieces, SplitState, Text
<1>4. PICK f : Leads(f, SplitState, NoPieces, next, len)
  <2> HIDE DEF next
  <2> QED BY <1>0, <1>1, <1>2, Trail
<1>5. \A n \in 1..len : f[n] = SplitBlock(f[n - 1], blocks[n], p)
  <2> SUFFICES ASSUME NEW n \in 1..len
               PROVE  f[n] = SplitBlock(f[n - 1], blocks[n], p)
    OBVIOUS
  <2>1. n - 1 \in 0..len /\ f[n - 1] \in SplitState
    BY <1>1, <1>4 DEF Leads
  <2>2. <<n, f[n - 1]>> \in (1..len) \X SplitState /\ f[n] = next[<<n, f[n - 1]>>]
    BY <1>4, <2>1 DEF Leads
  <2> QED BY <2>1, <2>2, Zenon
<1> HIDE DEF next
<1>6. Along(f)
  BY <1>1, <1>4, <1>5 DEF Leads, NoPieces
<1>7. Along(G)
  BY <1>6, Zenon
<1> HIDE DEF G
<1>8. \A n \in 0..len : G[n] = f[n]
  <2>1. G[0] = f[0]
    BY <1>4, <1>7, <1>1 DEF Leads, NoPieces
  <2>2. \A n \in 1..len : G[n - 1] = f[n - 1] => G[n] = f[n]
    <3> SUFFICES ASSUME NEW n \in 1..len, G[n - 1] = f[n - 1] PROVE G[n] = f[n]
      OBVIOUS
    <3>1. n \in 0..len /\ n # 0
      BY <1>1
    <3>2. G[n] = SplitBlock(G[n - 1], blocks[n], p)
      BY <1>7, <3>1, Zenon
    <3> QED BY <1>5, <3>2, Zenon
  <2> DEFINE P == {n \in 0..len : G[n] = f[n]}
  <2>3. 0 \in P /\ \A n \in 1..len : n - 1 \in P => n \in P
    BY <1>1, <2>1, <2>2
  <2>4. \A n \in 0..len : n \in P
    <3> HIDE DEF P, Along
    <3> QED BY <1>1, <2>3, Upwards
  <2> QED BY <2>4
<1>9. G[len] = f[len]
  BY <1>1, <1>8
<1>10. f \in [0..len -> SplitState] /\ f[0] = NoPieces
  BY <1>4 DEF Leads
<1> QED BY <1>3, <1>5, <1>9, <1>10, Zenon DEF len, blocks, SplitUpTo

\* A section is cut into texts none of which is too long, and they hold its lines.
LEMMA SplitIs ==
  ASSUME NEW lines \in Seq(Line), NEW p \in Params
  PROVE  /\ Split(lines, p) \in Seq(Text)
         /\ Kept(AllLines(Split(lines, p))) = Kept(lines)
         /\ \A i \in 1..Len(Split(lines, p)) : Bounded(Split(lines, p)[i], p, Range(TextBlocks(lines)))
<1> DEFINE blocks == TextBlocks(lines)
           len == Len(blocks)
           whole == Uncut(lines)
           cut == Split(lines, p)
<1>0. blocks \in Seq(Filled) /\ Kept(FlattenSeq(blocks)) = Kept(lines)
  BY BlocksKeep
<1> HIDE DEF blocks, cut
<1>1. /\ len \in Nat /\ \A n \in 1..len : blocks[n] \in Filled /\ blocks[n] \in Range(blocks)
      /\ blocks \in Seq(Seq(Line))
  BY <1>0 DEF Filled, Range
<1>2. PICK f : SplitUpTo(f, lines, p, blocks)
  BY SplitTrail DEF blocks
<1>3. CASE TextTokens(whole) <= p.max
  <2>1. cut = <<whole>> /\ whole \in Text
    BY <1>2, <1>3 DEF SplitUpTo, Text, Uncut, cut
  <2>2. AllLines(cut) = lines
    <3>1. whole.lines = lines
      BY DEF Uncut
    <3> QED BY <2>1, <3>1, AllOne
  <2>3. \A i \in 1..Len(cut) : cut[i] = whole
    BY <2>1
  <2>4. cut \in Seq(Text)
    BY <2>1
  <2>5. Bounded(whole, p, Range(blocks))
    BY <1>3 DEF Bounded
  <2> QED BY <2>2, <2>3, <2>4, <2>5 DEF cut, blocks
<1>4. CASE ~(TextTokens(whole) <= p.max)
  <2>1. PICK j : JoinsUpTo(j, blocks, Line, len)
    BY <1>1, JoinTrail
  <2>2. f \in [0..len -> SplitState] /\ f[0] = NoPieces /\ cut = EndPieces(f[len])
    BY <1>2, <1>4, Zenon DEF SplitUpTo, cut
  <2>3. \A n \in 1..len : f[n] = SplitBlock(f[n - 1], blocks[n], p) /\ n - 1 \in 0..len
    BY <1>1, <1>2 DEF SplitUpTo
  <2> HIDE DEF len
  <2> DEFINE A(s) == AllLines(s.pieces) \o s.buf.lines
             P == {n \in 0..len : A(f[n]) = j[n] /\ SplitBounded(f[n], p, Range(blocks))}
  <2>4. 0 \in P
    <3>1. f[0].pieces = <<>> /\ f[0].buf.lines = <<>> /\ f[0].buf.carried = 0 /\ j[0] = <<>>
      BY <2>1, <2>2 DEF JoinsUpTo, NoPieces
    <3>2. SplitBounded(f[0], p, Range(blocks))
      BY <3>1 DEF SplitBounded
    <3>3. AllLines(f[0].pieces) \o f[0].buf.lines = <<>>
      BY <3>1, AllNone
    <3>4. A(f[0]) = j[0] /\ 0 \in 0..len
      BY <1>1, <3>1, <3>3 DEF len
    <3> HIDE DEF A
    <3> QED BY <3>2, <3>4
  <2>5. ASSUME NEW n \in 1..len, n - 1 \in P PROVE n \in P
    <3>1. /\ f[n - 1] \in SplitState /\ blocks[n] \in Filled /\ blocks[n] \in Range(blocks)
          /\ f[n] = SplitBlock(f[n - 1], blocks[n], p)
      BY <1>1, <2>2, <2>3 DEF len
    <3>2. A(f[n - 1]) = j[n - 1] /\ SplitBounded(f[n - 1], p, Range(blocks))
      BY <2>5
    <3>3. A(f[n]) = A(f[n - 1]) \o blocks[n]
      <4> DEFINE s == f[n - 1]  t == f[n]  x == blocks[n]
      <4>1. s \in SplitState /\ x \in Filled /\ t = SplitBlock(s, x, p)
        BY <3>1, Zenon
      <4> HIDE DEF s, t, x
      <4>2. AllLines(t.pieces) \o t.buf.lines = (AllLines(s.pieces) \o s.buf.lines) \o x
        BY <4>1, SplitBlockKeeps, Zenon
      <4> QED BY <4>2, Zenon DEF A, s, t, x
    <3>4. SplitBounded(f[n], p, Range(blocks))
      BY <3>1, <3>2, SplitBlockBounded
    <3>5. j[n] = j[n - 1] \o blocks[n]
      BY <2>1 DEF JoinsUpTo
    <3>6. n \in 0..len
      BY <1>1
    <3> HIDE DEF A
    <3> QED BY <3>2, <3>3, <3>4, <3>5, <3>6
  <2>6. \A n \in 0..len : n \in P
    <3> HIDE DEF P
    <3> QED BY <1>1, <2>4, <2>5, Upwards DEF len
  <2> DEFINE end == f[len]
  <2>7. end \in SplitState /\ A(end) = j[len] /\ SplitBounded(end, p, Range(blocks)) /\ j[len] = FlattenSeq(blocks)
    <3>1. len \in 0..len
      BY <1>1 DEF len
    <3>2. end \in SplitState
      BY <2>2, <3>1
    <3>3. j[len] = FlattenSeq(blocks)
      BY <2>1 DEF JoinsUpTo
    <3> HIDE DEF A
    <3> QED BY <2>6, <3>1, <3>2, <3>3
  <2> HIDE DEF P
  <2>8. cut = EndPieces(end)
    BY <2>2
  <2> HIDE DEF end
  <2>9. end.pieces \in Seq(Text) /\ end.buf \in Text /\ Parts(Text) /\ AllLines(end.pieces) \in Seq(Line)
    <3>1. end.pieces \in Seq(Text) /\ end.buf \in Text /\ Parts(Text)
      BY <2>7 DEF SplitState, Text, Parts
    <3> QED BY <3>1, AllTogether
  <2>10. CASE end.buf.lines # <<>>
    <3>1. cut = Append(end.pieces, end.buf)
      BY <2>8, <2>10 DEF EndPieces
    <3>2. AllLines(cut) = AllLines(end.pieces) \o end.buf.lines
      BY <2>9, <3>1, AllMore
    <3>3. Kept(AllLines(cut)) = Kept(lines)
      BY <1>0, <2>7, <3>2, Zenon
    <3>4. \A i \in 1..Len(cut) : Bounded(cut[i], p, Range(blocks))
      <4> SUFFICES ASSUME NEW i \in 1..Len(cut) PROVE Bounded(cut[i], p, Range(blocks))
        OBVIOUS
      <4>1. CASE i = Len(end.pieces) + 1
        <5>1. cut[i] = end.buf
          BY <2>9, <3>1, <4>1
        <5> QED BY <2>7, <2>10, <5>1 DEF SplitBounded
      <4>2. CASE i # Len(end.pieces) + 1
        <5>1. i \in 1..Len(end.pieces) /\ cut[i] = end.pieces[i]
          BY <2>9, <3>1, <4>2
        <5> QED BY <2>7, <5>1 DEF SplitBounded
      <4> QED BY <4>1, <4>2
    <3>5. cut \in Seq(Text)
      BY <2>9, <3>1, AppendProperties
    <3> QED BY <3>3, <3>4, <3>5 DEF cut, blocks
  <2>11. CASE end.buf.lines = <<>>
    <3>1. cut = end.pieces
      BY <2>8, <2>11 DEF EndPieces
    <3>2. AllLines(cut) = AllLines(end.pieces) \o end.buf.lines
      BY <2>9, <2>11, <3>1
    <3>3. Kept(AllLines(cut)) = Kept(lines)
      BY <1>0, <2>7, <3>2, Zenon
    <3> QED BY <2>7, <2>9, <3>1, <3>3 DEF SplitBounded, cut, blocks
  <2> QED BY <2>10, <2>11
<1> QED BY <1>3, <1>4

-----------------------------------------------------------------------------
(* Chunking: the chunks of a document                                      *)

ChunksOf(H) == [headings : Seq(H), lines : Seq(Line), carried : Nat]
SectionsOf(H) == [heading : H, lines : Seq(Line)]
Alone(h, piece) == [headings |-> <<h>>, lines |-> piece.lines, carried |-> piece.carried]

\* The pieces of a section are added to the chunks, or the first joins the last of them.
ComesAfter(merged, h, pieces, then) ==
    then = merged \o [i \in DOMAIN pieces |-> Alone(h, pieces[i])]
Joins(merged, h, pieces, p, then) ==
    /\ merged # <<>> /\ pieces # <<>>
    /\ TextTokens(Last(merged)) + TextTokens(Head(pieces)) <= p.max
    /\ then = Front(merged) \o <<Joined(Last(merged), h, Head(pieces))>>
                            \o [i \in 1..Len(Tail(pieces)) |-> Alone(h, Tail(pieces)[i])]

LEMMA AddSectionCases ==
  ASSUME NEW merged, NEW section, NEW p, NEW pieces, pieces = Split(section.lines, p),
         NEW then, then = AddSection(merged, section, p)
  PROVE  Joins(merged, section.heading, pieces, p, then) \/ ComesAfter(merged, section.heading, pieces, then)
<1>1. CASE pieces # <<>> /\ Fits(merged, Head(pieces), p)
  <2>1. then = Front(merged) \o <<Joined(Last(merged), section.heading, Head(pieces))>>
                            \o [i \in 1..Len(Tail(pieces)) |-> Alone(section.heading, Tail(pieces)[i])]
    BY <1>1, Zenon DEF AddSection, Alone
  <2>2. merged # <<>> /\ pieces # <<>> /\ TextTokens(Last(merged)) + TextTokens(Head(pieces)) <= p.max
    BY <1>1, Zenon DEF Fits
  <2> QED BY <2>1, <2>2, Zenon DEF Joins
<1>2. CASE ~(pieces # <<>> /\ Fits(merged, Head(pieces), p))
  <2>1. then = merged \o [i \in DOMAIN pieces |-> Alone(section.heading, pieces[i])]
    BY <1>2, Zenon DEF AddSection, Alone
  <2> QED BY <2>1, Zenon DEF ComesAfter
<1> QED BY <1>1, <1>2, Zenon

\* The pieces alone are chunks that hold what the pieces hold.
Standing(cs, h, pieces, H) ==
    /\ cs \in Seq(ChunksOf(H)) /\ Len(cs) = Len(pieces) /\ AllLines(cs) = AllLines(pieces)
    /\ \A i \in 1..Len(pieces) : cs[i] = Alone(h, pieces[i])

LEMMA StandingIs ==
  ASSUME NEW H, NEW h \in H, NEW pieces \in Seq(Text)
  PROVE  Standing([i \in 1..Len(pieces) |-> Alone(h, pieces[i])], h, pieces, H)
<1> DEFINE cs == [i \in 1..Len(pieces) |-> Alone(h, pieces[i])]
<1>1. Len(pieces) \in Nat /\ DOMAIN pieces = 1..Len(pieces)
  OBVIOUS
<1>2. \A i \in 1..Len(pieces) : Alone(h, pieces[i]) \in ChunksOf(H) /\ Alone(h, pieces[i]).lines = pieces[i].lines
  <2> SUFFICES ASSUME NEW i \in 1..Len(pieces)
               PROVE  Alone(h, pieces[i]) \in ChunksOf(H) /\ Alone(h, pieces[i]).lines = pieces[i].lines
    OBVIOUS
  <2>1. pieces[i] \in Text /\ <<h>> \in Seq(H)
    OBVIOUS
  <2> QED BY <2>1 DEF Alone, ChunksOf, Text
<1>3. cs \in [1..Len(pieces) -> ChunksOf(H)] /\ DOMAIN cs = DOMAIN pieces
  BY <1>1, <1>2
<1>4. cs \in Seq(ChunksOf(H)) /\ Len(cs) = Len(pieces)
  <2> HIDE DEF cs
  <2> QED BY <1>1, <1>3
<1>5. \A i \in 1..Len(pieces) : cs[i] = Alone(h, pieces[i])
  OBVIOUS
<1> HIDE DEF cs
<1>6. [i \in DOMAIN cs |-> cs[i].lines] = [i \in DOMAIN pieces |-> pieces[i].lines]
  BY <1>1, <1>2, <1>3, <1>5
<1>7. AllLines(cs) = AllLines(pieces)
  BY <1>6, Zenon DEF AllLines
<1> QED BY <1>4, <1>5, <1>7 DEF Standing, cs

LEMMA JoinedIsChunk ==
  ASSUME NEW H, NEW h \in H, NEW last \in ChunksOf(H), NEW piece \in Text
  PROVE  /\ Joined(last, h, piece) \in ChunksOf(H)
         /\ Joined(last, h, piece).lines = last.lines \o piece.lines
         /\ TextTokens(Joined(last, h, piece)) = TextTokens(last) + TextTokens(piece)
<1> DEFINE hs == IF Contains(last.headings, h) THEN last.headings ELSE Append(last.headings, h)
           j == Joined(last, h, piece)
<1>1. /\ last.headings \in Seq(H) /\ last.lines \in Seq(Line) /\ last.carried \in Nat
      /\ piece.lines \in Seq(Line) /\ piece.carried \in Nat
  BY DEF ChunksOf, Text
<1>2. hs \in Seq(H)
  BY <1>1, AppendProperties
<1>3. j = [headings |-> hs, lines |-> last.lines \o piece.lines, carried |-> last.carried + piece.carried]
  BY Zenon DEF Joined
<1>4. last.lines \o piece.lines \in Seq(Line)
      /\ LinesTokens(last.lines \o piece.lines) = LinesTokens(last.lines) + LinesTokens(piece.lines)
      /\ LinesTokens(last.lines) \in Nat /\ LinesTokens(piece.lines) \in Nat
  BY <1>1, TokensTogether, LinesTokensIs
<1> HIDE DEF hs, j
<1>5. j \in ChunksOf(H) /\ j.lines = last.lines \o piece.lines /\ j.carried = last.carried + piece.carried
  <2> DEFINE ls == last.lines \o piece.lines  n == last.carried + piece.carried
  <2>1. ls \in Seq(Line) /\ n \in Nat
    BY <1>1, <1>4
  <2>2. j = [headings |-> hs, lines |-> ls, carried |-> n]
    BY <1>3
  <2> HIDE DEF ls, n
  <2>3. j \in ChunksOf(H) /\ j.lines = ls /\ j.carried = n
    BY <1>2, <2>1, <2>2 DEF ChunksOf
  <2> QED BY <2>3 DEF ls, n
<1>6. TextTokens(j) = TextTokens(last) + TextTokens(piece)
  <2>1. TextTokens(j) = (last.carried + piece.carried) + (LinesTokens(last.lines) + LinesTokens(piece.lines))
    BY <1>4, <1>5 DEF TextTokens
  <2> QED BY <1>1, <1>4, <2>1 DEF TextTokens
<1> QED BY <1>5, <1>6 DEF j

LEMMA Ends ==
  ASSUME NEW R, NEW s \in Seq(R), s # <<>>
  PROVE  /\ Front(s) \in Seq(R) /\ Last(s) \in R /\ s = Front(s) \o <<Last(s)>>
         /\ Head(s) \in R /\ Tail(s) \in Seq(R) /\ s = <<Head(s)>> \o Tail(s)
         /\ Len(Front(s)) = Len(s) - 1 /\ Len(Tail(s)) = Len(s) - 1
<1>1. Len(s) \in Nat /\ Len(s) >= 1 /\ s[Len(s)] \in R
  OBVIOUS
<1>2. Front(s) \in Seq(R) /\ Len(Front(s)) = Len(s) - 1 /\ \A i \in 1..Len(s) - 1 : Front(s)[i] = s[i]
  <2>1. Front(s) = [i \in 1..Len(s) - 1 |-> s[i]]
    BY <1>1 DEF Front
  <2>2. \A i \in 1..Len(s) - 1 : s[i] \in R
    BY <1>1
  <2>3. Front(s) \in [1..Len(s) - 1 -> R] /\ Len(s) - 1 \in Nat
    BY <1>1, <2>1, <2>2
  <2> QED BY <2>1, <2>3
<1>3. Last(s) \in R /\ Last(s) = s[Len(s)]
  BY <1>1 DEF Last
<1>4. Head(s) \in R /\ Tail(s) \in Seq(R) /\ Len(Tail(s)) = Len(s) - 1 /\ Head(s) = s[1]
      /\ \A i \in 1..Len(s) - 1 : Tail(s)[i] = s[i + 1]
  BY <1>1
<1> DEFINE fr == Front(s)  la == Last(s)  he == Head(s)  ta == Tail(s)
<1> HIDE DEF fr, la, he, ta
<1>5. s = fr \o <<la>>
  <2>1. GoesOn(s, fr, <<la>>)
    BY <1>1, <1>2, <1>3 DEF GoesOn, fr, la
  <2>2. fr \in Seq(R) /\ <<la>> \in Seq(R)
    BY <1>2, <1>3 DEF fr, la
  <2> QED BY <2>1, <2>2, JoinedIs
<1>6. s = <<he>> \o ta
  <2>1. GoesOn(s, <<he>>, ta)
    BY <1>1, <1>4 DEF GoesOn, he, ta
  <2>2. ta \in Seq(R) /\ <<he>> \in Seq(R)
    BY <1>4 DEF he, ta
  <2> QED BY <2>1, <2>2, JoinedIs
<1> QED BY <1>2, <1>3, <1>4, <1>5, <1>6 DEF fr, la, he, ta

LEMMA Middle ==
  ASSUME NEW T, NEW S, NEW x \in Seq(T), NEW y \in Seq(T), NEW z \in Seq(T), x \o (y \o z) \in Seq(S)
  PROVE  y \in Seq(S)
<1> DEFINE u == y \o z
<1>1. /\ u \in Seq(T) /\ Len(u) = Len(y) + Len(z) /\ Len(y) \in Nat /\ Len(z) \in Nat
      /\ \A i \in 1..Len(y) : u[i] = y[i]
  OBVIOUS
<1> HIDE DEF u
<1>2. x \o u \in Seq(S) /\ Len(x) \in Nat /\ Len(x \o u) = Len(x) + Len(u)
      /\ \A i \in 1..Len(u) : (x \o u)[Len(x) + i] = u[i]
  BY <1>1 DEF u
<1> DEFINE w == x \o u
<1> HIDE DEF w
<1>3. w \in Seq(S) /\ Len(w) = Len(x) + Len(u) /\ \A i \in 1..Len(u) : w[Len(x) + i] = u[i]
  BY <1>2 DEF w
<1>4. \A k \in 1..Len(w) : w[k] \in S
  BY <1>3
<1>5. ASSUME NEW i \in 1..Len(y) PROVE y[i] \in S
  <2>1. i \in 1..Len(u) /\ Len(x) + i \in 1..Len(w)
    BY <1>1, <1>2, <1>3
  <2> QED BY <1>1, <1>3, <1>4, <2>1
<1>6. y = [i \in 1..Len(y) |-> y[i]]
  OBVIOUS
<1> QED BY <1>1, <1>5, <1>6

\* What is before the i-th element, the element and what is after it.
CutAt(a, i, R, x, z) ==
    /\ x \in Seq(R) /\ z \in Seq(R) /\ Len(z) = Len(a) - i /\ \A k \in 1..Len(a) - i : z[k] = a[i + k]
    /\ a = x \o (<<a[i]>> \o z)

LEMMA CutIs ==
  ASSUME NEW R, NEW a \in Seq(R), NEW i \in 1..Len(a)
  PROVE  \E x, z : CutAt(a, i, R, x, z)
<1> DEFINE x == SubSeq(a, 1, i - 1)  y == <<a[i]>>  z == SubSeq(a, i + 1, Len(a))
<1>1. Len(a) \in Nat /\ a[i] \in R /\ i \in Nat /\ i >= 1 /\ i <= Len(a)
  OBVIOUS
<1>2. x \in Seq(R) /\ Len(x) = i - 1 /\ \A k \in 1..i - 1 : x[k] = a[k]
  <2>1. x = [k \in 1..i - 1 |-> a[k]]
    BY <1>1
  <2>2. \A k \in 1..i - 1 : a[k] \in R
    BY <1>1
  <2> HIDE DEF x
  <2>3. x \in [1..i - 1 -> R] /\ i - 1 \in Nat
    BY <1>1, <2>1, <2>2
  <2> QED BY <2>1, <2>3
<1>3. z \in Seq(R) /\ Len(z) = Len(a) - i /\ \A k \in 1..Len(a) - i : z[k] = a[i + k]
  <2>1. z = [k \in 1..Len(a) - i |-> a[i + k]]
    <3>1. z = [k \in 1..(Len(a) - (i + 1)) + 1 |-> a[((i + 1) + k) - 1]]
      BY <1>1
    <3>2. (Len(a) - (i + 1)) + 1 = Len(a) - i /\ \A k \in 1..Len(a) - i : ((i + 1) + k) - 1 = i + k
      BY <1>1
    <3> QED BY <3>1, <3>2
  <2>2. \A k \in 1..Len(a) - i : a[i + k] \in R
    BY <1>1
  <2> HIDE DEF z
  <2>3. z \in [1..Len(a) - i -> R] /\ Len(a) - i \in Nat
    BY <1>1, <2>1, <2>2
  <2> QED BY <2>1, <2>3
<1>4. y \in Seq(R) /\ Len(y) = 1 /\ y[1] = a[i]
  BY <1>1
<1> HIDE DEF x, y, z
<1> DEFINE u == y \o z
<1>5. u \in Seq(R) /\ Len(u) = 1 + (Len(a) - i) /\ u[1] = a[i] /\ \A k \in 1..Len(a) - i : u[1 + k] = a[i + k]
  <2>1. u \in Seq(R) /\ GoesOn(u, y, z)
    BY <1>3, <1>4, GoesOnIs
  <2> HIDE DEF u
  <2>2. 1 \in 1..Len(y)
    BY <1>4
  <2>3. u[1] = y[1] /\ \A k \in 1..Len(z) : u[1 + k] = z[k]
    BY <1>4, <2>1, <2>2 DEF GoesOn
  <2>4. Len(u) = 1 + (Len(a) - i)
    BY <1>3, <1>4, <2>1 DEF GoesOn
  <2> QED BY <1>3, <1>4, <2>1, <2>3, <2>4
<1> HIDE DEF u
<1>6. a = x \o u
  <2>1. ASSUME NEW k \in 1..Len(u) PROVE a[Len(x) + k] = u[k]
    <3>1. CASE k = 1
      BY <1>1, <1>2, <1>5, <3>1
    <3>2. CASE k # 1
      <4>1. k - 1 \in 1..Len(a) - i /\ 1 + (k - 1) = k /\ i + (k - 1) = Len(x) + k
        BY <1>1, <1>2, <1>5, <3>2
      <4> QED BY <1>5, <4>1
    <3> QED BY <3>1, <3>2
  <2>2. GoesOn(a, x, u)
    BY <1>1, <1>2, <1>5, <2>1 DEF GoesOn
  <2> QED BY <1>2, <1>5, <2>2, JoinedIs
<1>7. a = x \o (<<a[i]>> \o z)
  BY <1>6 DEF u, y
<1> QED BY <1>2, <1>3, <1>7, Zenon DEF CutAt

\* The lines of one part come after those of the parts before it and before the rest.
Among(a, i, R, x, z) ==
    /\ x \in Seq(R) /\ z \in Seq(R) /\ Len(z) = Len(a) - i /\ \A k \in 1..Len(a) - i : z[k] = a[i + k]
    /\ Kept(AllLines(a)) = Kept(AllLines(x)) \o (Kept(a[i].lines) \o Kept(AllLines(z)))

LEMMA PartAmong ==
  ASSUME NEW R, Parts(R), NEW a \in Seq(R), NEW i \in 1..Len(a)
  PROVE  \E x, z : Among(a, i, R, x, z)
<1>1. PICK x, z : CutAt(a, i, R, x, z)
  BY CutIs
<1> DEFINE y == <<a[i]>>
           u == y \o z
<1>2. a[i] \in R /\ y \in Seq(R) /\ x \in Seq(R) /\ z \in Seq(R)
  BY <1>1 DEF CutAt
<1>3. a = x \o u
  BY <1>1, Zenon DEF CutAt
<1>4. AllLines(y) = a[i].lines
  BY <1>2, AllOne DEF Parts
<1> HIDE DEF y
<1>5. u \in Seq(R)
  BY <1>2, GoesOnIs
<1>8. AllLines(u) = AllLines(y) \o AllLines(z) /\ AllLines(y) \in Seq(Line) /\ AllLines(z) \in Seq(Line)
  BY <1>2, AllTogether
<1> HIDE DEF u
<1>7. AllLines(a) = AllLines(x) \o AllLines(u) /\ AllLines(x) \in Seq(Line)
  BY <1>2, <1>3, <1>5, AllTogether
<1> DEFINE kx == Kept(AllLines(x))  ky == Kept(AllLines(y))  kz == Kept(AllLines(z))
<1>10. kx \in Seq(Line) /\ ky \in Seq(Line) /\ kz \in Seq(Line)
  BY <1>7, <1>8, KeptTogether
<1>11. AllLines(y) \o AllLines(z) \in Seq(Line) /\ Kept(AllLines(y) \o AllLines(z)) = ky \o kz
  BY <1>8, KeptTogether, TokensTogether
<1>12. Kept(AllLines(x) \o AllLines(u)) = kx \o Kept(AllLines(u))
  BY <1>7, <1>8, <1>11, KeptTogether
<1>13. Kept(AllLines(a)) = kx \o (ky \o kz)
  BY <1>7, <1>8, <1>11, <1>12, Zenon
<1>14. Kept(AllLines(a)) = Kept(AllLines(x)) \o (Kept(a[i].lines) \o Kept(AllLines(z)))
  BY <1>4, <1>13, Zenon
<1> QED BY <1>1, <1>14, Zenon DEF Among, CutAt

\* What no part holds, the whole does not.
LEMMA PartsWithin ==
  ASSUME NEW R, Parts(R), NEW a \in Seq(R), NEW S, Kept(AllLines(a)) \in Seq(S), NEW i \in 1..Len(a)
  PROVE  Kept(a[i].lines) \in Seq(S)
<1>1. PICK x, z : Among(a, i, R, x, z)
  BY PartAmong
<1> DEFINE kx == Kept(AllLines(x))  ky == Kept(a[i].lines)  kz == Kept(AllLines(z))
<1>2. a[i].lines \in Seq(Line) /\ AllLines(x) \in Seq(Line) /\ AllLines(z) \in Seq(Line)
  <2>1. a[i] \in R
    OBVIOUS
  <2>2. x \in Seq(R) /\ z \in Seq(R)
    BY <1>1 DEF Among
  <2> QED BY <2>1, <2>2, AllTogether DEF Parts
<1>3. kx \in Seq(Line) /\ ky \in Seq(Line) /\ kz \in Seq(Line)
  BY <1>2, KeptTogether
<1>4. kx \o (ky \o kz) \in Seq(S)
  BY <1>1, Zenon DEF Among
<1> HIDE DEF kx, ky, kz
<1>5. ky \in Seq(S)
  BY <1>3, <1>4, Middle
<1> QED BY <1>5 DEF ky

\* Each line of a chunk is of a section that it names.
Named(c, src) ==
    \A line \in Range(Kept(c.lines)) :
        \E s \in src : line \in Range(Kept(s.lines)) /\ Contains(c.headings, s.heading)

InBounds(c, p, src) ==
    \/ TextTokens(c) <= p.max
    \/ \E s \in src : \E b \in Range(TextBlocks(s.lines)) : TextTokens(c) <= p.overlap + LinesTokens(b)

Sound(c, p, src) == InBounds(c, p, src) /\ Named(c, src)
Sounds(cs, p, src) == \A i \in 1..Len(cs) : Sound(cs[i], p, src)

LEMMA SoundsTogether ==
  ASSUME NEW R, NEW a \in Seq(R), NEW b \in Seq(R), NEW p, NEW src, Sounds(a, p, src), Sounds(b, p, src)
  PROVE  Sounds(a \o b, p, src)
<1>1. a \o b \in Seq(R) /\ GoesOn(a \o b, a, b)
  BY GoesOnIs
<1> DEFINE u == a \o b
<1> HIDE DEF u
<1>2. SUFFICES ASSUME NEW i \in 1..Len(u) PROVE Sound(u[i], p, src)
  BY DEF Sounds, u
<1>3. Len(a) \in Nat /\ Len(b) \in Nat /\ Len(u) = Len(a) + Len(b)
  BY <1>1 DEF GoesOn, u
<1>4. CASE i <= Len(a)
  <2>1. i \in 1..Len(a) /\ u[i] = a[i]
    BY <1>1, <1>3, <1>4 DEF GoesOn, u
  <2> QED BY <2>1 DEF Sounds
<1>5. CASE ~(i <= Len(a))
  <2>1. i - Len(a) \in 1..Len(b) /\ Len(a) + (i - Len(a)) = i
    BY <1>3, <1>5
  <2>2. u[Len(a) + (i - Len(a))] = b[i - Len(a)]
    BY <1>1, <2>1 DEF GoesOn, u
  <2>3. u[i] = b[i - Len(a)]
    BY <2>1, <2>2, Zenon
  <2> QED BY <2>1, <2>3 DEF Sounds
<1> QED BY <1>4, <1>5

\* The pieces of a section hold lines of it and are in bounds.
Within(piece, section) == Range(Kept(piece.lines)) \subseteq Range(Kept(section.lines))

LEMMA PiecesWithin ==
  ASSUME NEW H, NEW section \in SectionsOf(H), NEW p \in Params, NEW pieces,
         pieces = Split(section.lines, p), NEW i \in 1..Len(pieces)
  PROVE  pieces[i] \in Text /\ Within(pieces[i], section) /\ Bounded(pieces[i], p, Range(TextBlocks(section.lines)))
<1> DEFINE kept == Kept(section.lines)
<1>1. section.lines \in Seq(Line)
  BY DEF SectionsOf
<1>2. pieces \in Seq(Text) /\ Kept(AllLines(pieces)) = kept
      /\ Bounded(pieces[i], p, Range(TextBlocks(section.lines)))
  BY <1>1, SplitIs
<1>3. kept \in Seq(Line)
  BY <1>1, KeptTogether
<1> HIDE DEF kept
<1>4. kept \in Seq(Range(kept))
  BY <1>3 DEF Range
<1>5. Parts(Text)
  BY DEF Parts, Text
<1>6. Kept(pieces[i].lines) \in Seq(Range(kept))
  BY <1>2, <1>4, <1>5, PartsWithin
<1>7. Range(Kept(pieces[i].lines)) \subseteq Range(kept)
  <2> DEFINE k == Kept(pieces[i].lines)  S == Range(kept)
  <2>1. k \in Seq(S)
    BY <1>6
  <2> HIDE DEF k, S
  <2>2. Range(k) \subseteq S
    BY <2>1 DEF Range
  <2> QED BY <2>2 DEF k, S
<1>8. pieces[i] \in Text
  BY <1>2
<1> QED BY <1>2, <1>7, <1>8 DEF Within, kept

LEMMA AloneSound ==
  ASSUME NEW H, NEW section \in SectionsOf(H), NEW p \in Params, NEW src, section \in src,
         NEW piece \in Text, Within(piece, section), Bounded(piece, p, Range(TextBlocks(section.lines))),
         NEW c, c = Alone(section.heading, piece)
  PROVE  Sound(c, p, src)
<1>1. c.lines = piece.lines /\ c.carried = piece.carried /\ c.headings = <<section.heading>>
  BY DEF Alone
<1>2. TextTokens(c) = TextTokens(piece)
  BY <1>1 DEF TextTokens
<1>3. InBounds(c, p, src)
  BY <1>2 DEF InBounds, Bounded
<1>4. Contains(c.headings, section.heading)
  <2>1. 1 \in 1..Len(<<section.heading>>) /\ <<section.heading>>[1] = section.heading
    OBVIOUS
  <2> QED BY <1>1, <2>1 DEF Contains
<1>5. Named(c, src)
  BY <1>1, <1>4 DEF Named, Within
<1> QED BY <1>3, <1>5 DEF Sound

LEMMA ContainsMore ==
  ASSUME NEW H, NEW h \in H, NEW hs \in Seq(H), NEW more, more = IF Contains(hs, h) THEN hs ELSE Append(hs, h)
  PROVE  Contains(more, h) /\ \A x : Contains(hs, x) => Contains(more, x)
<1>1. CASE Contains(hs, h)
  BY <1>1
<1>2. CASE ~Contains(hs, h)
  <2>1. /\ more = Append(hs, h) /\ Len(hs) \in Nat /\ Len(more) = Len(hs) + 1 /\ more[Len(hs) + 1] = h
        /\ \A i \in 1..Len(hs) : more[i] = hs[i]
    BY <1>2
  <2>2. Contains(more, h)
    BY <2>1 DEF Contains
  <2>3. \A x : Contains(hs, x) => Contains(more, x)
    BY <2>1 DEF Contains
  <2> QED BY <2>2, <2>3
<1> QED BY <1>1, <1>2

LEMMA JoinedSound ==
  ASSUME NEW H, NEW section \in SectionsOf(H), NEW p \in Params, NEW src, section \in src,
         NEW piece \in Text, Within(piece, section), NEW last \in ChunksOf(H), Named(last, src),
         TextTokens(last) + TextTokens(piece) <= p.max,
         NEW c, c = Joined(last, section.heading, piece)
  PROVE  Sound(c, p, src)
<1> DEFINE h == section.heading
<1>1. h \in H
  BY DEF SectionsOf
<1>2. c.lines = last.lines \o piece.lines /\ TextTokens(c) = TextTokens(last) + TextTokens(piece)
  BY <1>1, JoinedIsChunk
<1>3. InBounds(c, p, src)
  BY <1>2 DEF InBounds
<1>4. last.lines \in Seq(Line) /\ piece.lines \in Seq(Line) /\ last.headings \in Seq(H)
  BY DEF ChunksOf, Text
<1>5. c.headings = IF Contains(last.headings, h) THEN last.headings ELSE Append(last.headings, h)
  BY Zenon DEF Joined
<1>6. Contains(c.headings, h) /\ \A x : Contains(last.headings, x) => Contains(c.headings, x)
  <2> HIDE DEF h
  <2> QED BY <1>1, <1>4, <1>5, ContainsMore
<1>7. Kept(c.lines) = Kept(last.lines) \o Kept(piece.lines)
      /\ Kept(last.lines) \in Seq(Line) /\ Kept(piece.lines) \in Seq(Line)
  BY <1>2, <1>4, KeptTogether
<1>8. Range(Kept(c.lines)) = Range(Kept(last.lines)) \cup Range(Kept(piece.lines))
  <2> DEFINE x == Kept(last.lines)  y == Kept(piece.lines)
  <2>1. x \in Seq(Line) /\ y \in Seq(Line) /\ Kept(c.lines) = x \o y
    BY <1>7
  <2> HIDE DEF x, y
  <2>2. Range(x \o y) = Range(x) \cup Range(y)
    BY <2>1, RangeConcatenation
  <2> QED BY <2>1, <2>2 DEF x, y
<1>9. Named(c, src)
  <2> SUFFICES ASSUME NEW line \in Range(Kept(c.lines))
               PROVE  \E s \in src : line \in Range(Kept(s.lines)) /\ Contains(c.headings, s.heading)
    BY DEF Named
  <2>1. CASE line \in Range(Kept(last.lines))
    <3>1. PICK s \in src : line \in Range(Kept(s.lines)) /\ Contains(last.headings, s.heading)
      BY <2>1 DEF Named
    <3> QED BY <1>6, <3>1
  <2>2. CASE line \in Range(Kept(piece.lines))
    BY <1>6, <2>2 DEF Within
  <2> QED BY <1>8, <2>1, <2>2
<1> QED BY <1>3, <1>9 DEF Sound

\* A section more: its lines come after those there were.
Grows(then, merged, section) == Kept(AllLines(then)) = Kept(AllLines(merged)) \o Kept(section.lines)

LEMMA SectionAdded ==
  ASSUME NEW H, NEW section \in SectionsOf(H), NEW p \in Params, NEW src, section \in src,
         NEW merged \in Seq(ChunksOf(H)), Sounds(merged, p, src),
         NEW then, then = AddSection(merged, section, p)
  PROVE  /\ then \in Seq(ChunksOf(H)) /\ Sounds(then, p, src)
         /\ Grows(then, merged, section)
<1> DEFINE h == section.heading
           pieces == Split(section.lines, p)
<1>1. h \in H /\ section.lines \in Seq(Line)
  BY DEF SectionsOf
<1>2. pieces \in Seq(Text) /\ Kept(AllLines(pieces)) = Kept(section.lines)
  BY <1>1, SplitIs
<1>3. \A i \in 1..Len(pieces) :
         pieces[i] \in Text /\ Within(pieces[i], section) /\ Bounded(pieces[i], p, Range(TextBlocks(section.lines)))
  BY PiecesWithin
<1>4. Joins(merged, h, pieces, p, then) \/ ComesAfter(merged, h, pieces, then)
  BY AddSectionCases
<1>5. Parts(ChunksOf(H)) /\ Parts(Text)
  BY DEF Parts, ChunksOf, Text
<1> HIDE DEF h, pieces
<1>6. AllLines(merged) \in Seq(Line) /\ AllLines(pieces) \in Seq(Line)
  BY <1>2, <1>5, AllTogether
<1>7. SUFFICES then \in Seq(ChunksOf(H)) /\ Sounds(then, p, src)
               /\ AllLines(then) = AllLines(merged) \o AllLines(pieces)
  <2>1. Kept(AllLines(merged) \o AllLines(pieces)) = Kept(AllLines(merged)) \o Kept(AllLines(pieces))
    BY <1>6, KeptTogether
  <2> QED BY <1>2, <1>7, <2>1, Zenon DEF Grows
<1>8. CASE ComesAfter(merged, h, pieces, then)
  <2> DEFINE cs == [i \in 1..Len(pieces) |-> Alone(h, pieces[i])]
  <2>1. DOMAIN pieces = 1..Len(pieces)
    BY <1>2
  <2>2. then = merged \o cs
    BY <1>8, <2>1, Zenon DEF ComesAfter
  <2>3. Standing(cs, h, pieces, H)
    BY <1>1, <1>2, StandingIs
  <2> HIDE DEF cs
  <2>4. cs \in Seq(ChunksOf(H)) /\ AllLines(cs) = AllLines(pieces) /\ Len(cs) = Len(pieces)
    BY <2>3 DEF Standing
  <2>5. Sounds(cs, p, src)
    <3>1. ASSUME NEW i \in 1..Len(pieces) PROVE Sound(cs[i], p, src)
      BY <1>3, <2>3, AloneSound DEF Standing, h
    <3> QED BY <2>4, <3>1 DEF Sounds
  <2>6. then \in Seq(ChunksOf(H)) /\ AllLines(then) = AllLines(merged) \o AllLines(cs)
    BY <1>5, <2>2, <2>4, AllTogether, GoesOnIs
  <2>7. Sounds(then, p, src)
    BY <2>2, <2>4, <2>5, SoundsTogether
  <2> QED BY <2>4, <2>6, <2>7
<1>9. CASE Joins(merged, h, pieces, p, then)
  <2> DEFINE ta == Tail(pieces)
             he == Head(pieces)
             la == Last(merged)
             fr == Front(merged)
             j == Joined(la, h, he)
             cs == [i \in 1..Len(ta) |-> Alone(h, ta[i])]
  <2>1. /\ fr \in Seq(ChunksOf(H)) /\ la \in ChunksOf(H) /\ merged = fr \o <<la>> /\ Len(fr) = Len(merged) - 1
    BY <1>9, Ends DEF Joins
  <2>2. he \in Text /\ ta \in Seq(Text) /\ pieces = <<he>> \o ta /\ Len(ta) = Len(pieces) - 1
    BY <1>2, <1>9, Ends DEF Joins
  <2>3. then = (fr \o <<j>>) \o cs /\ TextTokens(la) + TextTokens(he) <= p.max
    BY <1>9, Zenon DEF Joins
  <2>4. Standing(cs, h, ta, H)
    BY <1>1, <2>2, StandingIs
  <2>5. j \in ChunksOf(H) /\ j.lines = la.lines \o he.lines
    BY <1>1, <2>1, <2>2, JoinedIsChunk
  <2>6. Len(merged) \in Nat /\ Len(merged) >= 1 /\ Len(pieces) \in Nat /\ Len(pieces) >= 1
    BY <1>2, <1>9 DEF Joins
  <2>7. he = pieces[1] /\ \A i \in 1..Len(ta) : ta[i] = pieces[i + 1]
    BY <1>2, <1>9 DEF Joins
  <2>8. la = merged[Len(merged)] /\ \A i \in 1..Len(fr) : fr[i] = merged[i]
    <3>1. GoesOn(merged, fr, <<la>>)
      <4>1. <<la>> \in Seq(ChunksOf(H))
        BY <2>1
      <4> HIDE DEF la, fr
      <4> QED BY <2>1, <4>1, GoesOnIs
    <3> QED BY <3>1 DEF GoesOn, Last
  <2>9. Sound(j, p, src)
    <3>1. Named(la, src)
      BY <2>6, <2>8 DEF Sounds, Sound
    <3>2. Within(he, section)
      BY <1>3, <2>6, <2>7
    <3> QED BY <2>1, <2>2, <2>3, <3>1, <3>2, JoinedSound DEF h
  <2> HIDE DEF ta, he, la, fr, j, cs
  <2>10. cs \in Seq(ChunksOf(H)) /\ AllLines(cs) = AllLines(ta) /\ Len(cs) = Len(ta)
    BY <2>4 DEF Standing
  <2>11. Sounds(cs, p, src)
    <3>1. ASSUME NEW i \in 1..Len(ta) PROVE Sound(cs[i], p, src)
      <4>1. i + 1 \in 1..Len(pieces)
        BY <2>2, <2>6
      <4>2. cs[i] = Alone(h, pieces[i + 1])
        BY <2>4, <2>7 DEF Standing
      <4> QED BY <1>3, <4>1, <4>2, AloneSound DEF h
    <3> QED BY <2>10, <3>1 DEF Sounds
  <2>12. Sounds(fr, p, src)
    <3>1. \A i \in 1..Len(fr) : i \in 1..Len(merged)
      BY <2>1, <2>6
    <3> QED BY <2>8, <3>1 DEF Sounds
  <2>13. <<j>> \in Seq(ChunksOf(H)) /\ Sounds(<<j>>, p, src) /\ AllLines(<<j>>) = j.lines
    <3>1. <<j>> \in Seq(ChunksOf(H)) /\ Len(<<j>>) = 1 /\ <<j>>[1] = j
      BY <2>5
    <3>2. j.lines \in Seq(Line)
      BY <2>5 DEF ChunksOf
    <3>3. Sounds(<<j>>, p, src)
      BY <2>9, <3>1 DEF Sounds
    <3> QED BY <3>1, <3>2, <3>3, AllOne
  <2> DEFINE f1 == fr \o <<j>>
  <2>14. f1 \in Seq(ChunksOf(H)) /\ Sounds(f1, p, src) /\ AllLines(f1) = AllLines(fr) \o j.lines
         /\ AllLines(fr) \in Seq(Line)
    <3>1. f1 \in Seq(ChunksOf(H))
      BY <2>1, <2>13, GoesOnIs
    <3>2. Sounds(f1, p, src)
      BY <2>1, <2>12, <2>13, SoundsTogether
    <3>3. AllLines(f1) = AllLines(fr) \o j.lines /\ AllLines(fr) \in Seq(Line)
      BY <1>5, <2>1, <2>13, AllTogether
    <3> QED BY <3>1, <3>2, <3>3
  <2> HIDE DEF f1
  <2>15. then = f1 \o cs
    BY <2>3 DEF f1
  <2>16. then \in Seq(ChunksOf(H)) /\ Sounds(then, p, src) /\ AllLines(then) = AllLines(f1) \o AllLines(cs)
    <3>1. then \in Seq(ChunksOf(H))
      BY <2>10, <2>14, <2>15, GoesOnIs
    <3>2. Sounds(then, p, src)
      BY <2>10, <2>11, <2>14, <2>15, SoundsTogether
    <3>3. AllLines(then) = AllLines(f1) \o AllLines(cs)
      BY <1>5, <2>10, <2>14, <2>15, AllTogether
    <3> QED BY <3>1, <3>2, <3>3
  <2>17. AllLines(merged) = AllLines(fr) \o la.lines
    <3>1. <<la>> \in Seq(ChunksOf(H)) /\ la.lines \in Seq(Line)
      BY <2>1 DEF ChunksOf
    <3>2. AllLines(<<la>>) = la.lines
      BY <3>1, AllOne
    <3> QED BY <1>5, <2>1, <3>1, <3>2, AllTogether
  <2>18. AllLines(pieces) = he.lines \o AllLines(ta) /\ AllLines(ta) \in Seq(Line)
    <3>1. <<he>> \in Seq(Text) /\ he.lines \in Seq(Line)
      BY <2>2 DEF Text
    <3>2. AllLines(<<he>>) = he.lines
      BY <3>1, AllOne
    <3> QED BY <1>5, <2>2, <3>1, <3>2, AllTogether
  <2> DEFINE a == AllLines(fr)  b == la.lines  c == he.lines  d == AllLines(ta)
  <2>19. AllLines(then) = (a \o (b \o c)) \o d /\ AllLines(merged) = a \o b /\ AllLines(pieces) = c \o d
    BY <2>5, <2>10, <2>14, <2>16, <2>17, <2>18, Zenon
  <2>20. a \in Seq(Line) /\ b \in Seq(Line) /\ c \in Seq(Line) /\ d \in Seq(Line)
    BY <2>1, <2>2, <2>14, <2>18 DEF ChunksOf, Text
  <2> HIDE DEF a, b, c, d
  <2>21. (a \o (b \o c)) \o d = (a \o b) \o (c \o d)
    <3>1. Regroups(Line)
      BY Associate, Zenon
    <3>2. a \o b \in Seq(Line)
      BY <2>20, GoesOnIs
    <3>3. a \o (b \o c) = (a \o b) \o c
      BY <2>20, <3>1, Zenon DEF Regroups
    <3>4. ((a \o b) \o c) \o d = (a \o b) \o (c \o d)
      BY <2>20, <3>1, <3>2, Zenon DEF Regroups
    <3> QED BY <3>3, <3>4, Zenon
  <2> QED BY <2>16, <2>19, <2>21, Zenon
<1> QED BY <1>4, <1>8, <1>9

\* f holds the chunks after each section.
ChunksUpTo(f, d, p, H) ==
    /\ f \in [0..Len(d) -> Seq(ChunksOf(H))] /\ f[0] = <<>> /\ Chunks(d, p) = f[Len(d)]
    /\ \A n \in 1..Len(d) : f[n] = AddSection(f[n - 1], d[n], p)

LEMMA AddSectionIs ==
  ASSUME NEW H, NEW merged \in Seq(ChunksOf(H)), NEW section \in SectionsOf(H), NEW p \in Params
  PROVE  AddSection(merged, section, p) \in Seq(ChunksOf(H))
<1> DEFINE h == section.heading
           pieces == Split(section.lines, p)
           then == AddSection(merged, section, p)
<1>1. h \in H /\ section.lines \in Seq(Line)
  BY DEF SectionsOf
<1>2. pieces \in Seq(Text)
  BY <1>1, SplitIs
<1>3. Joins(merged, h, pieces, p, then) \/ ComesAfter(merged, h, pieces, then)
  BY AddSectionCases
<1> HIDE DEF h, pieces, then
<1>4. CASE ComesAfter(merged, h, pieces, then)
  <2> DEFINE cs == [i \in 1..Len(pieces) |-> Alone(h, pieces[i])]
  <2>1. DOMAIN pieces = 1..Len(pieces)
    BY <1>2
  <2>2. then = merged \o cs
    BY <1>4, <2>1, Zenon DEF ComesAfter
  <2>3. cs \in Seq(ChunksOf(H))
    BY <1>1, <1>2, StandingIs DEF Standing
  <2> HIDE DEF cs
  <2>4. then \in Seq(ChunksOf(H))
    BY <2>2, <2>3, GoesOnIs
  <2> QED BY <2>4 DEF then
<1>5. CASE Joins(merged, h, pieces, p, then)
  <2> DEFINE ta == Tail(pieces)
             j == Joined(Last(merged), h, Head(pieces))
             fr == Front(merged)
             cs == [i \in 1..Len(ta) |-> Alone(h, ta[i])]
  <2>1. fr \in Seq(ChunksOf(H)) /\ Last(merged) \in ChunksOf(H)
    BY <1>5, Ends DEF Joins
  <2>2. Head(pieces) \in Text /\ ta \in Seq(Text)
    BY <1>2, <1>5, Ends DEF Joins
  <2>3. then = (fr \o <<j>>) \o cs
    BY <1>5, Zenon DEF Joins
  <2>4. cs \in Seq(ChunksOf(H))
    BY <1>1, <2>2, StandingIs DEF Standing
  <2>5. j \in ChunksOf(H)
    BY <1>1, <2>1, <2>2, JoinedIsChunk
  <2> HIDE DEF ta, j, fr, cs
  <2>6. <<j>> \in Seq(ChunksOf(H))
    BY <2>5
  <2>7. fr \o <<j>> \in Seq(ChunksOf(H))
    BY <2>1, <2>6, GoesOnIs
  <2>8. then \in Seq(ChunksOf(H))
    BY <2>3, <2>4, <2>7, GoesOnIs
  <2> QED BY <2>8 DEF then
<1> QED BY <1>3, <1>4, <1>5

LEMMA ChunksTrail ==
  ASSUME NEW H, NEW d \in Seq(SectionsOf(H)), NEW p \in Params
  PROVE  \E f : ChunksUpTo(f, d, p, H)
<1> DEFINE len == Len(d)
           S == Seq(ChunksOf(H))
           next == [x \in (1..len) \X S |-> AddSection(x[2], d[x[1]], p)]
           Along(g) == g = [n \in 0..len |-> IF n = 0 THEN <<>> ELSE AddSection(g[n - 1], d[n], p)]
           G == CHOOSE g : Along(g)
<1>1. len \in Nat /\ \A n \in 1..len : d[n] \in SectionsOf(H)
  OBVIOUS
<1>3. Chunks(d, p) = G[len]
  BY Zenon DEF Chunks, Stepwise
<1>0. <<>> \in S
  OBVIOUS
<1>11. \A s \in S, n \in 1..len : AddSection(s, d[n], p) \in S
  BY <1>1, AddSectionIs
<1> HIDE DEF len, S
<1>2. next \in [(1..len) \X S -> S]
  BY <1>1, <1>11
<1>4. PICK f : Leads(f, S, <<>>, next, len)
  <2> HIDE DEF next
  <2> QED BY <1>0, <1>1, <1>2, Trail
<1>5. \A n \in 1..len : f[n] = AddSection(f[n - 1], d[n], p)
  <2> SUFFICES ASSUME NEW n \in 1..len
               PROVE  f[n] = AddSection(f[n - 1], d[n], p)
    OBVIOUS
  <2>1. n - 1 \in 0..len /\ f[n - 1] \in S
    BY <1>1, <1>4 DEF Leads
  <2>2. <<n, f[n - 1]>> \in (1..len) \X S /\ f[n] = next[<<n, f[n - 1]>>]
    BY <1>4, <2>1 DEF Leads
  <2> QED BY <2>1, <2>2, Zenon
<1> HIDE DEF next
<1>6. Along(f)
  BY <1>1, <1>4, <1>5 DEF Leads
<1>7. Along(G)
  BY <1>6, Zenon
<1> HIDE DEF G
<1>8. \A n \in 0..len : G[n] = f[n]
  <2>1. G[0] = f[0]
    BY <1>4, <1>7, <1>1 DEF Leads
  <2>2. \A n \in 1..len : G[n - 1] = f[n - 1] => G[n] = f[n]
    <3> SUFFICES ASSUME NEW n \in 1..len, G[n - 1] = f[n - 1] PROVE G[n] = f[n]
      OBVIOUS
    <3>1. n \in 0..len /\ n # 0
      BY <1>1
    <3>2. G[n] = AddSection(G[n - 1], d[n], p)
      BY <1>7, <3>1, Zenon
    <3> QED BY <1>5, <3>2, Zenon
  <2> DEFINE P == {n \in 0..len : G[n] = f[n]}
  <2>3. 0 \in P /\ \A n \in 1..len : n - 1 \in P => n \in P
    BY <1>1, <2>1, <2>2
  <2>4. \A n \in 0..len : n \in P
    <3> HIDE DEF P, Along
    <3> QED BY <1>1, <2>3, Upwards
  <2> QED BY <2>4
<1>9. G[len] = f[len]
  BY <1>1, <1>8
<1>10. f \in [0..len -> S] /\ f[0] = <<>>
  BY <1>4 DEF Leads
<1> QED BY <1>3, <1>5, <1>9, <1>10, Zenon DEF len, S, ChunksUpTo

\* What is so of the chunks of any document.
LEMMA DocumentChunks ==
  ASSUME NEW H, NEW d \in Seq(SectionsOf(H)), NEW p \in Params
  PROVE  /\ Chunks(d, p) \in Seq(ChunksOf(H)) /\ Sounds(Chunks(d, p), p, Range(d))
         /\ Kept(AllLines(Chunks(d, p))) = Kept(AllLines(d))
<1> DEFINE len == Len(d)
           g == [s \in SectionsOf(H) |-> s.lines]
           ls == Mapped(g, d)
<1>1. len \in Nat /\ \A n \in 1..len : d[n] \in SectionsOf(H) /\ d[n] \in Range(d)
  BY DEF Range
<1>2. PICK f : ChunksUpTo(f, d, p, H)
  BY ChunksTrail
<1>3. g \in [SectionsOf(H) -> Seq(Line)]
  BY DEF SectionsOf
<1>4. Maps(ls, g, d, Seq(Line)) /\ ls \in Seq(Seq(Line))
  <2> HIDE DEF g
  <2> QED BY <1>3, MappedIs
<1>5. Len(ls) = len /\ \A n \in 1..len : ls[n] = d[n].lines /\ ls[n] \in Seq(Line)
  <2> HIDE DEF ls
  <2>1. Len(ls) = len /\ \A n \in 1..len : ls[n] = g[d[n]]
    BY <1>4 DEF Maps
  <2> QED BY <1>1, <1>4, <2>1
<1>6. AllLines(d) = FlattenSeq(ls)
  <2>1. DOMAIN d = 1..len
    OBVIOUS
  <2>2. ls = [i \in DOMAIN d |-> d[i].lines]
    BY <1>1, <2>1 DEF Mapped
  <2> QED BY <2>2 DEF AllLines
<1> HIDE DEF ls, g
<1>7. PICK j : JoinsUpTo(j, ls, Line, len)
  BY <1>4, <1>5, JoinTrail
<1>8. /\ f \in [0..len -> Seq(ChunksOf(H))] /\ f[0] = <<>> /\ Chunks(d, p) = f[len]
      /\ \A n \in 1..len : f[n] = AddSection(f[n - 1], d[n], p)
  BY <1>2, Zenon DEF ChunksUpTo
<1> HIDE DEF len
<1>9. j \in [0..len -> Seq(Line)] /\ j[0] = <<>> /\ j[len] = AllLines(d)
  BY <1>6, <1>7 DEF JoinsUpTo
<1> DEFINE A(m) == Kept(AllLines(m))
           P == {n \in 0..len : A(f[n]) = Kept(j[n]) /\ Sounds(f[n], p, Range(d))}
<1>10. 0 \in P
  <2>1. A(f[0]) = Kept(j[0])
    BY <1>8, <1>9, AllNone
  <2>2. Sounds(f[0], p, Range(d))
    <3>1. Len(<<>>) = 0 /\ 1..0 = {}
      OBVIOUS
    <3> QED BY <1>8, <3>1 DEF Sounds
  <2>3. 0 \in 0..len
    BY <1>1
  <2> QED BY <2>1, <2>2, <2>3
<1>11. ASSUME NEW n \in 1..len, n - 1 \in P PROVE n \in P
  <2>1. n - 1 \in 0..len /\ n \in 0..len
    BY <1>1
  <2>2. f[n - 1] \in Seq(ChunksOf(H)) /\ f[n] = AddSection(f[n - 1], d[n], p) /\ j[n - 1] \in Seq(Line)
    BY <1>8, <1>9, <2>1
  <2>3. A(f[n - 1]) = Kept(j[n - 1]) /\ Sounds(f[n - 1], p, Range(d))
    BY <1>11
  <2>4. Sounds(f[n], p, Range(d)) /\ A(f[n]) = A(f[n - 1]) \o Kept(d[n].lines)
    <3> DEFINE merged == f[n - 1]  then == f[n]  section == d[n]  src == Range(d)
    <3>1. merged \in Seq(ChunksOf(H)) /\ section \in SectionsOf(H) /\ section \in src
      BY <1>1, <2>2 DEF len
    <3>2. Sounds(merged, p, src) /\ then = AddSection(merged, section, p)
      BY <2>2, <2>3
    <3> HIDE DEF merged, then, section, src
    <3>3. Sounds(then, p, src) /\ Grows(then, merged, section)
      BY <3>1, <3>2, SectionAdded
    <3> QED BY <3>3 DEF Grows, merged, then, section, src
  <2>5. j[n] = j[n - 1] \o d[n].lines /\ d[n].lines \in Seq(Line)
    BY <1>5, <1>7 DEF JoinsUpTo
  <2>6. Kept(j[n]) = Kept(j[n - 1]) \o Kept(d[n].lines)
    BY <2>2, <2>5, KeptTogether
  <2> HIDE DEF A
  <2> QED BY <2>1, <2>3, <2>4, <2>6
<1>12. \A n \in 0..len : n \in P
  <2> HIDE DEF P
  <2> QED BY <1>1, <1>10, <1>11, Upwards
<1>13. len \in 0..len
  BY <1>1
<1>14. A(f[len]) = Kept(j[len]) /\ Sounds(f[len], p, Range(d)) /\ f[len] \in Seq(ChunksOf(H))
  BY <1>8, <1>12, <1>13
<1> QED BY <1>8, <1>9, <1>14

\* No chunk of a document has more tokens than params.max, unless one block, with the
\* tail carried over to it, has: what _split may not cut is all that is too long.
THEOREM ChunksFitAnything ==
  ASSUME NEW H, NEW d \in Seq(SectionsOf(H)), NEW p \in Params
  PROVE  FitsIn(d, p, Chunks(d, p))
<1> DEFINE cs == Chunks(d, p)
<1>1. cs \in Seq(ChunksOf(H)) /\ Sounds(cs, p, Range(d))
  BY DocumentChunks
<1> HIDE DEF cs
<1>2. \A c \in Range(cs) : InBounds(c, p, Range(d))
  <2> DEFINE src == Range(d)
  <2> HIDE DEF src
  <2> SUFFICES ASSUME NEW c \in Range(cs) PROVE InBounds(c, p, src)
    BY DEF src
  <2>1. PICK i \in 1..Len(cs) : c = cs[i]
    BY <1>1 DEF Range
  <2>2. Sounds(cs, p, src)
    BY <1>1 DEF src
  <2> QED BY <2>1, <2>2 DEF Sounds, Sound
<1>3. FitsIn(d, p, cs)
  BY <1>2, Zenon DEF FitsIn, InBounds
<1> QED BY <1>3 DEF cs

-----------------------------------------------------------------------------
(* Chunking: code blocks                                                   *)

Distinct(s) == \A m, n \in 1..Len(s) : s[m] = s[n] => m = n

LEMMA TwoParts ==
  ASSUME NEW T, NEW x \in Seq(T), NEW y \in Seq(T), NEW z \in Seq(T), Distinct(x \o (y \o z))
  PROVE  Range(y) \cap Range(z) = {}
<1> DEFINE u == y \o z
           w == x \o u
<1>1. u \in Seq(T) /\ GoesOn(u, y, z)
  BY GoesOnIs
<1> HIDE DEF u
<1>2. w \in Seq(T) /\ GoesOn(w, x, u) /\ Distinct(w)
  BY <1>1, GoesOnIs DEF u
<1> HIDE DEF w
<1>3. Len(x) \in Nat /\ Len(y) \in Nat /\ Len(z) \in Nat /\ Len(u) = Len(y) + Len(z) /\ Len(w) = Len(x) + Len(u)
  BY <1>1, <1>2 DEF GoesOn
<1> SUFFICES ASSUME NEW a, a \in Range(y), a \in Range(z) PROVE FALSE
  OBVIOUS
<1>4. PICK i \in 1..Len(y) : a = y[i]
  BY DEF Range
<1>5. PICK k \in 1..Len(z) : a = z[k]
  BY DEF Range
<1>6. i \in 1..Len(u) /\ Len(y) + k \in 1..Len(u)
  BY <1>3
<1>7. u[i] = a /\ u[Len(y) + k] = a
  BY <1>1, <1>4, <1>5 DEF GoesOn
<1>8. w[Len(x) + i] = a /\ w[Len(x) + (Len(y) + k)] = a
  BY <1>2, <1>6, <1>7 DEF GoesOn
<1>9. Len(x) + i \in 1..Len(w) /\ Len(x) + (Len(y) + k) \in 1..Len(w)
  BY <1>3, <1>6
<1>10. Len(x) + i = Len(x) + (Len(y) + k)
  BY <1>2, <1>8, <1>9 DEF Distinct
<1> QED BY <1>3, <1>10

\* Where no line is twice, two parts have none in common.
LEMMA PartsDisjoint ==
  ASSUME NEW R, Parts(R), NEW a \in Seq(R), Distinct(Kept(AllLines(a))),
         NEW m \in 1..Len(a), NEW n \in 1..Len(a), m < n
  PROVE  Range(Kept(a[m].lines)) \cap Range(Kept(a[n].lines)) = {}
<1>1. PICK x, z : Among(a, m, R, x, z)
  BY PartAmong
<1> DEFINE kx == Kept(AllLines(x))  ky == Kept(a[m].lines)  kz == Kept(AllLines(z))
<1>2. a[m].lines \in Seq(Line) /\ AllLines(x) \in Seq(Line) /\ AllLines(z) \in Seq(Line)
      /\ x \in Seq(R) /\ z \in Seq(R)
  <2>1. a[m] \in R
    OBVIOUS
  <2>2. x \in Seq(R) /\ z \in Seq(R)
    BY <1>1 DEF Among
  <2> QED BY <2>1, <2>2, AllTogether DEF Parts
<1>3. kx \in Seq(Line) /\ ky \in Seq(Line) /\ kz \in Seq(Line)
  BY <1>2, KeptTogether
<1>4. Distinct(kx \o (ky \o kz))
  BY <1>1, Zenon DEF Among
<1> DEFINE S == Range(kz)
<1>5. kz \in Seq(S)
  <2> HIDE DEF kz
  <2> QED BY <1>3 DEF Range
<1>6. n - m \in 1..Len(z) /\ z[n - m] = a[n]
  <2>1. n - m \in 1..Len(a) - m /\ m + (n - m) = n /\ Len(z) = Len(a) - m
    BY <1>1 DEF Among
  <2>2. z[n - m] = a[m + (n - m)]
    BY <1>1, <2>1 DEF Among
  <2> QED BY <2>1, <2>2
<1>7. Kept(z[n - m].lines) \in Seq(S)
  <2> HIDE DEF S
  <2> QED BY <1>2, <1>5, <1>6, PartsWithin
<1>8. Range(Kept(a[n].lines)) \subseteq S
  <2> DEFINE k == Kept(a[n].lines)
  <2>1. k \in Seq(S)
    BY <1>6, <1>7
  <2> HIDE DEF k, S
  <2>2. Range(k) \subseteq S
    BY <2>1 DEF Range
  <2> QED BY <2>2 DEF k
<1> HIDE DEF kx, ky, kz
<1>9. Range(ky) \cap S = {}
  BY <1>3, <1>4, TwoParts
<1> QED BY <1>8, <1>9 DEF ky

Both(x, y, s) == x \in Range(s) /\ y \in Range(s)

\* What the lines of a sequence are, those of a longer one are.
LEMMA BothMore ==
  ASSUME NEW T, NEW s \in Seq(T), NEW t \in Seq(T), NEW x, NEW y
  PROVE  /\ Both(x, y, s) => Both(x, y, s \o t)
         /\ Both(x, y, t) => Both(x, y, s \o t)
<1>1. Range(s \o t) = Range(s) \cup Range(t)
  BY RangeConcatenation
<1> QED BY <1>1 DEF Both

FencesIn(lines, n) == {k \in 1..n : lines[k].kind = "fence"}
Odd(n) == n % 2 = 1

LEMMA OneFenceMore ==
  ASSUME NEW lines, NEW n \in Nat \ {0}
  PROVE  /\ Cardinality(FencesIn(lines, n)) \in Nat
         /\ Cardinality(FencesIn(lines, n)) = Cardinality(FencesIn(lines, n - 1))
                                               + (IF lines[n].kind = "fence" THEN 1 ELSE 0)
<1> DEFINE F == FencesIn(lines, n)  E == FencesIn(lines, n - 1)
<1>1. IsFiniteSet(E) /\ IsFiniteSet(F)
  <2>1. IsFiniteSet(1..n) /\ IsFiniteSet(1..n - 1)
    BY FS_Interval
  <2>2. E \subseteq 1..n - 1 /\ F \subseteq 1..n
    BY DEF FencesIn
  <2> QED BY <2>1, <2>2, FS_Subset
<1>2. F = IF lines[n].kind = "fence" THEN E \cup {n} ELSE E
  BY DEF FencesIn
<1>3. n \notin E
  BY DEF FencesIn
<1> HIDE DEF E, F
<1>4. Cardinality(E) \in Nat /\ Cardinality(F) \in Nat
  BY <1>1, FS_CardinalityType
<1>5. Cardinality(E \cup {n}) = Cardinality(E) + 1
  BY <1>1, <1>3, FS_AddElement
<1> QED BY <1>2, <1>4, <1>5 DEF E, F

LEMMA NoFence ==
  ASSUME NEW lines
  PROVE  Cardinality(FencesIn(lines, 0)) = 0
<1>1. FencesIn(lines, 0) = {}
  BY DEF FencesIn
<1> QED BY <1>1, FS_EmptySet

\* A code block is open after an odd number of fences.
LEMMA FenceParity ==
  ASSUME NEW lines \in Seq(Line), NEW f, BlocksUpTo(f, lines, Len(lines))
  PROVE  \A n \in 0..Len(lines) : f[n].fence <=> Odd(Cardinality(FencesIn(lines, n)))
<1> DEFINE len == Len(lines)
           C(n) == Cardinality(FencesIn(lines, n))
           P == {n \in 0..len : C(n) \in Nat /\ (f[n].fence <=> Odd(C(n)))}
<1>1. len \in Nat
  OBVIOUS
<1>2. f \in [0..len -> BlocksState] /\ f[0] = NoBlocks /\ \A n \in 1..len : f[n] = BlocksLine(f[n - 1], lines[n])
  BY DEF BlocksUpTo
<1> HIDE DEF len
<1>3. 0 \in P
  <2>1. C(0) = 0 /\ f[0].fence = FALSE
    BY <1>2, NoFence DEF NoBlocks
  <2> HIDE DEF C
  <2> QED BY <1>1, <2>1 DEF Odd
<1>4. ASSUME NEW n \in 1..len, n - 1 \in P PROVE n \in P
  <2>1. n \in Nat \ {0} /\ n - 1 \in 0..len /\ n \in 0..len
    BY <1>1
  <2>2. C(n) = C(n - 1) + (IF lines[n].kind = "fence" THEN 1 ELSE 0)
    BY <2>1, OneFenceMore
  <2>3. f[n].fence = (f[n - 1].fence # (lines[n].kind = "fence")) /\ f[n - 1].fence \in BOOLEAN
    <3>1. f[n] = BlocksLine(f[n - 1], lines[n]) /\ f[n - 1] \in BlocksState
      BY <1>2, <2>1
    <3> QED BY <3>1 DEF BlocksLine, BlocksState
  <2> DEFINE c == C(n - 1)
  <2>4. c \in Nat /\ (f[n - 1].fence <=> Odd(c))
    BY <1>4
  <2> HIDE DEF C, c
  <2>5. CASE lines[n].kind = "fence"
    <3>1. C(n) = c + 1 /\ (f[n].fence <=> ~f[n - 1].fence)
      BY <2>2, <2>3, <2>5 DEF c
    <3>2. Odd(c + 1) <=> ~Odd(c)
      BY <2>4 DEF Odd
    <3> QED BY <2>1, <2>4, <3>1, <3>2
  <2>6. CASE lines[n].kind # "fence"
    <3>1. C(n) = c /\ (f[n].fence <=> f[n - 1].fence)
      BY <2>2, <2>3, <2>4, <2>6 DEF c
    <3> QED BY <2>1, <2>4, <3>1
  <2> QED BY <2>5, <2>6
<1>5. \A n \in 0..len : n \in P
  <2> HIDE DEF P
  <2> QED BY <1>1, <1>3, <1>4, Upwards
<1> QED BY <1>5 DEF len

\* One of the sequences holds both, or the one that is still open does.
HeldIn(x, y, seqs) == \E i \in 1..Len(seqs) : Both(x, y, seqs[i])
BlocksHold(x, y, acc) == HeldIn(x, y, acc.blocks) \/ Both(x, y, acc.buf)

LEMMA AppendOne ==
  ASSUME NEW T, NEW s \in Seq(T), NEW e \in T
  PROVE  Append(s, e) = s \o <<e>> /\ <<e>> \in Seq(T)
OBVIOUS

\* In a code block each line is kept, and only a fence closes it.
LEMMA OpenLine ==
  ASSUME NEW acc \in BlocksState, acc.fence, NEW line \in Line, NEW then, then = BlocksLine(acc, line)
  PROVE  line.kind # "fence" => then.fence /\ then.buf = Append(acc.buf, line)
<1> SUFFICES ASSUME line.kind # "fence" PROVE then.fence /\ then.buf = Append(acc.buf, line)
  OBVIOUS
<1> DEFINE fence == acc.fence # (line.kind = "fence")
           flush == ~fence /\ line.kind \in {"blank", "item"} /\ acc.buf # <<>>
           buf == IF flush THEN <<>> ELSE acc.buf
<1>1. acc.fence = TRUE
  BY DEF BlocksState
<1>2. fence
  BY <1>1
<1>3. then.fence = fence /\ then.buf = IF line.kind # "blank" \/ fence THEN Append(buf, line) ELSE buf
  BY Zenon DEF BlocksLine
<1> HIDE DEF fence
<1>4. buf = acc.buf
  BY <1>2, Zenon
<1> HIDE DEF buf
<1>5. then.buf = Append(acc.buf, line)
  BY <1>2, <1>3, <1>4, Zenon
<1>6. then.fence
  BY <1>2, <1>3, Zenon
<1> QED BY <1>5, <1>6

LEMMA HeldInMore ==
  ASSUME NEW T, NEW seqs \in Seq(T), NEW s \in T, NEW x, NEW y
  PROVE  /\ HeldIn(x, y, seqs) => HeldIn(x, y, Append(seqs, s))
         /\ Both(x, y, s) => HeldIn(x, y, Append(seqs, s))
<1> DEFINE u == Append(seqs, s)
<1>1. /\ Len(seqs) \in Nat /\ Len(u) = Len(seqs) + 1 /\ u[Len(seqs) + 1] = s
      /\ \A i \in 1..Len(seqs) : u[i] = seqs[i]
  OBVIOUS
<1> HIDE DEF u
<1>2. HeldIn(x, y, seqs) => HeldIn(x, y, u)
  <2> SUFFICES ASSUME HeldIn(x, y, seqs) PROVE HeldIn(x, y, u)
    OBVIOUS
  <2>1. PICK i \in 1..Len(seqs) : Both(x, y, seqs[i])
    BY DEF HeldIn
  <2>2. i \in 1..Len(u) /\ u[i] = seqs[i]
    BY <1>1
  <2> QED BY <2>1, <2>2, Zenon DEF HeldIn
<1>3. Both(x, y, s) => HeldIn(x, y, u)
  <2>1. Len(seqs) + 1 \in 1..Len(u)
    BY <1>1
  <2> QED BY <1>1, <2>1, Zenon DEF HeldIn
<1> QED BY <1>2, <1>3 DEF u

LEMMA BlocksHoldOn ==
  ASSUME NEW acc \in BlocksState, NEW line \in Line, NEW x, NEW y, BlocksHold(x, y, acc),
         NEW then, then = BlocksLine(acc, line)
  PROVE  BlocksHold(x, y, then)
<1> DEFINE fence == acc.fence # (line.kind = "fence")
           flush == ~fence /\ line.kind \in {"blank", "item"} /\ acc.buf # <<>>
           buf == IF flush THEN <<>> ELSE acc.buf
<1>1. acc.buf \in Seq(Line) /\ acc.blocks \in Seq(Seq(Line))
  BY DEF BlocksState, Filled
<1>2. /\ then.blocks = IF flush THEN Append(acc.blocks, acc.buf) ELSE acc.blocks
      /\ then.buf = IF line.kind # "blank" \/ fence THEN Append(buf, line) ELSE buf
  BY Zenon DEF BlocksLine
<1>3. CASE flush
  <2>1. then.blocks = Append(acc.blocks, acc.buf)
    BY <1>2, <1>3, Zenon
  <2>2. HeldIn(x, y, then.blocks)
    BY <1>1, <2>1, HeldInMore DEF BlocksHold
  <2> QED BY <2>2 DEF BlocksHold
<1>4. CASE ~flush
  <2>1. then.blocks = acc.blocks /\ (then.buf = Append(acc.buf, line) \/ then.buf = acc.buf)
    BY <1>2, <1>4, Zenon
  <2>2. Append(acc.buf, line) = acc.buf \o <<line>> /\ <<line>> \in Seq(Line)
    BY <1>1, AppendOne
  <2>3. Both(x, y, acc.buf) => Both(x, y, then.buf)
    BY <1>1, <2>1, <2>2, BothMore
  <2> QED BY <2>1, <2>3 DEF BlocksHold
<1> QED BY <1>3, <1>4

\* The lines of a code block are in one block.
LEMMA CodeInBlock ==
  ASSUME NEW lines \in Seq(Line), NEW i \in DOMAIN lines, NEW j \in DOMAIN lines, CodeBlock(lines, i, j)
  PROVE  HeldIn(lines[i], lines[j], TextBlocks(lines))
<1> DEFINE len == Len(lines)  x == lines[i]  y == lines[j]
<1>1. len \in Nat /\ i \in 1..len /\ j \in 1..len /\ \A n \in 1..len : lines[n] \in Line
  OBVIOUS
<1>2. PICK f : BlocksUpTo(f, lines, len)
  BY BlocksTrail
<1>3. /\ f \in [0..len -> BlocksState] /\ TextBlocks(lines) = EndBlocks(f[len])
      /\ \A n \in 1..len : f[n] = BlocksLine(f[n - 1], lines[n])
  BY <1>2, Zenon DEF BlocksUpTo
<1>4. /\ i < j /\ lines[i].kind = "fence" /\ lines[j].kind = "fence"
      /\ Odd(Cardinality(FencesIn(lines, i)))
      /\ \A k \in i + 1..j - 1 : lines[k].kind # "fence"
  BY Zenon DEF CodeBlock, FencesIn, Odd
<1>5. f[i].fence
  <2>1. \A n \in 0..len : f[n].fence <=> Odd(Cardinality(FencesIn(lines, n)))
    BY <1>2, FenceParity
  <2>2. i \in 0..len
    BY <1>1
  <2> QED BY <1>4, <2>1, <2>2
<1> HIDE DEF len
<1>6. \A n \in 1..len : f[n - 1] \in BlocksState /\ f[n] = BlocksLine(f[n - 1], lines[n]) /\ lines[n] \in Line
  BY <1>1, <1>3
<1>7. x \in Range(f[i].buf)
  <2>1. f[i] = BlocksLine(f[i - 1], lines[i]) /\ f[i - 1] \in BlocksState /\ lines[i] \in Line
    BY <1>1, <1>6
  <2> DEFINE acc == f[i - 1]
  <2>2. acc.buf \in Seq(Line)
    BY <2>1 DEF BlocksState
  <2>3. f[i].buf = Append(acc.buf, x)
    BY <1>4, <2>1 DEF BlocksLine
  <2> HIDE DEF acc
  <2>4. x \in Line
    BY <1>1
  <2>5. Append(acc.buf, x)[Len(acc.buf) + 1] = x /\ Len(acc.buf) + 1 \in DOMAIN Append(acc.buf, x)
    BY <2>2, <2>4
  <2> HIDE DEF x
  <2> QED BY <2>3, <2>5 DEF Range
\* From the fence that opens the code block to the one that closes it, the buffer grows.
<1> DEFINE P == {n \in 0..j - 1 : n >= i => f[n].fence /\ x \in Range(f[n].buf)}
<1>8. j - 1 \in P
  <2>1. 0 \in P
    BY <1>1
  <2>2. ASSUME NEW n \in 1..j - 1, n - 1 \in P PROVE n \in P
    <3>1. CASE n < i
      BY <1>1, <3>1
    <3>2. CASE n = i
      BY <1>1, <1>5, <1>7, <3>2
    <3>3. CASE n > i
      <4>1. n - 1 >= i /\ n \in i + 1..j - 1 /\ n \in 1..len
        BY <1>1, <3>3
      <4>2. f[n - 1].fence /\ x \in Range(f[n - 1].buf) /\ lines[n].kind # "fence"
        BY <1>4, <2>2, <4>1
      <4> DEFINE acc == f[n - 1]  line == lines[n]
      <4>3. acc \in BlocksState /\ f[n] = BlocksLine(acc, line) /\ line \in Line
        BY <1>6, <4>1
      <4>4. f[n].fence /\ f[n].buf = Append(acc.buf, line)
        <5>1. acc.fence /\ line.kind # "fence"
          BY <4>2
        <5> HIDE DEF acc, line
        <5> QED BY <4>3, <5>1, OpenLine
      <4> HIDE DEF acc, line
      <4>5. acc.buf \in Seq(Line)
        BY <4>3 DEF BlocksState
      <4>6. Append(acc.buf, line) = acc.buf \o <<line>> /\ <<line>> \in Seq(Line)
        BY <4>3, <4>5
      <4>7. Both(x, x, f[n].buf)
        <5>1. Both(x, x, acc.buf)
          BY <4>2 DEF Both, acc
        <5> HIDE DEF x
        <5> QED BY <4>4, <4>5, <4>6, <5>1, BothMore
      <4>8. f[n].fence /\ x \in Range(f[n].buf) /\ n \in 0..j - 1
        <5>1. n \in 0..j - 1
          BY <1>1
        <5> HIDE DEF x
        <5> QED BY <4>4, <4>7, <5>1, Zenon DEF Both
      <4> HIDE DEF x
      <4> QED BY <4>8, Zenon
    <3> QED BY <1>1, <3>1, <3>2, <3>3
  <2>3. j - 1 \in Nat /\ j - 1 \in 0..j - 1
    BY <1>1
  <2> HIDE DEF P
  <2>4. \A n \in 0..j - 1 : n \in P
    BY <2>1, <2>2, <2>3, Upwards
  <2> QED BY <2>3, <2>4
<1>9. BlocksHold(x, y, f[j])
  <2> DEFINE acc == f[j - 1]
  <2>1. acc.fence /\ x \in Range(acc.buf)
    BY <1>1, <1>4, <1>8
  <2>2. acc \in BlocksState /\ f[j] = BlocksLine(acc, y) /\ y \in Line /\ y.kind = "fence"
    BY <1>1, <1>4, <1>6
  <2> HIDE DEF acc, x, y
  <2>3. f[j].buf = Append(acc.buf, y) /\ acc.buf \in Seq(Line)
    BY <2>2 DEF BlocksLine, BlocksState
  <2>4. Append(acc.buf, y) = acc.buf \o <<y>> /\ <<y>> \in Seq(Line)
    BY <2>2, <2>3
  <2>5. Both(x, x, f[j].buf)
    BY <2>1, <2>3, <2>4, BothMore DEF Both
  <2>6. Both(y, y, <<y>>)
    <3>1. 1 \in DOMAIN <<y>> /\ <<y>>[1] = y
      OBVIOUS
    <3> QED BY <3>1 DEF Both, Range
  <2>7. Both(y, y, f[j].buf)
    BY <2>3, <2>4, <2>6, BothMore
  <2> QED BY <2>5, <2>7 DEF Both, BlocksHold
\* What one of the blocks holds stays in it.
<1> DEFINE Q == {n \in 0..len : n >= j => BlocksHold(x, y, f[n])}
<1>10. len \in Q
  <2>1. 0 \in Q
    BY <1>1
  <2>2. ASSUME NEW n \in 1..len, n - 1 \in Q PROVE n \in Q
    <3>1. CASE n < j
      BY <1>1, <3>1
    <3>2. CASE n = j
      BY <1>1, <1>9, <3>2
    <3>3. CASE n > j
      <4>1. n - 1 >= j /\ n \in 0..len
        BY <1>1, <3>3
      <4>2. BlocksHold(x, y, f[n - 1])
        BY <2>2, <4>1
      <4> HIDE DEF x, y
      <4>3. BlocksHold(x, y, f[n])
        BY <1>6, <4>2, BlocksHoldOn
      <4> QED BY <4>1, <4>3
    <3> QED BY <1>1, <3>1, <3>2, <3>3
  <2> HIDE DEF Q
  <2>3. \A n \in 0..len : n \in Q
    BY <1>1, <2>1, <2>2, Upwards
  <2>4. len \in 0..len
    BY <1>1
  <2> QED BY <2>3, <2>4
<1> DEFINE end == f[len]
<1>11. BlocksHold(x, y, end) /\ end \in BlocksState
  <2>1. len >= j /\ len \in 0..len
    BY <1>1
  <2> QED BY <1>3, <1>10, <2>1
<1>12. TextBlocks(lines) = EndBlocks(end)
  BY <1>3
<1> HIDE DEF end, x, y
<1>13. end.buf \in Seq(Line) /\ end.blocks \in Seq(Seq(Line))
  BY <1>11 DEF BlocksState, Filled
<1>14. CASE end.buf # <<>>
  <2>1. TextBlocks(lines) = Append(end.blocks, end.buf)
    BY <1>12, <1>14 DEF EndBlocks
  <2> QED BY <1>11, <1>13, <2>1, HeldInMore DEF BlocksHold, x, y
<1>15. CASE end.buf = <<>>
  <2>1. TextBlocks(lines) = end.blocks
    BY <1>12, <1>15 DEF EndBlocks
  <2>2. ~Both(x, y, end.buf)
    BY <1>15 DEF Both, Range
  <2> QED BY <1>11, <2>1, <2>2 DEF BlocksHold, x, y
<1> QED BY <1>14, <1>15

\* One of the parts holds both.
PartsHold(x, y, parts) == \E i \in 1..Len(parts) : Both(x, y, parts[i].lines)

LEMMA PartsHoldTogether ==
  ASSUME NEW R, NEW a \in Seq(R), NEW b \in Seq(R), NEW x, NEW y
  PROVE  PartsHold(x, y, a \o b) <=> PartsHold(x, y, a) \/ PartsHold(x, y, b)
<1> DEFINE u == a \o b
<1>1. u \in Seq(R) /\ GoesOn(u, a, b)
  BY GoesOnIs
<1> HIDE DEF u
<1>2. Len(a) \in Nat /\ Len(b) \in Nat /\ Len(u) = Len(a) + Len(b)
  BY <1>1 DEF GoesOn
<1>3. ASSUME PartsHold(x, y, a) PROVE PartsHold(x, y, u)
  <2>1. PICK i \in 1..Len(a) : Both(x, y, a[i].lines)
    BY <1>3 DEF PartsHold
  <2>2. i \in 1..Len(u) /\ u[i] = a[i]
    BY <1>1, <1>2 DEF GoesOn
  <2>3. Both(x, y, u[i].lines)
    BY <2>1, <2>2
  <2> QED BY <2>2, <2>3, Zenon DEF PartsHold
<1>4. ASSUME PartsHold(x, y, b) PROVE PartsHold(x, y, u)
  <2>1. PICK i \in 1..Len(b) : Both(x, y, b[i].lines)
    BY <1>4 DEF PartsHold
  <2>2. Len(a) + i \in 1..Len(u) /\ u[Len(a) + i] = b[i]
    BY <1>1, <1>2 DEF GoesOn
  <2>3. Both(x, y, u[Len(a) + i].lines)
    BY <2>1, <2>2
  <2> QED BY <2>2, <2>3, Zenon DEF PartsHold
<1>5. ASSUME PartsHold(x, y, u) PROVE PartsHold(x, y, a) \/ PartsHold(x, y, b)
  <2>1. PICK i \in 1..Len(u) : Both(x, y, u[i].lines)
    BY <1>5 DEF PartsHold
  <2>2. CASE i <= Len(a)
    <3>1. i \in 1..Len(a) /\ u[i] = a[i]
      BY <1>1, <1>2, <2>2 DEF GoesOn
    <3>2. Both(x, y, a[i].lines)
      BY <2>1, <3>1
    <3> QED BY <3>1, <3>2, Zenon DEF PartsHold
  <2>3. CASE ~(i <= Len(a))
    <3>1. i - Len(a) \in 1..Len(b) /\ Len(a) + (i - Len(a)) = i
      BY <1>2, <2>3
    <3>2. u[Len(a) + (i - Len(a))] = b[i - Len(a)]
      BY <1>1, <3>1 DEF GoesOn
    <3>3. Both(x, y, b[i - Len(a)].lines)
      BY <2>1, <3>1, <3>2
    <3> QED BY <3>1, <3>3, Zenon DEF PartsHold
  <2> QED BY <2>2, <2>3
<1> QED BY <1>3, <1>4, <1>5 DEF u

LEMMA OneHolds ==
  ASSUME NEW r, NEW x, NEW y
  PROVE  PartsHold(x, y, <<r>>) <=> Both(x, y, r.lines)
<1>1. Len(<<r>>) = 1 /\ <<r>>[1] = r /\ 1..1 = {1}
  OBVIOUS
<1> DEFINE one == <<r>>
<1>2. Len(one) = 1 /\ one[1] = r
  BY <1>1
<1> HIDE DEF one
<1>3. PartsHold(x, y, one) <=> Both(x, y, r.lines)
  BY <1>1, <1>2 DEF PartsHold
<1> QED BY <1>3 DEF one

LEMMA PartsHoldMore ==
  ASSUME NEW R, NEW a \in Seq(R), NEW r \in R, NEW x, NEW y
  PROVE  PartsHold(x, y, Append(a, r)) <=> PartsHold(x, y, a) \/ Both(x, y, r.lines)
<1>1. Append(a, r) = a \o <<r>> /\ <<r>> \in Seq(R)
  BY AppendOne
<1>2. PartsHold(x, y, a \o <<r>>) <=> PartsHold(x, y, a) \/ PartsHold(x, y, <<r>>)
  BY <1>1, PartsHoldTogether
<1>3. PartsHold(x, y, <<r>>) <=> Both(x, y, r.lines)
  BY OneHolds
<1> QED BY <1>1, <1>2, <1>3, Zenon

\* What a block holds, what was cut so far holds after it.
SplitHold(x, y, acc) == PartsHold(x, y, acc.pieces) \/ Both(x, y, acc.buf.lines)

LEMMA SplitBlockHolds ==
  ASSUME NEW acc \in SplitState, NEW block \in Filled, NEW p \in Params, NEW x, NEW y,
         SplitHold(x, y, acc) \/ Both(x, y, block), NEW then, then = SplitBlock(acc, block, p)
  PROVE  SplitHold(x, y, then)
<1>1. Begun(acc, block, p, then) \/ Extended(acc, block, p, then)
  BY SplitBlockCases
<1>2. acc.buf \in Text /\ acc.pieces \in Seq(Text) /\ block \in Seq(Line) /\ acc.buf.lines \in Seq(Line)
  BY DEF SplitState, Text, Filled
<1>3. CASE Begun(acc, block, p, then)
  <2>1. then.pieces = Append(acc.pieces, acc.buf) /\ then.buf.lines = block
    BY <1>3 DEF Begun
  <2>2. PartsHold(x, y, Append(acc.pieces, acc.buf)) <=> PartsHold(x, y, acc.pieces) \/ Both(x, y, acc.buf.lines)
    BY <1>2, PartsHoldMore
  <2>3. PartsHold(x, y, then.pieces) <=> PartsHold(x, y, acc.pieces) \/ Both(x, y, acc.buf.lines)
    BY <2>1, <2>2, Zenon
  <2> QED BY <2>1, <2>3 DEF SplitHold
<1>4. CASE Extended(acc, block, p, then)
  <2>1. then.pieces = acc.pieces /\ then.buf.lines = acc.buf.lines \o block
    BY <1>4 DEF Extended
  <2>2. Both(x, y, acc.buf.lines) \/ Both(x, y, block) => Both(x, y, then.buf.lines)
    BY <1>2, <2>1, BothMore
  <2> QED BY <2>1, <2>2 DEF SplitHold
<1> QED BY <1>1, <1>3, <1>4

LEMMA SplitHolds ==
  ASSUME NEW lines \in Seq(Line), NEW p \in Params, NEW x, NEW y,
         Both(x, y, lines), HeldIn(x, y, TextBlocks(lines))
  PROVE  PartsHold(x, y, Split(lines, p))
<1> DEFINE blocks == TextBlocks(lines)
           len == Len(blocks)
           whole == Uncut(lines)
           cut == Split(lines, p)
<1>1. blocks \in Seq(Filled)
  BY BlocksKeep
<1> HIDE DEF blocks, cut
<1>2. len \in Nat /\ \A n \in 1..len : blocks[n] \in Filled
  BY <1>1
<1>3. PICK f : SplitUpTo(f, lines, p, blocks)
  BY SplitTrail DEF blocks
<1>4. PICK k \in 1..len : Both(x, y, blocks[k])
  BY DEF HeldIn, blocks
<1>5. CASE TextTokens(whole) <= p.max
  <2>1. cut = <<whole>> /\ whole.lines = lines
    BY <1>3, <1>5 DEF SplitUpTo, Uncut, cut
  <2> HIDE DEF whole
  <2>2. PartsHold(x, y, <<whole>>)
    BY <2>1, OneHolds
  <2> QED BY <2>1, <2>2 DEF cut
<1>6. CASE ~(TextTokens(whole) <= p.max)
  <2>1. f \in [0..len -> SplitState] /\ cut = EndPieces(f[len])
    BY <1>3, <1>6, Zenon DEF SplitUpTo, cut
  <2>2. \A n \in 1..len : f[n] = SplitBlock(f[n - 1], blocks[n], p)
    BY <1>3 DEF SplitUpTo
  <2> HIDE DEF len
  <2>3. \A n \in 1..len : f[n] = SplitBlock(f[n - 1], blocks[n], p) /\ f[n - 1] \in SplitState
                          /\ blocks[n] \in Filled
    BY <1>2, <2>1, <2>2
  <2> DEFINE Q == {n \in 0..len : n >= k => SplitHold(x, y, f[n])}
  <2>4. 0 \in Q
    BY <1>2
  <2>5. ASSUME NEW n \in 1..len, n - 1 \in Q PROVE n \in Q
    <3>1. CASE n < k
      BY <1>2, <3>1
    <3>2. CASE n >= k
      <4>1. SplitHold(x, y, f[n - 1]) \/ Both(x, y, blocks[n])
        <5>1. CASE n = k
          BY <1>4, <5>1
        <5>2. CASE n # k
          <6>1. n - 1 >= k
            BY <1>2, <3>2, <5>2
          <6> QED BY <2>5, <6>1
        <5> QED BY <5>1, <5>2
      <4>2. SplitHold(x, y, f[n])
        BY <2>3, <4>1, SplitBlockHolds
      <4>3. n \in 0..len
        BY <1>2
      <4> QED BY <4>2, <4>3
    <3> QED BY <1>2, <3>1, <3>2
  <2>6. \A n \in 0..len : n \in Q
    <3> HIDE DEF Q
    <3> QED BY <1>2, <2>4, <2>5, Upwards
  <2>7. len \in 0..len /\ len >= k
    BY <1>2
  <2> DEFINE end == f[len]
  <2>8. end \in SplitState /\ SplitHold(x, y, end) /\ cut = EndPieces(end)
    BY <2>1, <2>6, <2>7
  <2> HIDE DEF end
  <2>9. end.pieces \in Seq(Text) /\ end.buf \in Text
    BY <2>8 DEF SplitState
  <2>10. CASE end.buf.lines # <<>>
    <3>1. cut = Append(end.pieces, end.buf)
      BY <2>8, <2>10 DEF EndPieces
    <3>2. PartsHold(x, y, Append(end.pieces, end.buf))
            <=> PartsHold(x, y, end.pieces) \/ Both(x, y, end.buf.lines)
      BY <2>9, PartsHoldMore
    <3>3. PartsHold(x, y, cut)
      BY <2>8, <3>1, <3>2, Zenon DEF SplitHold
    <3> QED BY <3>3 DEF cut
  <2>11. CASE end.buf.lines = <<>>
    <3>1. cut = end.pieces
      BY <2>8, <2>11 DEF EndPieces
    <3>2. ~Both(x, y, end.buf.lines)
      BY <2>11 DEF Both, Range
    <3> QED BY <2>8, <3>1, <3>2 DEF SplitHold, cut
  <2> QED BY <2>10, <2>11
<1> QED BY <1>5, <1>6

LEMMA StandingHolds ==
  ASSUME NEW cs, NEW h, NEW pieces, NEW H, Standing(cs, h, pieces, H), NEW x, NEW y,
         PartsHold(x, y, pieces)
  PROVE  PartsHold(x, y, cs)
<1>1. PICK i \in 1..Len(pieces) : Both(x, y, pieces[i].lines)
  BY DEF PartsHold
<1>2. i \in 1..Len(cs) /\ cs[i].lines = pieces[i].lines
  <2>1. Len(cs) = Len(pieces) /\ cs[i] = Alone(h, pieces[i])
    BY Zenon DEF Standing
  <2> QED BY <2>1 DEF Alone
<1>3. Both(x, y, cs[i].lines)
  BY <1>1, <1>2
<1> QED BY <1>2, <1>3, Zenon DEF PartsHold

LEMMA AddSectionHolds ==
  ASSUME NEW H, NEW merged \in Seq(ChunksOf(H)), NEW section \in SectionsOf(H), NEW p \in Params,
         NEW x, NEW y, PartsHold(x, y, merged) \/ PartsHold(x, y, Split(section.lines, p)),
         NEW then, then = AddSection(merged, section, p)
  PROVE  PartsHold(x, y, then)
<1> DEFINE h == section.heading
           pieces == Split(section.lines, p)
<1>1. h \in H /\ section.lines \in Seq(Line)
  BY DEF SectionsOf
<1>2. pieces \in Seq(Text)
  BY <1>1, SplitIs
<1>3. Joins(merged, h, pieces, p, then) \/ ComesAfter(merged, h, pieces, then)
  BY AddSectionCases
<1>0. PartsHold(x, y, merged) \/ PartsHold(x, y, pieces)
  OBVIOUS
<1> HIDE DEF h, pieces
<1>4. CASE ComesAfter(merged, h, pieces, then)
  <2> DEFINE cs == [i \in 1..Len(pieces) |-> Alone(h, pieces[i])]
  <2>1. DOMAIN pieces = 1..Len(pieces)
    BY <1>2
  <2>2. then = merged \o cs
    BY <1>4, <2>1, Zenon DEF ComesAfter
  <2>3. Standing(cs, h, pieces, H)
    BY <1>1, <1>2, StandingIs
  <2> HIDE DEF cs
  <2>4. cs \in Seq(ChunksOf(H))
    BY <2>3 DEF Standing
  <2>5. PartsHold(x, y, pieces) => PartsHold(x, y, cs)
    BY <2>3, StandingHolds
  <2> QED BY <1>0, <2>2, <2>4, <2>5, PartsHoldTogether
<1>5. CASE Joins(merged, h, pieces, p, then)
  <2> DEFINE ta == Tail(pieces)
             he == Head(pieces)
             la == Last(merged)
             fr == Front(merged)
             j == Joined(la, h, he)
             cs == [i \in 1..Len(ta) |-> Alone(h, ta[i])]
  <2>1. fr \in Seq(ChunksOf(H)) /\ la \in ChunksOf(H) /\ merged = fr \o <<la>>
    BY <1>5, Ends DEF Joins
  <2>2. he \in Text /\ ta \in Seq(Text) /\ pieces = <<he>> \o ta
    BY <1>2, <1>5, Ends DEF Joins
  <2>3. then = (fr \o <<j>>) \o cs
    BY <1>5, Zenon DEF Joins
  <2>4. Standing(cs, h, ta, H)
    BY <1>1, <2>2, StandingIs
  <2>5. j \in ChunksOf(H) /\ j.lines = la.lines \o he.lines
    BY <1>1, <2>1, <2>2, JoinedIsChunk
  <2> HIDE DEF ta, he, la, fr, j, cs
  <2>6. <<j>> \in Seq(ChunksOf(H)) /\ <<la>> \in Seq(ChunksOf(H)) /\ <<he>> \in Seq(Text)
        /\ cs \in Seq(ChunksOf(H)) /\ la.lines \in Seq(Line) /\ he.lines \in Seq(Line)
    BY <2>1, <2>2, <2>4, <2>5 DEF Standing, ChunksOf, Text
  <2>7. PartsHold(x, y, merged) => PartsHold(x, y, fr) \/ Both(x, y, la.lines)
    BY <2>1, <2>6, PartsHoldTogether, OneHolds
  <2>8. PartsHold(x, y, pieces) => Both(x, y, he.lines) \/ PartsHold(x, y, ta)
    BY <2>2, <2>6, PartsHoldTogether, OneHolds
  <2>9. Both(x, y, la.lines) \/ Both(x, y, he.lines) => PartsHold(x, y, <<j>>)
    BY <2>5, <2>6, BothMore, OneHolds
  <2>10. PartsHold(x, y, ta) => PartsHold(x, y, cs)
    BY <2>4, StandingHolds
  <2>11. PartsHold(x, y, fr) \/ PartsHold(x, y, <<j>>) <=> PartsHold(x, y, fr \o <<j>>)
    BY <2>1, <2>6, PartsHoldTogether
  <2>12. fr \o <<j>> \in Seq(ChunksOf(H))
    BY <2>1, <2>6, GoesOnIs
  <2>13. PartsHold(x, y, fr \o <<j>>) \/ PartsHold(x, y, cs) <=> PartsHold(x, y, then)
    <3> DEFINE f1 == fr \o <<j>>
    <3>1. f1 \in Seq(ChunksOf(H)) /\ then = f1 \o cs
      BY <2>3, <2>12
    <3> HIDE DEF f1
    <3>2. PartsHold(x, y, f1 \o cs) <=> PartsHold(x, y, f1) \/ PartsHold(x, y, cs)
      BY <2>6, <3>1, PartsHoldTogether
    <3> QED BY <3>1, <3>2, Zenon DEF f1
  <2> QED BY <1>0, <2>7, <2>8, <2>9, <2>10, <2>11, <2>13
<1> QED BY <1>3, <1>4, <1>5

LEMMA PartsMeet ==
  ASSUME NEW R, Parts(R), NEW a \in Seq(R), Distinct(Kept(AllLines(a))), NEW s \in Range(a), NEW t \in Range(a),
         Range(Kept(s.lines)) \cap Range(Kept(t.lines)) # {}
  PROVE  s = t
<1>1. PICK m \in 1..Len(a) : s = a[m]
  BY DEF Range
<1>2. PICK n \in 1..Len(a) : t = a[n]
  BY DEF Range
<1>3. m < n \/ n < m \/ m = n
  OBVIOUS
<1>4. CASE m < n
  <2>1. Range(Kept(a[m].lines)) \cap Range(Kept(a[n].lines)) = {}
    BY <1>4, PartsDisjoint
  <2> QED BY <1>1, <1>2, <2>1
<1>5. CASE n < m
  <2>1. Range(Kept(a[n].lines)) \cap Range(Kept(a[m].lines)) = {}
    BY <1>5, PartsDisjoint
  <2> QED BY <1>1, <1>2, <2>1
<1> QED BY <1>1, <1>2, <1>3, <1>4, <1>5

\* What a section holds the chunks hold together.
LEMMA CodeInChunk ==
  ASSUME NEW H, NEW d \in Seq(SectionsOf(H)), NEW p \in Params, NEW s \in Range(d),
         NEW i \in DOMAIN s.lines, NEW j \in DOMAIN s.lines, CodeBlock(s.lines, i, j)
  PROVE  PartsHold(s.lines[i], s.lines[j], Chunks(d, p))
<1> DEFINE len == Len(d)  x == s.lines[i]  y == s.lines[j]
<1>1. len \in Nat /\ \A n \in 1..len : d[n] \in SectionsOf(H)
  OBVIOUS
<1>2. PICK m \in 1..len : s = d[m]
  BY DEF Range
<1>3. s.lines \in Seq(Line)
  BY <1>1, <1>2 DEF SectionsOf
<1>4. Both(x, y, s.lines)
  BY DEF Both, Range
<1>5. HeldIn(x, y, TextBlocks(s.lines))
  BY <1>3, CodeInBlock
<1> HIDE DEF x, y
<1>6. PartsHold(x, y, Split(d[m].lines, p))
  BY <1>2, <1>3, <1>4, <1>5, SplitHolds
<1>7. PICK f : ChunksUpTo(f, d, p, H)
  BY ChunksTrail
<1>8. /\ f \in [0..len -> Seq(ChunksOf(H))] /\ Chunks(d, p) = f[len]
      /\ \A n \in 1..len : f[n] = AddSection(f[n - 1], d[n], p)
  BY <1>7, Zenon DEF ChunksUpTo
<1> HIDE DEF len
<1> DEFINE Q == {n \in 0..len : n >= m => PartsHold(x, y, f[n])}
<1>9. 0 \in Q
  BY <1>1
<1>10. ASSUME NEW n \in 1..len, n - 1 \in Q PROVE n \in Q
  <2>1. CASE n < m
    BY <1>1, <2>1
  <2>2. CASE n >= m
    <3>1. n - 1 \in 0..len /\ n \in 0..len
      BY <1>1
    <3> DEFINE merged == f[n - 1]  section == d[n]  then == f[n]
    <3>2. merged \in Seq(ChunksOf(H)) /\ section \in SectionsOf(H) /\ then = AddSection(merged, section, p)
      BY <1>1, <1>8, <3>1
    <3>3. PartsHold(x, y, merged) \/ PartsHold(x, y, Split(section.lines, p))
      <4>1. CASE n = m
        BY <1>6, <4>1
      <4>2. CASE n # m
        <5>1. n - 1 >= m
          BY <1>1, <2>2, <4>2
        <5> QED BY <1>10, <5>1
      <4> QED BY <4>1, <4>2
    <3> HIDE DEF merged, section, then
    <3>4. PartsHold(x, y, then)
      BY <3>2, <3>3, AddSectionHolds
    <3> QED BY <3>1, <3>4 DEF then
  <2> QED BY <1>1, <2>1, <2>2
<1>11. \A n \in 0..len : n \in Q
  <2> HIDE DEF Q
  <2> QED BY <1>1, <1>9, <1>10, Upwards
<1>12. len \in 0..len /\ len >= m
  BY <1>1
<1>13. PartsHold(x, y, f[len])
  BY <1>11, <1>12
<1> QED BY <1>8, <1>13 DEF x, y

LEMMA MiddleRange ==
  ASSUME NEW T, NEW x \in Seq(T), NEW y \in Seq(T), NEW z \in Seq(T)
  PROVE  Range(y) \subseteq Range(x \o (y \o z))
<1> DEFINE u == y \o z
<1>1. u \in Seq(T) /\ Range(u) = Range(y) \cup Range(z)
  BY RangeConcatenation, GoesOnIs
<1> HIDE DEF u
<1>2. Range(x \o u) = Range(x) \cup Range(u)
  BY <1>1, RangeConcatenation
<1> QED BY <1>1, <1>2 DEF u

\* A fence line is kept, and what is kept was there.
LEMMA FenceKept ==
  ASSUME NEW lines \in Seq(Line), NEW x, x.kind = "fence", x \in Range(lines)
  PROVE  x \in Range(Kept(lines))
<1>1. PICK i \in 1..Len(lines) : x = lines[i]
  BY DEF Range
<1>2. PICK a, b : CutAt(lines, i, Line, a, b)
  BY CutIs
<1>3. x \in Line /\ <<x>> \in Seq(Line) /\ a \in Seq(Line) /\ b \in Seq(Line)
  BY <1>1, <1>2 DEF CutAt
<1>4. lines = a \o (<<x>> \o b)
  BY <1>1, <1>2, Zenon DEF CutAt
<1>5. <<x>> \o b \in Seq(Line)
  BY <1>3, GoesOnIs
<1>6. Kept(<<x>>) = <<x>>
  BY <1>3, KeptOne
<1> DEFINE ka == Kept(a)  kb == Kept(b)  u == <<x>> \o b
<1>7. ka \in Seq(Line) /\ kb \in Seq(Line) /\ Kept(u) = Kept(<<x>>) \o kb
  BY <1>3, KeptTogether
<1>8. Kept(lines) = ka \o (<<x>> \o kb)
  <2>1. Kept(a \o u) = ka \o Kept(u)
    BY <1>3, <1>5, KeptTogether
  <2> QED BY <1>4, <1>6, <1>7, <2>1, Zenon
<1> HIDE DEF ka, kb
<1> DEFINE one == <<x>>
<1>9. one \in Seq(Line) /\ Kept(lines) = ka \o (one \o kb)
  BY <1>3, <1>8
<1> HIDE DEF one
<1>10. Range(one) \subseteq Range(Kept(lines))
  BY <1>7, <1>9, MiddleRange
<1>11. x \in Range(<<x>>)
  <2>1. 1 \in DOMAIN <<x>> /\ <<x>>[1] = x
    OBVIOUS
  <2> QED BY <2>1 DEF Range
<1> QED BY <1>10, <1>11 DEF one

\* Nothing of a document is lost, doubled or put out of order by chunk and _split,
\* and each chunk names the sections its lines are of: for any sections and any sizes
\* that ChunkParams allows.  Lines are told apart by their numbers, hence Distinct.
THEOREM NoLineLost ==
  ASSUME NEW H, NEW d \in Seq(SectionsOf(H)), NEW p \in Params, Distinct(Kept(AllLines(d)))
  PROVE  WholeIn(d, Chunks(d, p))
<1> DEFINE cs == Chunks(d, p)
<1>1. cs \in Seq(ChunksOf(H)) /\ Sounds(cs, p, Range(d)) /\ Kept(AllLines(cs)) = Kept(AllLines(d))
  BY DocumentChunks
<1>2. Parts(SectionsOf(H))
  BY DEF Parts, SectionsOf
<1> HIDE DEF cs
<1>3. ASSUME NEW c \in Range(cs), NEW s \in Range(d), Range(Kept(c.lines)) \cap Range(Kept(s.lines)) # {}
      PROVE  Contains(c.headings, s.heading)
  <2>1. PICK line : line \in Range(Kept(c.lines)) /\ line \in Range(Kept(s.lines))
    BY <1>3
  <2>2. PICK i \in 1..Len(cs) : c = cs[i]
    BY <1>1 DEF Range
  <2>3. Named(c, Range(d))
    BY <1>1, <2>2 DEF Sounds, Sound
  <2>4. PICK t \in Range(d) : line \in Range(Kept(t.lines)) /\ Contains(c.headings, t.heading)
    BY <2>1, <2>3 DEF Named
  <2>5. Range(Kept(s.lines)) \cap Range(Kept(t.lines)) # {}
    BY <2>1, <2>4
  <2>6. s = t
    BY <1>2, <2>5, PartsMeet
  <2> QED BY <2>4, <2>6
<1>4. WholeIn(d, cs)
  BY <1>1, <1>3, Zenon DEF WholeIn
<1> QED BY <1>4 DEF cs

\* "Code blocks are never cut in half" (chunking.py:6), whatever _blocks, _split and
\* chunk make of a document: the chunk that has the fence that opens a code block has
\* the one that closes it.
THEOREM CodeNeverCut ==
  ASSUME NEW H, NEW d \in Seq(SectionsOf(H)), NEW p \in Params, Distinct(Kept(AllLines(d)))
  PROVE  UncutIn(d, Chunks(d, p))
<1> DEFINE cs == Chunks(d, p)
<1>1. cs \in Seq(ChunksOf(H)) /\ Kept(AllLines(cs)) = Kept(AllLines(d))
  BY DocumentChunks
<1>2. Parts(ChunksOf(H))
  BY DEF Parts, ChunksOf
<1> HIDE DEF cs
<1>3. ASSUME NEW s \in Range(d), NEW c \in Range(cs), NEW i \in DOMAIN s.lines, NEW j \in DOMAIN s.lines,
             CodeBlock(s.lines, i, j)
      PROVE  s.lines[i] \in Range(c.lines) <=> s.lines[j] \in Range(c.lines)
  <2> DEFINE x == s.lines[i]  y == s.lines[j]
  <2>1. PICK k \in 1..Len(cs) : Both(x, y, cs[k].lines)
    BY <1>3, CodeInChunk DEF PartsHold, cs
  <2>2. x.kind = "fence" /\ y.kind = "fence"
    BY <1>3 DEF CodeBlock
  <2> HIDE DEF x, y
  <2> DEFINE b == cs[k]
  <2>3. b \in Range(cs) /\ b \in ChunksOf(H) /\ c \in ChunksOf(H)
    BY <1>1 DEF Range
  <2> HIDE DEF b
  <2>4. b.lines \in Seq(Line) /\ c.lines \in Seq(Line) /\ x \in Range(b.lines) /\ y \in Range(b.lines)
    BY <2>1, <2>3 DEF ChunksOf, Both, b
  <2>5. x \in Range(Kept(b.lines)) /\ y \in Range(Kept(b.lines))
    BY <2>2, <2>4, FenceKept
  <2>6. ASSUME NEW z \in {x, y}, z \in Range(c.lines) PROVE b = c
    <3>1. z \in Range(Kept(c.lines))
      BY <2>2, <2>4, <2>6, FenceKept
    <3>2. Range(Kept(b.lines)) \cap Range(Kept(c.lines)) # {}
      BY <2>5, <3>1
    <3> QED BY <1>1, <1>2, <2>3, <3>2, PartsMeet
  <2>7. x \in Range(c.lines) <=> y \in Range(c.lines)
    BY <2>4, <2>6
  <2> QED BY <2>7 DEF x, y
<1>4. UncutIn(d, cs)
  BY <1>3, Zenon DEF UncutIn
<1> QED BY <1>4 DEF cs

=============================================================================
