------------------------- MODULE InvestigationProofs -------------------------
(***************************************************************************)
(* Proofs about Investigation, for any number of investigators, steps,     *)
(* rewrites and attempts, and any budget; and about the Transcript of an   *)
(* agent, for any number of turns and actions.                             *)
(***************************************************************************)
EXTENDS Investigation, Transcript, SequenceTheorems, FiniteSetTheorems,
        WellFoundedInduction, TLAPS

-----------------------------------------------------------------------------
(* The inductive invariant                                                 *)

RunStatuses == {"none", "running", "done", "failed"}
Places == {"idle", "loop", "asked", "final", "error", "done", "failed"}
AtWork == {"loop", "asked", "final", "error"}
Phases == {"claimed", "plan", "investigate", "synthesize", "conclude", "ended"}
AgentRow == [at: Places, steps: Nat, rewrites: Nat,
             is: {"-", "some", "none", "budget", "retry", "failed"}]
AttemptRow == [phase: Phases, done: SUBSET Agents, outcome: {"-", "diagnosed", "escalate"},
               agent: [Agents -> AgentRow]]
JobRow == [status: {"queued", "leased", "done", "dead"}, attempt: 0..MaxAttempts]

TypeOK ==
    /\ runs \in [Agents -> RunStatuses]
    /\ board \in [Agents -> Seq(Finals)]
    /\ tokens \in Nat
    /\ job \in JobRow /\ (job.status = "queued" => job.attempt < MaxAttempts)
    /\ state \in {"TRIAGED", "INVESTIGATING", "DIAGNOSED", "ESCALATED"}
    /\ attempts \in [Attempt -> AttemptRow]

\* The agents at work are those of the phase.
InPhase(p) == \A a \in Agents : p.agent[a].at \in AtWork => a \in AgentsOf(p.phase)

\* What an attempt holds for done is done, and what it has of it is on the board.
KnowsDone(p) ==
    /\ \A a \in p.done : runs[a] = "done"
    /\ \A a \in Agents : p.agent[a].at = "done" => runs[a] = "done" /\ board[a] = <<p.agent[a].is>>
    /\ \A a \in Agents : p.agent[a].at = "final" => p.agent[a].is \in Finals

\* The owner of the job knows of every run that is done: nobody else finishes one.
OwnerKnows(t) ==
    LET p == attempts[t] IN
    OwnsJob(t) =>
        \A a \in Agents : runs[a] = "done" =>
            /\ p.agent[a].at \notin AtWork
            /\ p.phase \in {"plan", "investigate", "synthesize"} /\ p.agent[a].at = "idle" => a \in p.done

\* A synthesis has findings, and a diagnosis what it rests on.
Supported ==
    /\ board[Synthesizer] = <<"some">>
    /\ \E a \in Investigators : board[a] = <<"some">>
Rests(p) ==
    /\ p.phase = "synthesize" => Findings # {}
    /\ p.outcome = "diagnosed" => Supported

AttemptOK(t) ==
    InPhase(attempts[t]) /\ KnowsDone(attempts[t]) /\ OwnerKnows(t) /\ Rests(attempts[t])

InvestigationInv ==
    /\ TypeOK /\ EntriesOnce /\ DiagnosisSupported /\ Overshoot
    /\ \A t \in Attempt : AttemptOK(t)

-----------------------------------------------------------------------------
(* Types                                                                   *)

LEMMA AgentNames ==
    /\ Investigators \subseteq Agents /\ Coordinator \in Agents /\ Synthesizer \in Agents
    /\ Coordinator \notin Investigators /\ Synthesizer \notin Investigators
    /\ Coordinator # Synthesizer
    /\ AgentsOf("plan") = {Coordinator} /\ AgentsOf("investigate") = Investigators
    /\ AgentsOf("synthesize") = {Synthesizer}
    /\ \A phase : AgentsOf(phase) \subseteq Agents
  BY InvestigationConstants DEF Agents, Coordinator, Synthesizer, AgentsOf

LEMMA AgentRows ==
    /\ NotStarted \in AgentRow /\ NotStarted.at = "idle"
    /\ \A where \in Places, is \in {"-", "some", "none", "budget", "retry", "failed"} :
          Out(where, is) \in AgentRow /\ Out(where, is).at = where /\ Out(where, is).is = is
    /\ [NotStarted EXCEPT !.at = "loop"] \in AgentRow /\ [NotStarted EXCEPT !.at = "loop"].at = "loop"
<1>1. NotStarted \in AgentRow /\ NotStarted.at = "idle"
  BY DEF NotStarted, AgentRow, Places
<1>2. ASSUME NEW where \in Places, NEW is \in {"-", "some", "none", "budget", "retry", "failed"}
      PROVE  Out(where, is) \in AgentRow /\ Out(where, is).at = where /\ Out(where, is).is = is
  <2> DEFINE g == [NotStarted EXCEPT !.at = where]
  <2>1. g \in AgentRow /\ g.at = where
    BY <1>1 DEF AgentRow
  <2>2. Out(where, is) = [g EXCEPT !.is = is]
    BY DEF Out
  <2> HIDE DEF g
  <2> QED BY <2>1, <2>2 DEF AgentRow
<1>3. [NotStarted EXCEPT !.at = "loop"] \in AgentRow /\ [NotStarted EXCEPT !.at = "loop"].at = "loop"
  BY DEF NotStarted, AgentRow, Places
<1> QED BY <1>1, <1>2, <1>3

LEMMA AttemptRows ==
    ASSUME TypeOK, NEW t \in Attempt
    PROVE  /\ attempts[t] \in AttemptRow
           /\ attempts[t].phase \in Phases /\ attempts[t].done \subseteq Agents
           /\ attempts[t].agent \in [Agents -> AgentRow]
           /\ \A a \in Agents : attempts[t].agent[a] \in AgentRow /\ attempts[t].agent[a].at \in Places
  BY DEF TypeOK, AttemptRow, AgentRow

LEMMA FreshRows ==
    /\ Fresh \in AttemptRow /\ Fresh.phase = "claimed" /\ Fresh.done = {} /\ Fresh.outcome = "-"
    /\ \A a \in Agents : Fresh.agent[a].at = "idle"
    /\ Ended \in AttemptRow /\ Ended.phase = "ended" /\ Ended.done = {} /\ Ended.outcome = "-"
    /\ \A a \in Agents : Ended.agent[a].at = "idle"
<1>1. Fresh \in AttemptRow /\ Fresh.agent = [a \in Agents |-> NotStarted]
  BY AgentRows DEF Fresh, AttemptRow, Phases
<1>2. Ended \in AttemptRow /\ Ended.agent = Fresh.agent /\ Ended.phase = "ended"
      /\ Ended.done = {} /\ Ended.outcome = "-"
  BY <1>1 DEF Ended, Fresh, AttemptRow, Phases
<1> QED BY <1>1, <1>2, AgentRows DEF Fresh

LEMMA BoardOf ==
    ASSUME TypeOK, EntriesOnce, NEW a \in Agents
    PROVE  /\ runs[a] = "done" => board[a] = <<Head(board[a])>> /\ Head(board[a]) \in Finals
           /\ runs[a] # "done" => board[a] = <<>>
           /\ board[a] # <<>> => runs[a] = "done"
<1>1. board[a] \in Seq(Finals) /\ Len(board[a]) = IF runs[a] = "done" THEN 1 ELSE 0
  BY DEF TypeOK, EntriesOnce
<1>2. CASE runs[a] = "done"
  <2>1. board[a] # <<>> /\ Len(board[a]) = 1
    <3>1. Len(board[a]) = 1
      BY <1>1, <1>2
    <3> QED BY <3>1, EmptySeq
  <2>2. Head(board[a]) \in Finals
    BY <1>1, <2>1, HeadTailProperties
  <2>3. Head(board[a]) = board[a][1]
    OBVIOUS
  <2> DEFINE one == <<Head(board[a])>>
  <2>4. one \in Seq(Finals) /\ Len(one) = 1 /\ one[1] = Head(board[a])
    BY <2>2
  <2> HIDE DEF one
  <2>5. \A i \in 1..Len(board[a]) : board[a][i] = one[i]
    BY <2>1, <2>3, <2>4
  <2>6. board[a] = one
    BY <1>1, <2>1, <2>4, <2>5, SeqEqual
  <2> QED BY <1>2, <2>2, <2>6 DEF one
<1>3. CASE runs[a] # "done"
  BY <1>1, <1>3, EmptySeq
<1> QED BY <1>2, <1>3

-----------------------------------------------------------------------------
(* The agents in flight                                                    *)

LEMMA Finite ==
    /\ IsFiniteSet(Investigators) /\ Cardinality(Investigators) \in Nat \ {0}
    /\ IsFiniteSet(Attempt) /\ Cardinality(Attempt) = MaxAttempts
    /\ IsFiniteSet(Attempt \X Agents)
    /\ IsFiniteSet(Attempt \X Investigators)
    /\ Cardinality(Attempt \X Investigators) = MaxAttempts * Cardinality(Investigators)
<1>1. IsFiniteSet(Investigators) /\ Cardinality(Investigators) \in Nat
      /\ Cardinality(Investigators) # 0
  BY InvestigationConstants, FS_CardinalityType, FS_EmptySet
<1>2. IsFiniteSet(Attempt) /\ Cardinality(Attempt) = MaxAttempts
  <2>1. MaxAttempts \in Nat \ {0} /\ 1 \in Int /\ MaxAttempts \in Int
    BY InvestigationConstants
  <2> QED BY <2>1, FS_Interval DEF Attempt
<1>3. IsFiniteSet(Agents)
  <2>1. IsFiniteSet({Coordinator, Synthesizer})
    <3>1. {Coordinator, Synthesizer} = {Coordinator} \cup {Synthesizer}
      OBVIOUS
    <3>2. IsFiniteSet({Coordinator}) /\ IsFiniteSet({Synthesizer})
      BY FS_Singleton
    <3> QED BY <3>1, <3>2, FS_Union
  <2> QED BY <1>1, <2>1, FS_Union DEF Agents
<1> QED BY <1>1, <1>2, <1>3, FS_Product

LEMMA InFlightFinite == IsFiniteSet(InFlight) /\ Cardinality(InFlight) \in Nat
<1>1. InFlight \in SUBSET (Attempt \X Agents)
  BY DEF InFlight
<1> QED BY <1>1, Finite, FS_Subset, FS_CardinalityType

\* At most one step for each investigator of each attempt is under way: in the other
\* phases one agent is alone.
LEMMA InFlightBound ==
    ASSUME NEW phase \in [Attempt -> Phases], NEW S \in SUBSET (Attempt \X Agents),
           \A c \in S : c[2] \in AgentsOf(phase[c[1]])
    PROVE  /\ IsFiniteSet(S) /\ Cardinality(S) \in Nat
           /\ Cardinality(S) <= MaxAttempts * Cardinality(Investigators)
<1>1. PICK one : one \in Investigators
  BY InvestigationConstants
<1> DEFINE seat == [c \in S |-> <<c[1], IF c[2] \in Investigators THEN c[2] ELSE one>>]
<1>2. seat \in [S -> Attempt \X Investigators]
  BY <1>1
<1>3. ASSUME NEW c \in S, NEW d \in S, seat[c] = seat[d] PROVE c = d
  <2>1. PICK t \in Attempt, a \in Agents : c = <<t, a>>
    OBVIOUS
  <2>2. PICK u \in Attempt, b \in Agents : d = <<u, b>>
    OBVIOUS
  <2>3. t = u
    BY <1>3, <2>1, <2>2
  <2>4. a \in AgentsOf(phase[t]) /\ b \in AgentsOf(phase[t])
    BY <2>1, <2>2, <2>3
  <2>5. CASE phase[t] = "investigate"
    <3>1. a \in Investigators /\ b \in Investigators
      BY <2>4, <2>5 DEF AgentsOf
    <3> QED BY <1>3, <2>1, <2>2, <2>3, <3>1
  <2>6. CASE phase[t] # "investigate"
    <3>1. a = b
      BY <2>4, <2>6 DEF AgentsOf
    <3> QED BY <2>1, <2>2, <2>3, <3>1
  <2> QED BY <2>5, <2>6
<1>4. seat \in Injection(S, Attempt \X Investigators)
  <2>1. DOMAIN seat = S
    OBVIOUS
  <2> HIDE DEF seat
  <2> QED BY <1>2, <1>3, <2>1 DEF Injection, IsInjective
<1>5. IsFiniteSet(S) /\ Cardinality(S) <= Cardinality(Attempt \X Investigators)
  BY <1>4, Finite, FS_Injection
<1> QED BY <1>5, Finite, FS_CardinalityType

\* The overshoot that is allowed.
LEMMA Numbers ==
    /\ StepTokens \in Nat \ {0} /\ Budget \in Nat
    /\ MaxAttempts * Cardinality(Investigators) \in Nat
    /\ StepTokens * MaxAttempts * Cardinality(Investigators)
         = StepTokens * (MaxAttempts * Cardinality(Investigators))
    /\ StepTokens * (MaxAttempts * Cardinality(Investigators)) \in Nat
<1> DEFINE k == Cardinality(Investigators)
<1>1. k \in Nat /\ MaxAttempts \in Nat /\ StepTokens \in Nat \ {0} /\ Budget \in Nat
  BY Finite, InvestigationConstants
<1> HIDE DEF k
<1>2. MaxAttempts * k \in Nat
  BY <1>1
<1>3. StepTokens * MaxAttempts * k = StepTokens * (MaxAttempts * k)
  BY <1>1
<1>4. StepTokens * (MaxAttempts * k) \in Nat
  BY <1>1, <1>2
<1> QED BY <1>1, <1>2, <1>3, <1>4 DEF k

LEMMA Scaled ==
    ASSUME NEW k \in Nat, NEW m \in Nat, NEW n \in Nat, m <= n
    PROVE  k * m <= k * n /\ k * m \in Nat /\ k * n \in Nat
  OBVIOUS

\* No step more, and no token.
LEMMA FewerInFlight ==
    ASSUME Overshoot, TypeOK, tokens' = tokens, InFlight' \subseteq InFlight
    PROVE  Overshoot'
<1> DEFINE n == Cardinality(InFlight)  m == Cardinality(InFlight')
           limit == StepTokens * MaxAttempts * Cardinality(Investigators)
<1>1. m <= n /\ m \in Nat /\ n \in Nat
  BY InFlightFinite, FS_Subset, FS_CardinalityType
<1>2. StepTokens \in Nat /\ tokens \in Nat /\ Budget \in Nat /\ limit \in Nat
  BY Numbers DEF TypeOK
<1>3. tokens + StepTokens * n < Budget + limit
  BY DEF Overshoot
<1> HIDE DEF n, m, limit
<1>4. StepTokens * m <= StepTokens * n /\ StepTokens * m \in Nat /\ StepTokens * n \in Nat
  BY <1>1, <1>2, Scaled
<1>5. tokens' + StepTokens * m < Budget + limit
  BY <1>2, <1>3, <1>4
<1> QED BY <1>5 DEF Overshoot, m, limit

\* An answer: its tokens are counted when its step is no longer under way.
LEMMA OneAnswered ==
    ASSUME Overshoot, TypeOK, tokens' = tokens + StepTokens, NEW c \in InFlight,
           InFlight' \subseteq InFlight \ {c}
    PROVE  Overshoot'
<1> DEFINE n == Cardinality(InFlight)  m == Cardinality(InFlight')
           limit == StepTokens * MaxAttempts * Cardinality(Investigators)
<1>1. m <= n - 1 /\ m \in Nat /\ n \in Nat
  <2>1. IsFiniteSet(InFlight \ {c}) /\ Cardinality(InFlight \ {c}) = n - 1 /\ n \in Nat
    BY InFlightFinite, FS_RemoveElement
  <2>2. IsFiniteSet(InFlight') /\ m <= Cardinality(InFlight \ {c})
    BY <2>1, FS_Subset
  <2> QED BY <2>1, <2>2, FS_CardinalityType
<1>2. StepTokens \in Nat /\ tokens \in Nat /\ Budget \in Nat /\ limit \in Nat
  BY Numbers DEF TypeOK
<1>3. tokens + StepTokens * n < Budget + limit
  BY DEF Overshoot
<1> HIDE DEF n, m, limit
<1>4. StepTokens * (m + 1) <= StepTokens * n /\ StepTokens * n \in Nat
  BY <1>1, <1>2, Scaled
<1>5. StepTokens * (m + 1) = StepTokens * m + StepTokens /\ StepTokens * m \in Nat
  BY <1>1, <1>2
<1>6. tokens' + StepTokens * m < Budget + limit
  BY <1>2, <1>3, <1>4, <1>5
<1> QED BY <1>6 DEF Overshoot, m, limit

\* A step begins only while there is budget left.
LEMMA OneAsked ==
    ASSUME tokens \in Nat, tokens < Budget, tokens' = tokens,
           attempts' \in [Attempt -> AttemptRow], \A t \in Attempt : InPhase(attempts'[t])
    PROVE  Overshoot'
<1> DEFINE phase == [t \in Attempt |-> attempts'[t].phase]
           m == Cardinality(InFlight')
           limit == StepTokens * MaxAttempts * Cardinality(Investigators)
           seats == MaxAttempts * Cardinality(Investigators)
<1>1. phase \in [Attempt -> Phases]
  BY DEF AttemptRow
<1>2. InFlight' \in SUBSET (Attempt \X Agents)
  BY DEF InFlight
<1>3. \A c \in InFlight' : c[2] \in AgentsOf(phase[c[1]])
  BY DEF InFlight, InPhase, AtWork
<1> HIDE DEF phase
<1>4. m \in Nat /\ m <= seats
  BY <1>1, <1>2, <1>3, InFlightBound
<1>5. StepTokens \in Nat /\ Budget \in Nat /\ seats \in Nat /\ limit = StepTokens * seats
  BY Numbers
<1> HIDE DEF m, limit, seats
<1>6. StepTokens * m <= StepTokens * seats /\ StepTokens * m \in Nat /\ StepTokens * seats \in Nat
  BY <1>4, <1>5, Scaled
<1>7. tokens' + StepTokens * m < Budget + limit
  BY <1>5, <1>6
<1> QED BY <1>7 DEF Overshoot, m, limit

-----------------------------------------------------------------------------
(* What is done stays done                                                 *)

DoneStays == \A a \in Agents : runs[a] = "done" => runs'[a] = "done" /\ board'[a] = board[a]

LEMMA SupportedStays ==
    ASSUME TypeOK, EntriesOnce, DoneStays
    PROVE  /\ Supported => Supported'
           /\ Findings # {} => Findings' # {}
<1>1. ASSUME NEW a \in Agents, board[a] # <<>>
      PROVE  board'[a] = board[a]
  BY <1>1, BoardOf DEF DoneStays
<1>2. ASSUME Supported PROVE Supported'
  <2>1. <<"some">> # <<>>
    OBVIOUS
  <2>2. board'[Synthesizer] = <<"some">>
    BY <1>1, <1>2, <2>1, AgentNames DEF Supported
  <2>3. PICK a \in Investigators : board[a] = <<"some">>
    BY <1>2 DEF Supported
  <2>4. board'[a] = <<"some">>
    BY <1>1, <2>1, <2>3, AgentNames
  <2> QED BY <2>2, <2>4 DEF Supported
<1>3. ASSUME Findings # {} PROVE Findings' # {}
  <2>1. PICK a \in Investigators : board[a] # <<>> /\ Head(board[a]) = "some"
    BY <1>3 DEF Findings
  <2>2. board'[a] = board[a]
    BY <1>1, <2>1, AgentNames
  <2>3. a \in Findings'
    BY <2>1, <2>2 DEF Findings
  <2> QED BY <2>3
<1> QED BY <1>2, <1>3

\* An attempt that does not move, and whose job the others do not finish for it.
LEMMA OtherAttempt ==
    ASSUME TypeOK, EntriesOnce, DoneStays, NEW t \in Attempt, AttemptOK(t),
           attempts'[t] = attempts[t],
           OwnsJob(t)' => OwnsJob(t) /\ \A a \in Agents : runs'[a] = "done" => runs[a] = "done"
    PROVE  AttemptOK(t)'
<1>1. InPhase(attempts[t])'
  BY DEF AttemptOK, InPhase
<1>2. KnowsDone(attempts[t])'
  BY AttemptRows DEF AttemptOK, KnowsDone, DoneStays
<1>3. OwnerKnows(t)'
  BY DEF AttemptOK, OwnerKnows
<1>4. Rests(attempts[t])'
  BY SupportedStays DEF AttemptOK, Rests
<1> QED BY <1>1, <1>2, <1>3, <1>4 DEF AttemptOK

\* An attempt none of whose agents has begun.
LEMMA QuietAttempt ==
    ASSUME NEW t \in Attempt,
           attempts'[t].phase \in {"claimed", "conclude", "ended"}, attempts'[t].done = {},
           \A a \in Agents : attempts'[t].agent[a].at = "idle",
           attempts'[t].outcome = "diagnosed" => Supported'
    PROVE  AttemptOK(t)'
<1>1. InPhase(attempts[t])'
  BY DEF InPhase, AtWork
<1>2. KnowsDone(attempts[t])'
  BY DEF KnowsDone
<1>3. OwnerKnows(t)'
  BY DEF OwnerKnows, AtWork
<1>4. Rests(attempts[t])'
  BY DEF Rests
<1> QED BY <1>1, <1>2, <1>3, <1>4 DEF AttemptOK

LEMMA SetRows ==
    ASSUME TypeOK, NEW t \in Attempt, NEW a \in Agents, NEW rec \in AgentRow,
           attempts' = Set(t, a, rec)
    PROVE  /\ attempts' \in [Attempt -> AttemptRow]
           /\ \A u \in Attempt \ {t} : attempts'[u] = attempts[u]
           /\ attempts'[t].phase = attempts[t].phase
           /\ attempts'[t].done = attempts[t].done
           /\ attempts'[t].outcome = attempts[t].outcome
           /\ attempts'[t].agent[a] = rec
           /\ \A b \in Agents \ {a} : attempts'[t].agent[b] = attempts[t].agent[b]
<1> DEFINE row == [attempts[t] EXCEPT !.agent[a] = rec]
<1>1. attempts[t] \in AttemptRow /\ attempts \in [Attempt -> AttemptRow]
  BY DEF TypeOK
<1>2. /\ row \in AttemptRow /\ row.phase = attempts[t].phase /\ row.done = attempts[t].done
      /\ row.outcome = attempts[t].outcome
      /\ row.agent = [attempts[t].agent EXCEPT ![a] = rec]
  BY <1>1 DEF AttemptRow
<1>3. attempts' = [attempts EXCEPT ![t] = row]
  BY DEF Set
<1>4. attempts[t].agent \in [Agents -> AgentRow]
  BY <1>1 DEF AttemptRow
<1>5. row.agent[a] = rec /\ \A b \in Agents \ {a} : row.agent[b] = attempts[t].agent[b]
  BY <1>2, <1>4
<1> HIDE DEF row
<1>6. attempts'[t] = row /\ attempts' \in [Attempt -> AttemptRow]
      /\ \A u \in Attempt \ {t} : attempts'[u] = attempts[u]
  BY <1>1, <1>2, <1>3
<1> QED BY <1>2, <1>5, <1>6

\* One agent of one attempt moves; only the owner's own run may become done.
LEMMA AgentMoves ==
    ASSUME InvestigationInv, DoneStays, NEW t \in Attempt, NEW a \in Agents, NEW rec \in AgentRow,
           attempts' = Set(t, a, rec), job' = job, state' = state,
           rec.at # "idle",
           rec.at \in AtWork => a \in AgentsOf(attempts[t].phase),
           rec.at = "done" => runs'[a] = "done" /\ board'[a] = <<rec.is>>,
           rec.at = "final" => rec.is \in Finals,
           OwnsJob(t) /\ rec.at \in AtWork => runs'[a] # "done",
           \A b \in Agents : runs'[b] = "done" /\ runs[b] # "done" => OwnsJob(t) /\ b = a
    PROVE  DiagnosisSupported' /\ \A u \in Attempt : AttemptOK(u)'
<1> USE DEF InvestigationInv
<1> DEFINE p == attempts[t]
<1>1. DiagnosisSupported'
  BY SupportedStays DEF DiagnosisSupported, Supported
<1>2. ASSUME NEW u \in Attempt, u # t PROVE AttemptOK(u)'
  <2>1. attempts'[u] = attempts[u]
    BY <1>2, SetRows
  <2>2. ASSUME OwnsJob(u)'
        PROVE  OwnsJob(u) /\ \A b \in Agents : runs'[b] = "done" => runs[b] = "done"
    BY <1>2, <2>2 DEF OwnsJob
  <2> QED BY <2>1, <2>2, OtherAttempt
<1>3. AttemptOK(t)'
  <2>1. /\ attempts'[t].phase = p.phase /\ attempts'[t].done = p.done /\ attempts'[t].outcome = p.outcome /\ attempts'[t].agent[a] = rec
        /\ \A b \in Agents \ {a} : attempts'[t].agent[b] = p.agent[b]
    BY SetRows
  <2>2. InPhase(p) /\ KnowsDone(p) /\ OwnerKnows(t) /\ Rests(p) /\ p.done \subseteq Agents
    BY AttemptRows DEF AttemptOK
  <2>3. InPhase(p)'
    BY <2>1, <2>2 DEF InPhase
  <2>4. KnowsDone(p)'
    <3>1. \A b \in attempts'[t].done : runs'[b] = "done"
      BY <2>1, <2>2 DEF KnowsDone, DoneStays
    <3>2. ASSUME NEW b \in Agents, attempts'[t].agent[b].at = "done"
          PROVE  runs'[b] = "done" /\ board'[b] = <<attempts'[t].agent[b].is>>
      BY <2>1, <2>2, <3>2 DEF KnowsDone, DoneStays
    <3>3. ASSUME NEW b \in Agents, attempts'[t].agent[b].at = "final"
          PROVE  attempts'[t].agent[b].is \in Finals
      BY <2>1, <2>2, <3>3 DEF KnowsDone
    <3> QED BY <3>1, <3>2, <3>3 DEF KnowsDone
  <2>5. OwnerKnows(t)'
    <3>1. SUFFICES ASSUME OwnsJob(t), NEW b \in Agents, runs'[b] = "done"
                   PROVE  /\ attempts'[t].agent[b].at \notin AtWork
                          /\ attempts'[t].phase \in {"plan", "investigate", "synthesize"} /\ attempts'[t].agent[b].at = "idle"
                               => b \in attempts'[t].done
      BY DEF OwnerKnows, OwnsJob
    <3>2. CASE b = a
      BY <2>1, <3>1, <3>2
    <3>3. CASE b # a
      BY <2>1, <2>2, <3>1, <3>3 DEF OwnerKnows
    <3> QED BY <3>2, <3>3
  <2>6. Rests(p)'
    BY <2>1, <2>2, SupportedStays DEF Rests
  <2> QED BY <2>3, <2>4, <2>5, <2>6 DEF AttemptOK
<1> QED BY <1>1, <1>2, <1>3

-----------------------------------------------------------------------------
(* One agent                                                               *)

LEMMA InFlightMoves ==
    ASSUME TypeOK, NEW t \in Attempt, NEW a \in Agents, NEW rec \in AgentRow,
           attempts' = Set(t, a, rec), rec.at # "asked"
    PROVE  InFlight' \subseteq InFlight \ {<<t, a>>}
<1> SUFFICES ASSUME NEW u \in Attempt, NEW b \in Agents, attempts'[u].agent[b].at = "asked"
             PROVE  <<u, b>> \in InFlight /\ <<u, b>> # <<t, a>>
  BY DEF InFlight
<1>1. attempts[u].agent[b].at = "asked" /\ <<u, b>> # <<t, a>>
  BY SetRows
<1> QED BY <1>1 DEF InFlight

\* An agent at work goes on with its own record only.
LEMMA AgentAlone ==
    ASSUME InvestigationInv, NEW t \in Attempt, NEW a \in Agents, NEW rec \in AgentRow,
           attempts' = Set(t, a, rec), UNCHANGED <<runs, board, job, state>>,
           attempts[t].agent[a].at \in AtWork,
           rec.at \notin {"idle", "done"}, rec.at = "final" => rec.is \in Finals,
           tokens' \in Nat, Overshoot'
    PROVE  InvestigationInv'
<1> USE DEF InvestigationInv
<1>1. TypeOK' /\ EntriesOnce'
  BY SetRows DEF TypeOK, EntriesOnce
<1>2. a \in AgentsOf(attempts[t].phase)
  BY DEF AttemptOK, InPhase
<1>3. OwnsJob(t) => runs[a] # "done"
  BY DEF AttemptOK, OwnerKnows
<1>4. DoneStays
  BY DEF DoneStays
<1>5. DiagnosisSupported' /\ \A u \in Attempt : AttemptOK(u)'
  BY <1>2, <1>3, <1>4, AgentMoves
<1> QED BY <1>1, <1>5

LEMMA AskedRow ==
    ASSUME NEW a \in Agents, NEW g \in AgentRow
    PROVE  Asked(a, g) \in AgentRow /\ Asked(a, g).at = "asked"
<1> DEFINE h == [g EXCEPT !.at = "asked"]
<1>1. h \in AgentRow /\ h.at = "asked" /\ h.steps = g.steps
  BY DEF AgentRow, Places
<1>2. Asked(a, g) = [h EXCEPT !.steps = IF HasTools(a) THEN g.steps + 1 ELSE g.steps]
  BY DEF Asked
<1>3. (IF HasTools(a) THEN g.steps + 1 ELSE g.steps) \in Nat
  BY DEF AgentRow
<1> HIDE DEF h
<1> QED BY <1>1, <1>2, <1>3 DEF AgentRow

LEMMA CheckBudgetInv ==
    ASSUME InvestigationInv, NEW t \in Attempt, NEW a \in Agents, CheckBudget(t, a)
    PROVE  InvestigationInv'
<1> USE DEF InvestigationInv
<1> DEFINE g == attempts[t].agent[a]
<1>1. g \in AgentRow /\ g.at = "loop" /\ g.at \in AtWork
      /\ UNCHANGED <<runs, board, tokens, job, state>> /\ tokens \in Nat
  BY AttemptRows DEF CheckBudget, AtWork, TypeOK
<1>2. CASE Exhausted
  <2> DEFINE rec == Out("error", "budget")
  <2>1. rec \in AgentRow /\ rec.at = "error"
    BY AgentRows DEF Places
  <2>2. attempts' = Set(t, a, rec)
    BY <1>2 DEF CheckBudget
  <2> HIDE DEF rec, g
  <2>3. InFlight' \subseteq InFlight
    BY <2>1, <2>2, InFlightMoves
  <2>4. Overshoot'
    BY <1>1, <2>3, FewerInFlight
  <2> QED BY <1>1, <2>1, <2>2, <2>4, AgentAlone DEF g
<1>3. CASE ~Exhausted
  <2> DEFINE rec == Asked(a, g)
  <2>1. rec \in AgentRow /\ rec.at = "asked"
    BY <1>1, AskedRow
  <2>2. attempts' = Set(t, a, rec)
    BY <1>3 DEF CheckBudget
  <2> HIDE DEF rec, g
  <2>3. attempts' \in [Attempt -> AttemptRow]
    BY <2>1, <2>2, SetRows
  <2>4. ASSUME NEW u \in Attempt PROVE InPhase(attempts'[u])
    <3>1. CASE u # t
      BY <2>1, <2>2, <3>1, SetRows DEF AttemptOK, InPhase
    <3>2. CASE u = t
      <4>1. InPhase(attempts[t])
        BY DEF AttemptOK
      <4>2. ASSUME NEW b \in Agents, attempts'[t].agent[b].at \in AtWork
            PROVE  attempts[t].agent[b].at \in AtWork
        BY <1>1, <2>1, <2>2, <4>2, SetRows DEF g
      <4>3. attempts'[t].phase = attempts[t].phase
        BY <2>1, <2>2, SetRows
      <4> QED BY <3>2, <4>1, <4>2, <4>3 DEF InPhase
    <3> QED BY <3>1, <3>2
  <2>5. tokens < Budget
    BY <1>1, <1>3, InvestigationConstants DEF Exhausted
  <2>6. Overshoot'
    BY <1>1, <2>3, <2>4, <2>5, OneAsked
  <2> QED BY <1>1, <2>1, <2>2, <2>6, AgentAlone DEF g
<1> QED BY <1>2, <1>3

LEMMA BackendFailsInv ==
    ASSUME InvestigationInv, NEW t \in Attempt, NEW a \in Agents, NEW error,
           BackendFails(t, a, error)
    PROVE  InvestigationInv'
<1> USE DEF InvestigationInv
<1> DEFINE rec == Out("error", error)
<1>1. rec \in AgentRow /\ rec.at = "error"
  BY AgentRows DEF Places, BackendFails
<1>2. /\ attempts' = Set(t, a, rec) /\ attempts[t].agent[a].at \in AtWork
      /\ UNCHANGED <<runs, board, tokens, job, state>> /\ tokens \in Nat
  BY DEF BackendFails, AtWork, TypeOK
<1> HIDE DEF rec
<1>3. InFlight' \subseteq InFlight
  BY <1>1, <1>2, InFlightMoves
<1>4. Overshoot'
  BY <1>2, <1>3, FewerInFlight
<1> QED BY <1>1, <1>2, <1>4, AgentAlone

LEMMA AnsweredInv ==
    ASSUME InvestigationInv, NEW t \in Attempt, NEW a \in Agents, NEW rec \in AgentRow,
           Answered(t, a, rec),
           rec.at \in {"loop", "error", "final"}, rec.at = "final" => rec.is \in Finals
    PROVE  InvestigationInv'
<1> USE DEF InvestigationInv
<1>1. /\ attempts' = Set(t, a, rec) /\ attempts[t].agent[a].at = "asked"
      /\ attempts[t].agent[a].at \in AtWork
      /\ UNCHANGED <<runs, board, job, state>> /\ tokens' = tokens + StepTokens
  BY DEF Answered, record_llm_call, AtWork
<1>2. tokens' \in Nat
  BY <1>1, InvestigationConstants DEF TypeOK
<1>3. <<t, a>> \in InFlight /\ InFlight' \subseteq InFlight \ {<<t, a>>}
  BY <1>1, InFlightMoves DEF InFlight
<1>4. Overshoot'
  BY <1>1, <1>3, OneAnswered
<1> QED BY <1>1, <1>2, <1>4, AgentAlone

LEMMA RewriteRow ==
    ASSUME NEW g \in AgentRow
    PROVE  /\ [g EXCEPT !.at = "loop"] \in AgentRow /\ [g EXCEPT !.at = "loop"].at = "loop"
           /\ Rewrite(g) \in AgentRow /\ Rewrite(g).at = "loop"
<1> DEFINE h == [g EXCEPT !.at = "loop"]
<1>1. h \in AgentRow /\ h.at = "loop" /\ h.rewrites = g.rewrites /\ g.rewrites + 1 \in Nat
  BY DEF AgentRow, Places
<1>2. Rewrite(g) = [h EXCEPT !.rewrites = g.rewrites + 1]
  BY DEF Rewrite
<1>3. Rewrite(g) \in AgentRow /\ Rewrite(g).at = "loop"
  <2> HIDE DEF h
  <2> QED BY <1>1, <1>2 DEF AgentRow
<1> QED BY <1>1, <1>3

LEMMA AnswerInv ==
    ASSUME InvestigationInv, NEW t \in Attempt, NEW a \in Agents,
           \/ AnswerActions(t, a) \/ AnswerMalformed(t, a)
           \/ \E kept \in FinalsOf(a) : AnswerFlawed(t, a, kept) \/ AnswerFinal(t, a, kept)
    PROVE  InvestigationInv'
<1> DEFINE g == attempts[t].agent[a]
<1>1. g \in AgentRow
  BY AttemptRows DEF InvestigationInv
<1>2. /\ Out("error", "failed") \in AgentRow /\ Out("error", "failed").at = "error"
      /\ \A kept \in Finals :
           Out("final", kept) \in AgentRow /\ Out("final", kept).at = "final"
           /\ Out("final", kept).is = kept
  BY AgentRows DEF Places, Finals
<1>3. FinalsOf(a) \subseteq Finals
  BY DEF FinalsOf, Finals
<1>4. PICK rec \in AgentRow :
         /\ Answered(t, a, rec)
         /\ rec.at \in {"loop", "error", "final"} /\ (rec.at = "final" => rec.is \in Finals)
  <2>1. CASE AnswerActions(t, a)
    <3>1. CASE ForceFinal(a, g)
      BY <1>2, <2>1, <3>1 DEF AnswerActions
    <3>2. CASE ~ForceFinal(a, g)
      BY <1>1, <2>1, <3>2, RewriteRow DEF AnswerActions
    <3> QED BY <3>1, <3>2
  <2>2. CASE AnswerMalformed(t, a)
    <3>1. CASE g.rewrites < MaxRewrites
      BY <1>1, <2>2, <3>1, RewriteRow DEF AnswerMalformed
    <3>2. CASE ~(g.rewrites < MaxRewrites)
      BY <1>2, <2>2, <3>2 DEF AnswerMalformed
    <3> QED BY <3>1, <3>2
  <2>3. ASSUME NEW kept \in FinalsOf(a), AnswerFlawed(t, a, kept)
        PROVE  \E rec \in AgentRow :
                 /\ Answered(t, a, rec)
                 /\ rec.at \in {"loop", "error", "final"} /\ (rec.at = "final" => rec.is \in Finals)
    <3>1. CASE g.rewrites < MaxRewrites
      BY <1>1, <2>3, <3>1, RewriteRow DEF AnswerFlawed
    <3>2. CASE ~(g.rewrites < MaxRewrites)
      BY <1>2, <1>3, <2>3, <3>2 DEF AnswerFlawed
    <3> QED BY <3>1, <3>2
  <2>4. ASSUME NEW kept \in FinalsOf(a), AnswerFinal(t, a, kept)
        PROVE  \E rec \in AgentRow :
                 /\ Answered(t, a, rec)
                 /\ rec.at \in {"loop", "error", "final"} /\ (rec.at = "final" => rec.is \in Finals)
    BY <1>2, <1>3, <2>4 DEF AnswerFinal
  <2> QED BY <2>1, <2>2, <2>3, <2>4
<1> QED BY <1>4, AnsweredInv

\* A finished agent is read back, or its row is running again.
LEMMA StartRunInv ==
    ASSUME InvestigationInv, NEW t \in Attempt, NEW a \in Agents, StartRun(t, a)
    PROVE  InvestigationInv'
<1> USE DEF InvestigationInv
<1> DEFINE p == attempts[t]
<1>1. /\ a \in AgentsOf(p.phase) /\ UNCHANGED <<board, tokens, job, state>>
      /\ KnowsDone(p) /\ OwnerKnows(t) /\ p.done \subseteq Agents
  BY AttemptRows DEF StartRun, AttemptOK
<1>2. p.phase \in {"plan", "investigate", "synthesize"} /\ p.agent[a].at = "idle"
  BY DEF StartRun, AgentsOf
<1>3. PICK rec \in AgentRow :
         /\ attempts' = Set(t, a, rec) /\ runs' \in [Agents -> RunStatuses]
         /\ rec.at \in {"done", "loop"}
         /\ \A b \in Agents : runs'[b] = "done" <=> runs[b] = "done"
         /\ rec.at = "done" => runs[a] = "done" /\ board[a] = <<rec.is>>
         /\ OwnsJob(t) /\ rec.at = "loop" => runs[a] # "done"
  <2>1. CASE a \in p.done
    <3> DEFINE rec == Out("done", Head(board[a]))
    <3>1. runs[a] = "done"
      BY <1>1, <2>1 DEF KnowsDone
    <3>2. board[a] = <<Head(board[a])>> /\ Head(board[a]) \in Finals
      BY <3>1, BoardOf
    <3>3. rec \in AgentRow /\ rec.at = "done" /\ rec.is = Head(board[a])
      BY <3>2, AgentRows DEF Places, Finals
    <3>4. attempts' = Set(t, a, rec) /\ runs' = runs
      BY <2>1 DEF StartRun
    <3> HIDE DEF rec
    <3>5. runs' \in [Agents -> RunStatuses]
      BY <3>4 DEF TypeOK
    <3> QED BY <3>1, <3>2, <3>3, <3>4, <3>5
  <2>2. CASE a \notin p.done
    <3> DEFINE rec == [NotStarted EXCEPT !.at = "loop"]
    <3>1. rec \in AgentRow /\ rec.at = "loop"
      BY AgentRows
    <3>2. attempts' = Set(t, a, rec) /\ OwnsJob(t) /\ start_run(a)
      BY <2>2 DEF StartRun
    <3> HIDE DEF rec
    <3>3. runs[a] # "done"
      BY <1>1, <1>2, <2>2, <3>2 DEF OwnerKnows
    <3>4. runs' \in [Agents -> RunStatuses] /\ \A b \in Agents : runs'[b] = "done" <=> runs[b] = "done"
      BY <3>2, <3>3 DEF start_run, TypeOK, RunStatuses
    <3> QED BY <3>1, <3>2, <3>3, <3>4
  <2> QED BY <2>1, <2>2
<1>4. TypeOK' /\ EntriesOnce'
  BY <1>1, <1>3, SetRows DEF TypeOK, EntriesOnce
<1>5. DoneStays
  BY <1>1, <1>3 DEF DoneStays
<1>6. OwnsJob(t) /\ rec.at \in AtWork => runs'[a] # "done"
  BY <1>3 DEF AtWork
<1>7. DiagnosisSupported' /\ \A u \in Attempt : AttemptOK(u)'
  <2>1. rec.at \notin {"idle", "final"} /\ job' = job /\ state' = state
    BY <1>1, <1>3
  <2>2. rec.at = "done" => runs'[a] = "done" /\ board'[a] = <<rec.is>>
    BY <1>1, <1>3
  <2> QED BY <1>1, <1>3, <1>5, <1>6, <2>1, <2>2, AgentMoves
<1>8. Overshoot'
  <2>1. InFlight' \subseteq InFlight
    BY <1>3, InFlightMoves
  <2> QED BY <1>1, <2>1, FewerInFlight
<1> QED BY <1>4, <1>7, <1>8

\* Only the owner's run becomes done, and its entries are its first.
LEMMA FinishRunInv ==
    ASSUME InvestigationInv, NEW t \in Attempt, NEW a \in Agents, FinishRun(t, a)
    PROVE  InvestigationInv'
<1> USE DEF InvestigationInv
<1> DEFINE is == attempts[t].agent[a].is
           rec == Out("done", is)
<1>1. /\ attempts[t].agent[a].at = "final" /\ OwnsJob(t) /\ finish_run(a, is)
      /\ attempts' = Set(t, a, rec) /\ UNCHANGED <<tokens, job, state>>
  BY DEF FinishRun
<1>2. is \in Finals /\ runs[a] # "done" /\ board[a] = <<>>
  BY <1>1, BoardOf DEF AttemptOK, KnowsDone, OwnerKnows, AtWork
<1>3. rec \in AgentRow /\ rec.at = "done" /\ rec.is = is
  BY <1>2, AgentRows DEF Places, Finals
<1> HIDE DEF is, rec
<1>4. Append(<<>>, is) = <<is>> /\ <<is>> \in Seq(Finals) /\ Len(<<is>>) = 1
  BY <1>2
<1>5. /\ runs' = [runs EXCEPT ![a] = "done"]
      /\ board' = [board EXCEPT ![a] = <<is>>]
  BY <1>1, <1>2, <1>4 DEF finish_run
<1>6. /\ runs'[a] = "done" /\ board'[a] = <<is>>
      /\ \A b \in Agents \ {a} : runs'[b] = runs[b] /\ board'[b] = board[b]
      /\ runs' \in [Agents -> RunStatuses] /\ board' \in [Agents -> Seq(Finals)]
  BY <1>4, <1>5 DEF TypeOK, RunStatuses
<1>7. TypeOK'
  BY <1>1, <1>3, <1>6, SetRows DEF TypeOK
<1>8. EntriesOnce'
  BY <1>4, <1>6 DEF EntriesOnce
<1>9. DoneStays
  BY <1>2, <1>6 DEF DoneStays
<1>10. DiagnosisSupported' /\ \A u \in Attempt : AttemptOK(u)'
  <2>1. rec.at \notin {"idle", "final"} /\ rec.at \notin AtWork /\ job' = job /\ state' = state
    BY <1>1, <1>3 DEF AtWork
  <2>2. \A b \in Agents : runs'[b] = "done" /\ runs[b] # "done" => OwnsJob(t) /\ b = a
    BY <1>1, <1>6
  <2> QED BY <1>1, <1>3, <1>6, <1>9, <2>1, <2>2, AgentMoves
<1>11. Overshoot'
  <2>1. InFlight' \subseteq InFlight
    BY <1>1, <1>3, InFlightMoves
  <2> QED BY <1>1, <2>1, FewerInFlight
<1> QED BY <1>7, <1>8, <1>10, <1>11

-----------------------------------------------------------------------------
(* One attempt                                                             *)

\* An attempt gets a new record, with no step under way that it did not have.
LEMMA RowMoves ==
    ASSUME InvestigationInv, DoneStays, NEW t \in Attempt, NEW row \in AttemptRow,
           attempts' = [attempts EXCEPT ![t] = row],
           TypeOK', EntriesOnce', DiagnosisSupported', tokens' = tokens,
           \A a \in Agents : row.agent[a].at = "asked" => attempts[t].agent[a].at = "asked",
           AttemptOK(t)',
           \A u \in Attempt \ {t} : OwnsJob(u)' => OwnsJob(u),
           \A a \in Agents : runs'[a] = "done" => runs[a] = "done"
    PROVE  InvestigationInv'
<1> USE DEF InvestigationInv
<1>1. attempts'[t] = row /\ \A u \in Attempt \ {t} : attempts'[u] = attempts[u]
  BY DEF TypeOK
<1>2. ASSUME NEW u \in Attempt PROVE AttemptOK(u)'
  BY <1>1, OtherAttempt
<1>3. InFlight' \subseteq InFlight
  BY <1>1 DEF InFlight
<1>4. Overshoot'
  BY <1>3, FewerInFlight
<1> QED BY <1>2, <1>4

LEMMA ConcludeRow ==
    ASSUME NEW p \in AttemptRow, NEW outcome \in {"diagnosed", "escalate"}
    PROVE  /\ Conclude(p, outcome) \in AttemptRow
           /\ Conclude(p, outcome).phase = "conclude" /\ Conclude(p, outcome).done = {}
           /\ Conclude(p, outcome).outcome = outcome
           /\ \A a \in Agents : Conclude(p, outcome).agent[a].at = "idle"
<1> DEFINE none == [a \in Agents |-> NotStarted]
           p1 == [p EXCEPT !.phase = "conclude"]
           p2 == [p1 EXCEPT !.outcome = outcome]
           p3 == [p2 EXCEPT !.agent = none]
<1>1. none \in [Agents -> AgentRow] /\ \A a \in Agents : none[a].at = "idle"
  BY AgentRows
<1>2. Conclude(p, outcome) = [p3 EXCEPT !.done = {}]
  BY DEF Conclude
<1> HIDE DEF none
<1>3. p1 \in AttemptRow /\ p1.phase = "conclude"
  BY DEF AttemptRow, Phases
<1> HIDE DEF p1
<1>4. p2 \in AttemptRow /\ p2.phase = "conclude" /\ p2.outcome = outcome
  BY <1>3 DEF AttemptRow
<1> HIDE DEF p2
<1>5. p3 \in AttemptRow /\ p3.phase = "conclude" /\ p3.outcome = outcome /\ p3.agent = none
  BY <1>1, <1>4 DEF AttemptRow
<1> HIDE DEF p3
<1> QED BY <1>1, <1>2, <1>5 DEF AttemptRow

\* An attempt stops, or concludes without a diagnosis; its job may be given up.
LEMMA Quits ==
    ASSUME InvestigationInv, NEW t \in Attempt, NEW row \in AttemptRow,
           attempts' = [attempts EXCEPT ![t] = row],
           row.phase \in {"claimed", "conclude", "ended"}, row.done = {}, row.outcome # "diagnosed",
           \A a \in Agents : row.agent[a].at = "idle",
           runs' \in [Agents -> RunStatuses],
           \A a \in Agents : runs'[a] = "done" <=> runs[a] = "done",
           UNCHANGED <<board, tokens>>,
           job' \in JobRow, job'.status = "queued" => job'.attempt < MaxAttempts,
           \A u \in Attempt \ {t} : OwnsJob(u)' => OwnsJob(u),
           state' \in {state, "INVESTIGATING", "ESCALATED"} \/ (state' = "DIAGNOSED" /\ Supported)
    PROVE  InvestigationInv'
<1> USE DEF InvestigationInv
<1>1. attempts'[t] = row /\ attempts' \in [Attempt -> AttemptRow]
  BY DEF TypeOK
<1>2. TypeOK'
  BY <1>1 DEF TypeOK
<1>3. EntriesOnce' /\ DoneStays
  BY DEF EntriesOnce, DoneStays
<1>4. DiagnosisSupported'
  BY DEF DiagnosisSupported, Supported
<1>5. AttemptOK(t)'
  BY <1>1, QuietAttempt
<1> QED BY <1>2, <1>3, <1>4, <1>5, RowMoves

LEMMA GivenBackJob ==
    ASSUME TypeOK
    PROVE  /\ GivenBack \in JobRow
           /\ GivenBack.status \in {"queued", "dead"}
           /\ GivenBack.status = "queued" => GivenBack.attempt < MaxAttempts
<1>1. job \in JobRow /\ MaxAttempts \in Nat \ {0}
  BY InvestigationConstants DEF TypeOK
<1>2. GivenBack \in JobRow /\ GivenBack.attempt = job.attempt
      /\ GivenBack.status = (IF job.attempt = MaxAttempts THEN "dead" ELSE "queued")
  BY <1>1 DEF GivenBack, JobRow
<1> QED BY <1>1, <1>2 DEF JobRow

\* An error: the agent has failed, the investigation concludes, or the job is given up.
LEMMA FailRunInv ==
    ASSUME InvestigationInv, NEW t \in Attempt, NEW a \in Agents, FailRun(t, a)
    PROVE  InvestigationInv'
<1> USE DEF InvestigationInv
<1>1. /\ attempts[t].agent[a].at = "error" /\ OwnsJob(t) /\ fail_run(a)
      /\ UNCHANGED <<board, tokens, state>> /\ attempts[t] \in AttemptRow
  BY AttemptRows DEF FailRun
<1>2. runs[a] # "done"
  BY <1>1 DEF AttemptOK, OwnerKnows, AtWork
<1>3. /\ runs' \in [Agents -> RunStatuses]
      /\ \A b \in Agents : runs'[b] = "done" <=> runs[b] = "done"
  BY <1>1, <1>2 DEF fail_run, TypeOK, RunStatuses
<1>4. job \in JobRow /\ (job.status = "queued" => job.attempt < MaxAttempts)
  BY DEF TypeOK
<1>5. ASSUME attempts' = Set(t, a, Out("failed", "-")), job' = job
      PROVE  InvestigationInv'
  <2> DEFINE rec == Out("failed", "-")
  <2>1. rec \in AgentRow /\ rec.at = "failed"
    BY AgentRows DEF Places
  <2>2. attempts' = Set(t, a, rec)
    BY <1>5
  <2> HIDE DEF rec
  <2>3. TypeOK' /\ EntriesOnce'
    BY <1>1, <1>3, <1>5, <2>1, <2>2, SetRows DEF TypeOK, EntriesOnce
  <2>4. DoneStays
    BY <1>1, <1>3 DEF DoneStays
  <2>5. rec.at \notin {"idle", "final", "done"} /\ rec.at \notin AtWork /\ state' = state
    BY <1>1, <2>1 DEF AtWork
  <2>6. DiagnosisSupported' /\ \A u \in Attempt : AttemptOK(u)'
    BY <1>3, <1>5, <2>1, <2>2, <2>4, <2>5, AgentMoves
  <2>7. InFlight' \subseteq InFlight
    BY <2>1, <2>2, InFlightMoves
  <2>8. Overshoot'
    BY <1>1, <2>7, FewerInFlight
  <2> QED BY <2>3, <2>6, <2>8
<1>6. ASSUME attempts' = [attempts EXCEPT ![t] = Conclude(attempts[t], "escalate")], job' = job
      PROVE  InvestigationInv'
  <2> DEFINE row == Conclude(attempts[t], "escalate")
  <2>1. /\ row \in AttemptRow /\ row.phase = "conclude" /\ row.done = {}
        /\ row.outcome = "escalate" /\ \A b \in Agents : row.agent[b].at = "idle"
    BY <1>1, ConcludeRow
  <2>2. attempts' = [attempts EXCEPT ![t] = row]
    BY <1>6
  <2> HIDE DEF row
  <2>3. \A u \in Attempt \ {t} : OwnsJob(u)' => OwnsJob(u)
    BY <1>6 DEF OwnsJob
  <2> QED BY <1>1, <1>3, <1>4, <1>6, <2>1, <2>2, <2>3, Quits
<1>7. ASSUME Stop(t), job' = GivenBack
      PROVE  InvestigationInv'
  <2>2. /\ job' \in JobRow /\ job'.status \in {"queued", "dead"}
        /\ (job'.status = "queued" => job'.attempt < MaxAttempts)
    BY <1>7, GivenBackJob
  <2>3. \A u \in Attempt \ {t} : OwnsJob(u)' => OwnsJob(u)
    BY <2>2 DEF OwnsJob
  <2>4. attempts' = [attempts EXCEPT ![t] = Ended]
    BY <1>7 DEF Stop
  <2> QED BY <1>1, <1>3, <2>2, <2>3, <2>4, FreshRows, Quits
<1> QED BY <1>5, <1>6, <1>7 DEF FailRun

LEMMA StopInv ==
    ASSUME InvestigationInv, NEW t \in Attempt, Vanish(t) \/ LeaseLost(t)
    PROVE  InvestigationInv'
<1> USE DEF InvestigationInv
<1>1. attempts' = [attempts EXCEPT ![t] = Ended] /\ UNCHANGED <<runs, board, tokens, job, state>>
  BY DEF Vanish, LeaseLost, Stop
<1>2. /\ runs' \in [Agents -> RunStatuses]
      /\ \A b \in Agents : runs'[b] = "done" <=> runs[b] = "done"
  BY <1>1 DEF TypeOK
<1>3. job' \in JobRow /\ (job'.status = "queued" => job'.attempt < MaxAttempts)
  BY <1>1 DEF TypeOK
<1>4. \A u \in Attempt \ {t} : OwnsJob(u)' => OwnsJob(u)
  BY <1>1 DEF OwnsJob
<1> QED BY <1>1, <1>2, <1>3, <1>4, FreshRows, Quits

LEMMA ClaimJobInv ==
    ASSUME InvestigationInv, ClaimJob
    PROVE  InvestigationInv'
<1> USE DEF InvestigationInv
<1> DEFINE t == job.attempt + 1
<1>1. /\ job.status = "queued" /\ job' = [status |-> "leased", attempt |-> t]
      /\ attempts' = [attempts EXCEPT ![t] = Fresh]
      /\ UNCHANGED <<runs, board, tokens, state>>
  BY DEF ClaimJob
<1>2. t \in Attempt /\ t \in 0..MaxAttempts
  BY <1>1, InvestigationConstants DEF TypeOK, JobRow, Attempt
<1> HIDE DEF t
<1>3. job' \in JobRow /\ job'.status = "leased" /\ job'.attempt = t
  BY <1>1, <1>2 DEF JobRow
<1>4. \A u \in Attempt \ {t} : OwnsJob(u)' => OwnsJob(u)
  BY <1>3 DEF OwnsJob
<1>5. /\ runs' \in [Agents -> RunStatuses]
      /\ \A b \in Agents : runs'[b] = "done" <=> runs[b] = "done"
  BY <1>1 DEF TypeOK
<1> QED BY <1>1, <1>2, <1>3, <1>4, <1>5, FreshRows, Quits

LEMMA JobLeaseExpiresInv ==
    ASSUME InvestigationInv, JobLeaseExpires
    PROVE  InvestigationInv'
<1> USE DEF InvestigationInv
<1>1. job.status = "leased" /\ job' = GivenBack /\ UNCHANGED <<runs, board, tokens, state, attempts>>
  BY DEF JobLeaseExpires
<1>3. /\ job' \in JobRow /\ job'.status \in {"queued", "dead"}
      /\ (job'.status = "queued" => job'.attempt < MaxAttempts)
  BY <1>1, GivenBackJob
<1>4. TypeOK'
  BY <1>1, <1>3 DEF TypeOK
<1>5. EntriesOnce' /\ DoneStays /\ DiagnosisSupported'
  BY <1>1 DEF EntriesOnce, DoneStays, DiagnosisSupported
<1>6. \A u \in Attempt : ~OwnsJob(u)'
  BY <1>3 DEF OwnsJob
<1>7. \A u \in Attempt : AttemptOK(u)'
  BY <1>1, <1>5, <1>6, OtherAttempt
<1>8. InFlight' \subseteq InFlight
  BY <1>1 DEF InFlight
<1> QED BY <1>1, <1>4, <1>5, <1>7, <1>8, FewerInFlight

-----------------------------------------------------------------------------
(* The phases                                                              *)

\* The runs and the entries of the phase that begins are read.
LEMMA BeginInv ==
    ASSUME InvestigationInv, NEW t \in Attempt, Begin(t)
    PROVE  InvestigationInv'
<1> USE DEF InvestigationInv
<1> DEFINE p == attempts[t]
<1>1. p \in AttemptRow /\ p.phase = "claimed" /\ OwnsJob(t) /\ UNCHANGED <<runs, board, tokens>>
  BY AttemptRows DEF Begin
<1>2. /\ runs' \in [Agents -> RunStatuses]
      /\ \A b \in Agents : runs'[b] = "done" <=> runs[b] = "done"
  BY <1>1 DEF TypeOK
<1>3. ASSUME state' = "INVESTIGATING", job' = job,
             attempts' = [attempts EXCEPT ![t].phase = "plan", ![t].done = DoneAgents]
      PROVE  InvestigationInv'
  <2> DEFINE p1 == [p EXCEPT !.phase = "plan"]
             row == [p1 EXCEPT !.done = DoneAgents]
  <2>1. DoneAgents \subseteq Agents
    BY DEF DoneAgents
  <2>2. p1 \in AttemptRow /\ p1.phase = "plan" /\ p1.agent = p.agent /\ p1.outcome = p.outcome
    BY <1>1 DEF AttemptRow, Phases
  <2>3. attempts' = [attempts EXCEPT ![t] = row]
    BY <1>3 DEF TypeOK
  <2> HIDE DEF p1
  <2>4. /\ row \in AttemptRow /\ row.phase = "plan" /\ row.agent = p.agent
        /\ row.outcome = p.outcome /\ row.done = DoneAgents
    BY <2>1, <2>2 DEF AttemptRow
  <2> HIDE DEF row
  <2>5. attempts'[t] = row
    BY <2>3 DEF TypeOK
  <2>6. TypeOK' /\ EntriesOnce' /\ DoneStays /\ DiagnosisSupported'
    BY <1>1, <1>3, <2>3, <2>4 DEF TypeOK, EntriesOnce, DoneStays, DiagnosisSupported
  <2>7. InPhase(p) /\ KnowsDone(p) /\ Rests(p)
    BY DEF AttemptOK
  <2>8. \A a \in Agents : row.agent[a].at \notin AtWork
    BY <1>1, <2>4, <2>7 DEF InPhase, AgentsOf
  <2>9. InPhase(attempts[t])'
    BY <2>5, <2>8 DEF InPhase
  <2>10. KnowsDone(attempts[t])'
    BY <1>1, <2>4, <2>5, <2>7 DEF KnowsDone, DoneAgents
  <2>11. OwnerKnows(t)'
    BY <1>1, <2>4, <2>5, <2>8 DEF OwnerKnows, DoneAgents
  <2>12. Rests(attempts[t])'
    BY <2>4, <2>5, <2>6, <2>7, SupportedStays DEF Rests
  <2>13. AttemptOK(t)'
    BY <2>9, <2>10, <2>11, <2>12 DEF AttemptOK
  <2>14. \A u \in Attempt \ {t} : OwnsJob(u)' => OwnsJob(u)
    BY <1>3 DEF OwnsJob
  <2>15. \A a \in Agents : row.agent[a].at = "asked" => p.agent[a].at = "asked"
    BY <2>4
  <2> QED BY <1>1, <1>2, <2>3, <2>4, <2>6, <2>13, <2>14, <2>15, RowMoves
<1>4. ASSUME Stop(t), job' = [job EXCEPT !.status = "done"], state' = state
      PROVE  InvestigationInv'
  <2>1. job' \in JobRow /\ job'.status = "done"
    BY <1>4 DEF TypeOK, JobRow
  <2>2. \A u \in Attempt \ {t} : OwnsJob(u)' => OwnsJob(u)
    BY <2>1 DEF OwnsJob
  <2>3. attempts' = [attempts EXCEPT ![t] = Ended]
    BY <1>4 DEF Stop
  <2> QED BY <1>1, <1>2, <1>4, <2>1, <2>2, <2>3, FreshRows, Quits
<1> QED BY <1>3, <1>4 DEF Begin

\* Nobody works on when a phase is over.
LEMMA OverIdle ==
    ASSUME NEW p \in AttemptRow, InPhase(p), Over(p), NEW a \in Agents
    PROVE  p.agent[a].at \notin AtWork
  BY DEF InPhase, Over, AtWork

LEMMA PlannedInv ==
    ASSUME InvestigationInv, NEW t \in Attempt, Planned(t)
    PROVE  InvestigationInv'
<1> USE DEF InvestigationInv
<1> DEFINE p == attempts[t]
           row == [p EXCEPT !.phase = "investigate"]
<1>1. /\ p \in AttemptRow /\ p.phase = "plan" /\ Over(p)
      /\ UNCHANGED <<runs, board, tokens, job, state>>
  BY AttemptRows DEF Planned
<1>2. /\ row \in AttemptRow /\ row.phase = "investigate" /\ row.agent = p.agent
      /\ row.done = p.done /\ row.outcome = p.outcome
  BY <1>1 DEF AttemptRow, Phases
<1>3. attempts' = [attempts EXCEPT ![t] = row]
  BY DEF Planned, TypeOK
<1> HIDE DEF row
<1>4. attempts'[t] = row
  BY <1>3 DEF TypeOK
<1>5. InPhase(p) /\ KnowsDone(p) /\ OwnerKnows(t) /\ Rests(p)
  BY DEF AttemptOK
<1>6. \A a \in Agents : row.agent[a].at \notin AtWork
  BY <1>1, <1>2, <1>5, OverIdle
<1>7. TypeOK' /\ EntriesOnce' /\ DoneStays /\ DiagnosisSupported'
  BY <1>1, <1>2, <1>3 DEF TypeOK, EntriesOnce, DoneStays, DiagnosisSupported, Supported
<1>8. AttemptOK(t)'
  <2>1. InPhase(attempts[t])'
    BY <1>4, <1>6 DEF InPhase
  <2>2. KnowsDone(attempts[t])'
    BY <1>1, <1>2, <1>4, <1>5 DEF KnowsDone
  <2>3. OwnerKnows(t)'
    BY <1>1, <1>2, <1>4, <1>5, <1>6 DEF OwnerKnows, OwnsJob
  <2>4. Rests(attempts[t])'
    BY <1>2, <1>4, <1>5, <1>7, SupportedStays DEF Rests
  <2> QED BY <2>1, <2>2, <2>3, <2>4 DEF AttemptOK
<1>9. \A u \in Attempt \ {t} : OwnsJob(u)' => OwnsJob(u)
  BY <1>1 DEF OwnsJob
<1>10. /\ \A a \in Agents : row.agent[a].at = "asked" => p.agent[a].at = "asked"
       /\ \A a \in Agents : runs'[a] = "done" => runs[a] = "done"
  BY <1>1, <1>2
<1> QED BY <1>1, <1>2, <1>3, <1>7, <1>8, <1>9, <1>10, RowMoves

\* The rows are read again, and nothing found escalates.
LEMMA InvestigatedInv ==
    ASSUME InvestigationInv, NEW t \in Attempt, Investigated(t)
    PROVE  InvestigationInv'
<1> USE DEF InvestigationInv
<1> DEFINE p == attempts[t]
<1>1. /\ p \in AttemptRow /\ p.phase = "investigate" /\ Over(p)
      /\ UNCHANGED <<runs, board, tokens, job, state>>
  BY AttemptRows DEF Investigated
<1>2. \A u \in Attempt \ {t} : OwnsJob(u)' => OwnsJob(u)
  BY <1>1 DEF OwnsJob
<1>3. CASE Findings # {}
  <2> DEFINE p1 == [p EXCEPT !.phase = "synthesize"]
             row == [p1 EXCEPT !.done = DoneAgents]
  <2>1. DoneAgents \subseteq Agents
    BY DEF DoneAgents
  <2>2. p1 \in AttemptRow /\ p1.phase = "synthesize" /\ p1.agent = p.agent /\ p1.outcome = p.outcome
    BY <1>1 DEF AttemptRow, Phases
  <2>3. attempts' = [attempts EXCEPT ![t] = row]
    BY <1>3 DEF Investigated, TypeOK
  <2> HIDE DEF p1
  <2>4. /\ row \in AttemptRow /\ row.phase = "synthesize" /\ row.agent = p.agent
        /\ row.outcome = p.outcome /\ row.done = DoneAgents
    BY <2>1, <2>2 DEF AttemptRow
  <2> HIDE DEF row
  <2>5. attempts'[t] = row
    BY <2>3 DEF TypeOK
  <2>6. InPhase(p) /\ KnowsDone(p) /\ Rests(p)
    BY DEF AttemptOK
  <2>7. \A a \in Agents : row.agent[a].at \notin AtWork
    BY <1>1, <2>4, <2>6, OverIdle
  <2>8. TypeOK' /\ EntriesOnce' /\ DoneStays /\ DiagnosisSupported'
    BY <1>1, <2>3, <2>4 DEF TypeOK, EntriesOnce, DoneStays, DiagnosisSupported, Supported
  <2>9. AttemptOK(t)'
    <3>1. InPhase(attempts[t])'
      BY <2>5, <2>7 DEF InPhase
    <3>2. KnowsDone(attempts[t])'
      BY <1>1, <2>4, <2>5, <2>6 DEF KnowsDone, DoneAgents
    <3>3. OwnerKnows(t)'
      BY <1>1, <2>4, <2>5, <2>7 DEF OwnerKnows, DoneAgents
    <3>4. Rests(attempts[t])'
      BY <1>3, <2>4, <2>5, <2>6, <2>8, SupportedStays DEF Rests
    <3> QED BY <3>1, <3>2, <3>3, <3>4 DEF AttemptOK
  <2>10. /\ \A a \in Agents : row.agent[a].at = "asked" => p.agent[a].at = "asked"
         /\ \A a \in Agents : runs'[a] = "done" => runs[a] = "done"
    BY <1>1, <2>4
  <2> QED BY <1>1, <1>2, <2>3, <2>4, <2>8, <2>9, <2>10, RowMoves
<1>4. CASE Findings = {}
  <2> DEFINE row == Conclude(p, "escalate")
  <2>1. /\ row \in AttemptRow /\ row.phase = "conclude" /\ row.done = {}
        /\ row.outcome = "escalate" /\ \A a \in Agents : row.agent[a].at = "idle"
    BY <1>1, ConcludeRow
  <2>2. attempts' = [attempts EXCEPT ![t] = row]
    BY <1>4 DEF Investigated
  <2> HIDE DEF row
  <2>3. /\ runs' \in [Agents -> RunStatuses] /\ job' \in JobRow
        /\ (job'.status = "queued" => job'.attempt < MaxAttempts)
        /\ \A a \in Agents : runs'[a] = "done" <=> runs[a] = "done"
    BY <1>1 DEF TypeOK
  <2> QED BY <1>1, <1>2, <2>1, <2>2, <2>3, Quits
<1> QED BY <1>3, <1>4

\* The diagnosis of a synthesis that is done, with a root cause, is on the blackboard, and
\* so is what was found.
LEMMA SynthesizedInv ==
    ASSUME InvestigationInv, NEW t \in Attempt, Synthesized(t)
    PROVE  InvestigationInv'
<1> USE DEF InvestigationInv
<1> DEFINE p == attempts[t]
           g == p.agent[Synthesizer]
           outcome == IF g.at = "done" /\ g.is = "some" THEN "diagnosed" ELSE "escalate"
           row == Conclude(p, outcome)
<1>1. /\ p \in AttemptRow /\ p.phase = "synthesize"
      /\ UNCHANGED <<runs, board, tokens, job, state>>
      /\ attempts' = [attempts EXCEPT ![t] = row]
  BY AttemptRows DEF Synthesized
<1>2. KnowsDone(p) /\ Findings # {}
  BY <1>1 DEF AttemptOK, Rests
<1>3. ASSUME outcome = "diagnosed" PROVE Supported'
  <2>1. g.at = "done" /\ g.is = "some"
    BY <1>3
  <2>2. board[Synthesizer] = <<"some">>
    BY <1>2, <2>1, AgentNames DEF KnowsDone
  <2>3. PICK a \in Investigators : board[a] # <<>> /\ Head(board[a]) = "some"
    BY <1>2 DEF Findings
  <2>4. board[a] = <<"some">>
    BY <2>3, BoardOf, AgentNames
  <2> QED BY <1>1, <2>2, <2>4 DEF Supported
<1>4. outcome \in {"diagnosed", "escalate"}
  OBVIOUS
<1> HIDE DEF outcome
<1>5. /\ row \in AttemptRow /\ row.phase = "conclude" /\ row.done = {}
      /\ row.outcome = outcome /\ \A a \in Agents : row.agent[a].at = "idle"
  BY <1>1, <1>4, ConcludeRow
<1> HIDE DEF row
<1>6. attempts'[t] = row
  BY <1>1 DEF TypeOK
<1>7. AttemptOK(t)'
  BY <1>3, <1>5, <1>6, QuietAttempt
<1>8. TypeOK' /\ EntriesOnce' /\ DoneStays /\ DiagnosisSupported'
  BY <1>1, <1>5 DEF TypeOK, EntriesOnce, DoneStays, DiagnosisSupported, Supported
<1>9. /\ \A u \in Attempt \ {t} : OwnsJob(u)' => OwnsJob(u)
      /\ \A a \in Agents : runs'[a] = "done" => runs[a] = "done"
      /\ \A a \in Agents : row.agent[a].at # "asked"
  BY <1>1, <1>5 DEF OwnsJob
<1> QED BY <1>1, <1>5, <1>7, <1>8, <1>9, RowMoves

LEMMA CloseInv ==
    ASSUME InvestigationInv, NEW t \in Attempt, Close(t)
    PROVE  InvestigationInv'
<1> USE DEF InvestigationInv
<1>1. /\ job' = [job EXCEPT !.status = "done"] /\ attempts' = [attempts EXCEPT ![t] = Ended]
      /\ UNCHANGED <<runs, board, tokens>>
      /\ state' = IF attempts[t].outcome = "diagnosed" THEN "DIAGNOSED" ELSE "ESCALATED"
  BY DEF Close, Stop
<1>2. job' \in JobRow /\ job'.status = "done"
  BY <1>1 DEF TypeOK, JobRow
<1>3. \A u \in Attempt \ {t} : OwnsJob(u)' => OwnsJob(u)
  BY <1>2 DEF OwnsJob
<1>4. attempts[t].outcome = "diagnosed" => Supported
  BY DEF AttemptOK, Rests
<1>5. /\ runs' \in [Agents -> RunStatuses]
      /\ \A a \in Agents : runs'[a] = "done" <=> runs[a] = "done"
  BY <1>1 DEF TypeOK
<1> QED BY <1>1, <1>2, <1>3, <1>4, <1>5, FreshRows, Quits

-----------------------------------------------------------------------------
(* Every step                                                              *)

LEMMA InitInv ==
    ASSUME InvestigationInit
    PROVE  InvestigationInv
<1>1. TypeOK
  <2>1. attempts \in [Attempt -> AttemptRow]
    BY FreshRows DEF InvestigationInit
  <2>2. job \in JobRow /\ (job.status = "queued" => job.attempt < MaxAttempts)
    BY InvestigationConstants DEF InvestigationInit, JobRow
  <2>3. runs \in [Agents -> RunStatuses] /\ board \in [Agents -> Seq(Finals)] /\ tokens \in Nat
    BY DEF InvestigationInit, RunStatuses
  <2> QED BY <2>1, <2>2, <2>3 DEF TypeOK, InvestigationInit
<1>2. EntriesOnce /\ DiagnosisSupported
  BY DEF InvestigationInit, EntriesOnce, DiagnosisSupported
<1>3. \A t \in Attempt : attempts[t] = Ended
  BY DEF InvestigationInit
<1>4. Overshoot
  <2>1. InFlight = {}
    BY <1>3, FreshRows DEF InFlight
  <2>2. Cardinality(InFlight) = 0
    BY <2>1, FS_EmptySet
  <2> DEFINE seats == MaxAttempts * Cardinality(Investigators)
             limit == StepTokens * MaxAttempts * Cardinality(Investigators)
  <2>3. seats \in Nat \ {0}
    <3> DEFINE k == Cardinality(Investigators)
    <3>1. k \in Nat \ {0} /\ MaxAttempts \in Nat \ {0}
      BY Finite, InvestigationConstants
    <3> HIDE DEF k
    <3>2. MaxAttempts * k \in Nat \ {0}
      BY <3>1
    <3> QED BY <3>2 DEF k
  <2>4. limit = StepTokens * seats /\ StepTokens \in Nat \ {0} /\ Budget \in Nat
    BY Numbers
  <2> HIDE DEF seats, limit
  <2>5. StepTokens * seats \in Nat \ {0}
    BY <2>3, <2>4
  <2>6. tokens + StepTokens * 0 < Budget + limit
    BY <2>4, <2>5 DEF InvestigationInit
  <2> QED BY <2>2, <2>6 DEF Overshoot, limit
<1>5. ASSUME NEW t \in Attempt PROVE AttemptOK(t)
  <2>1. attempts[t] = Ended
    BY <1>3
  <2> QED BY <2>1, FreshRows
      DEF AttemptOK, InPhase, KnowsDone, OwnerKnows, Rests, AtWork
<1> QED BY <1>1, <1>2, <1>4, <1>5 DEF InvestigationInv

LEMMA StutterInv ==
    ASSUME InvestigationInv, UNCHANGED invVars
    PROVE  InvestigationInv'
<1> USE DEF InvestigationInv, invVars
<1>1. TypeOK' /\ EntriesOnce' /\ DoneStays /\ DiagnosisSupported'
  BY DEF TypeOK, EntriesOnce, DoneStays, DiagnosisSupported, Supported
<1>2. \A t \in Attempt : AttemptOK(t)'
  BY <1>1, OtherAttempt DEF OwnsJob
<1>3. InFlight' \subseteq InFlight
  BY DEF InFlight
<1> QED BY <1>1, <1>2, <1>3, FewerInFlight

LEMMA StepInv ==
    ASSUME InvestigationInv, [InvestigationNext]_invVars
    PROVE  InvestigationInv'
<1>1. CASE ClaimJob
  BY <1>1, ClaimJobInv
<1>2. CASE JobLeaseExpires
  BY <1>2, JobLeaseExpiresInv
<1>3. ASSUME NEW t \in Attempt, Vanish(t) \/ AttemptStep(t)
      PROVE  InvestigationInv'
  <2>1. CASE Begin(t)
    BY <2>1, BeginInv
  <2>2. CASE Planned(t)
    BY <2>2, PlannedInv
  <2>3. CASE Investigated(t)
    BY <2>3, InvestigatedInv
  <2>4. CASE Synthesized(t)
    BY <2>4, SynthesizedInv
  <2>5. CASE Close(t)
    BY <2>5, CloseInv
  <2>6. CASE Vanish(t) \/ LeaseLost(t)
    BY <2>6, StopInv
  <2>7. ASSUME NEW a \in Agents, AgentStep(t, a)
        PROVE  InvestigationInv'
    <3>1. CASE StartRun(t, a)
      BY <3>1, StartRunInv
    <3>2. CASE CheckBudget(t, a)
      BY <3>2, CheckBudgetInv
    <3>3. CASE \E error \in {"retry", "failed"} : BackendFails(t, a, error)
      BY <3>3, BackendFailsInv
    <3>4. CASE FinishRun(t, a)
      BY <3>4, FinishRunInv
    <3>5. CASE FailRun(t, a)
      BY <3>5, FailRunInv
    <3>6. CASE \/ AnswerActions(t, a) \/ AnswerMalformed(t, a)
               \/ \E kept \in FinalsOf(a) : AnswerFlawed(t, a, kept) \/ AnswerFinal(t, a, kept)
      BY <3>6, AnswerInv
    <3> QED BY <2>7, <3>1, <3>2, <3>3, <3>4, <3>5, <3>6 DEF AgentStep
  <2> QED BY <1>3, <2>1, <2>2, <2>3, <2>4, <2>5, <2>6, <2>7 DEF AttemptStep
<1>4. CASE UNCHANGED invVars
  BY <1>4, StutterInv
<1> QED BY <1>1, <1>2, <1>3, <1>4 DEF InvestigationNext

LEMMA InvHolds == InvestigationSpec => []InvestigationInv
<1>1. InvestigationInit => InvestigationInv
  BY InitInv
<1>2. InvestigationInv /\ [InvestigationNext]_invVars => InvestigationInv'
  BY StepInv
<1> QED BY <1>1, <1>2, PTL DEF InvestigationSpec

-----------------------------------------------------------------------------
(* The theorems                                                            *)

\* The rows are well formed: the statuses are those agent_runs knows, and the job is never
\* waiting when its attempts are used up.
THEOREM TypeCorrect == InvestigationSpec => []TypeOK
<1>1. InvestigationInv => TypeOK
  BY DEF InvestigationInv
<1> QED BY <1>1, InvHolds, PTL

\* finish_run: the entries of an agent are on the blackboard exactly when its run is done,
\* and once, whichever of the overlapping attempts finished it and however often it was
\* asked again.
THEOREM RecordedOnce == InvestigationSpec => []EntriesOnce
<1>1. InvestigationInv => EntriesOnce
  BY DEF InvestigationInv
<1> QED BY <1>1, InvHolds, PTL

\* once: the attempt that owns the job is never at work on an agent whose run is done.
THEOREM NeverAskedAgain == InvestigationSpec => []CompletedNotAskedAgain
<1>1. InvestigationInv => CompletedNotAskedAgain
  BY DEF InvestigationInv, AttemptOK, OwnerKnows, AtWork, CompletedNotAskedAgain
<1> QED BY <1>1, InvHolds, PTL

\* budget_left before each step, record_llm_call after it: what the agents of all attempts
\* have spent, and what their steps under way will spend, exceeds the budget by at most one
\* step for each investigator of each attempt.
THEOREM BudgetKept == InvestigationSpec => []Overshoot
<1>1. InvestigationInv => Overshoot
  BY DEF InvestigationInv
<1> QED BY <1>1, InvHolds, PTL

\* _concluded: an incident that is diagnosed has a root cause on the blackboard and a
\* finding for it to rest on.
THEOREM DiagnosisRests == InvestigationSpec => []DiagnosisSupported
<1>1. InvestigationInv => DiagnosisSupported
  BY DEF InvestigationInv
<1> QED BY <1>1, InvHolds, PTL

-----------------------------------------------------------------------------
(* The job of an investigation is one of FencedJobs, and so of JobQueue:    *)
(* its attempts are the runs.  What is written under the lease is not told  *)
(* apart here.                                                             *)

JobKey == "investigate"
Queue == INSTANCE FencedJobs WITH
    Keys <- {JobKey},
    state <- [k \in {JobKey} |-> IF job.status = "leased" THEN "running" ELSE job.status],
    epoch <- [k \in {JobKey} |-> job.attempt],
    tries <- [k \in {JobKey} |-> job.attempt],
    written <- [k \in {JobKey} |-> 0]

\* The job was submitted and not tried; then each step is at most one step of it.
UsesFencedJobs ==
    /\ job = [status |-> "queued", attempt |-> 0]
    /\ [][Queue!Next]_(Queue!vars)

\* What one step does to the job.
JobMove ==
    \/ job.status = "queued" /\ job' = [status |-> "leased", attempt |-> job.attempt + 1]
    \/ job.status = "leased" /\ job' = GivenBack
    \/ job.status = "leased" /\ job' = [job EXCEPT !.status = "done"]

LEMMA JobMoves ==
    ASSUME [InvestigationNext]_invVars
    PROVE  UNCHANGED job \/ JobMove
<1>1. CASE ClaimJob \/ JobLeaseExpires
  BY <1>1 DEF ClaimJob, JobLeaseExpires, JobMove
<1>2. ASSUME NEW t \in Attempt, Vanish(t) \/ AttemptStep(t)
      PROVE  UNCHANGED job \/ JobMove
  <2>1. CASE Begin(t) \/ Close(t)
    BY <2>1 DEF Begin, Close, OwnsJob, JobMove
  <2>2. CASE Vanish(t) \/ LeaseLost(t) \/ Planned(t) \/ Investigated(t) \/ Synthesized(t)
    BY <2>2 DEF Vanish, LeaseLost, Planned, Investigated, Synthesized
  <2>3. ASSUME NEW a \in Agents, AgentStep(t, a)
        PROVE  UNCHANGED job \/ JobMove
    <3>1. CASE FailRun(t, a)
      BY <3>1 DEF FailRun, OwnsJob, JobMove
    <3>2. CASE \E error \in {"retry", "failed"} : BackendFails(t, a, error)
      BY <3>2 DEF BackendFails
    <3>3. CASE \/ AnswerActions(t, a) \/ AnswerMalformed(t, a)
               \/ \E kept \in FinalsOf(a) : AnswerFlawed(t, a, kept) \/ AnswerFinal(t, a, kept)
      BY <3>3 DEF AnswerActions, AnswerMalformed, AnswerFlawed, AnswerFinal, Answered
    <3>4. CASE StartRun(t, a) \/ CheckBudget(t, a) \/ FinishRun(t, a)
      BY <3>4 DEF StartRun, CheckBudget, FinishRun
    <3> QED BY <2>3, <3>1, <3>2, <3>3, <3>4 DEF AgentStep
  <2> QED BY <1>2, <2>1, <2>2, <2>3 DEF AttemptStep
<1>3. CASE UNCHANGED invVars
  BY <1>3 DEF invVars
<1> QED BY <1>1, <1>2, <1>3 DEF InvestigationNext

LEMMA JobMovesAreSteps ==
    ASSUME TypeOK, JobMove
    PROVE  Queue!Next
<1>0. /\ job \in JobRow /\ job.attempt \in Nat /\ job.attempt <= MaxAttempts
      /\ (job.status = "queued" => job.attempt < MaxAttempts)
  BY InvestigationConstants DEF TypeOK, JobRow
<1>1. CASE job.status = "queued" /\ job' = [status |-> "leased", attempt |-> job.attempt + 1]
  <2>1. Queue!Grant(JobKey)
    BY <1>0, <1>1 DEF Queue!Grant
  <2> QED BY <2>1 DEF Queue!Next
<1>2. CASE job.status = "leased" /\ job' = GivenBack
  <2>1. /\ job'.attempt = job.attempt
        /\ job'.status = IF job.attempt = MaxAttempts THEN "dead" ELSE "queued"
    BY <1>0, <1>2 DEF GivenBack, JobRow
  <2>2. Queue!Lose(JobKey)
    <3>1. CASE job.attempt = MaxAttempts
      BY <1>2, <2>1, <3>1 DEF Queue!Lose
    <3>2. CASE job.attempt # MaxAttempts
      <4>1. job.attempt < MaxAttempts
        BY <1>0, <3>2, InvestigationConstants
      <4> QED BY <1>2, <2>1, <3>2, <4>1 DEF Queue!Lose
    <3> QED BY <3>1, <3>2
  <2> QED BY <2>2 DEF Queue!Next
<1>3. CASE job.status = "leased" /\ job' = [job EXCEPT !.status = "done"]
  <2>1. job'.attempt = job.attempt /\ job'.status = "done"
    BY <1>0, <1>3 DEF JobRow
  <2>2. Queue!Finish(JobKey)
    BY <1>3, <2>1 DEF Queue!Finish
  <2> QED BY <2>2 DEF Queue!Next
<1> QED BY <1>1, <1>2, <1>3 DEF JobMove

\* The model of an investigation uses its job as FencedJobs, which JobQueue implements,
\* lets it: it is claimed, given up or completed, and nothing else is asked of the queue
\* (complete, fail and the reaper in app/queue/jobs.py).
THEOREM InvestigationUsesTheQueue == InvestigationSpec => UsesFencedJobs
<1>1. InvestigationInit => job = [status |-> "queued", attempt |-> 0]
  BY DEF InvestigationInit
<1>2. InvestigationInv /\ [InvestigationNext]_invVars => [Queue!Next]_(Queue!vars)
  <2> SUFFICES ASSUME InvestigationInv, [InvestigationNext]_invVars
               PROVE  Queue!Next \/ UNCHANGED Queue!vars
    OBVIOUS
  <2>1. CASE UNCHANGED job
    BY <2>1 DEF Queue!vars
  <2> QED BY <2>1, JobMoves, JobMovesAreSteps DEF InvestigationInv
<1> QED BY <1>1, <1>2, InvHolds, PTL DEF InvestigationSpec, UsesFencedJobs

-----------------------------------------------------------------------------
(* Transcript: the turns one after the other                               *)

\* A set of numbers has a least element.
LEMMA Least ==
  ASSUME NEW X, X \subseteq Nat, X # {}
  PROVE  \E n \in X : \A m \in X : n <= m
<1> DEFINE T == {0 .. n : n \in X}
<1>1. IsWellFoundedOn(StrictSubsetOrdering(Nat), FiniteSubsetsOf(Nat))
  BY FS_StrictSubsetOrderingWellFounded
<1>2. \A n \in X : 0 .. n \in SUBSET Nat /\ IsFiniteSet(0 .. n)
  BY FS_Interval
<1>3. T \subseteq FiniteSubsetsOf(Nat) /\ T # {}
  BY <1>2 DEF FiniteSubsetsOf
<1>4. PICK t \in T : \A u \in T : <<u, t>> \notin StrictSubsetOrdering(Nat)
  <2> HIDE DEF T
  <2> QED BY <1>1, <1>3, WFMin
<1>5. PICK n \in X : t = 0 .. n
  BY <1>4
<1>6. \A m \in X : n <= m
  <2> SUFFICES ASSUME NEW m \in X, m < n PROVE FALSE
    BY <1>5
  <2>1. 0 .. m \in T /\ 0 .. m \subseteq 0 .. n /\ n \in 0 .. n /\ n \notin 0 .. m
    BY <1>5
  <2>2. <<0 .. m, t>> \in StrictSubsetOrdering(Nat)
    BY <2>1, <1>2, <1>5 DEF StrictSubsetOrdering
  <2> QED BY <2>1, <2>2, <1>4
<1> QED BY <1>6

\* What the first m turns render to, step by step.
RenderedUpTo(g, ts, m) ==
    g = [n \in 0..m |-> IF n = 0 THEN [pending |-> 0, messages |-> <<>>] ELSE RenderTurn(g[n - 1], ts[n], n)]

LEMMA RenderedTrail ==
  ASSUME NEW ts, NEW len \in Nat, Len(ts) = len
  PROVE  \E g : RenderedUpTo(g, ts, len) /\ Rendered(ts) = g[len]
<1> DEFINE Bad == {m \in 0..len : ~\E g : RenderedUpTo(g, ts, m)}
<1>1. Bad = {}
  <2> SUFFICES ASSUME Bad # {} PROVE FALSE
    OBVIOUS
  <2>1. PICK m \in Bad : \A k \in Bad : m <= k
    <3>1. Bad \subseteq Nat
      OBVIOUS
    <3> HIDE DEF Bad
    <3> QED BY <3>1, Least
  <2>2. m \in 0..len
    OBVIOUS
  <2>3. CASE m = 0
    <3> DEFINE g == [n \in 0..m |-> [pending |-> 0, messages |-> <<>>]]
    <3>1. RenderedUpTo(g, ts, m)
      BY <2>3 DEF RenderedUpTo
    <3> QED BY <3>1
  <2>4. CASE m # 0
    <3>1. m - 1 \in 0..len /\ m - 1 \notin Bad
      <4> HIDE DEF Bad
      <4> QED BY <2>1, <2>2, <2>4
    <3>2. PICK g : RenderedUpTo(g, ts, m - 1)
      BY <3>1
    <3> DEFINE h == [n \in 0..m |-> IF n = m THEN RenderTurn(g[m - 1], ts[m], m) ELSE g[n]]
    <3>3. \A n \in 0..m : h[n] = IF n = 0 THEN [pending |-> 0, messages |-> <<>>] ELSE RenderTurn(h[n - 1], ts[n], n)
      <4> SUFFICES ASSUME NEW n \in 0..m
                   PROVE  h[n] = IF n = 0 THEN [pending |-> 0, messages |-> <<>>] ELSE RenderTurn(h[n - 1], ts[n], n)
        OBVIOUS
      <4>1. CASE n = m
        <5>1. h[n - 1] = g[m - 1] /\ h[n] = RenderTurn(g[m - 1], ts[m], m)
          BY <2>2, <2>4, <4>1
        <5> QED BY <2>4, <4>1, <5>1, Zenon
      <4>2. CASE n # m
        <5>1. n \in 0..m - 1 /\ h[n] = g[n]
          BY <2>2, <4>2
        <5>2. g[n] = IF n = 0 THEN [pending |-> 0, messages |-> <<>>] ELSE RenderTurn(g[n - 1], ts[n], n)
          BY <3>2, <5>1, Zenon DEF RenderedUpTo
        <5>3. n # 0 => h[n - 1] = g[n - 1]
          BY <2>2, <5>1
        <5> HIDE DEF h
        <5> QED BY <5>1, <5>2, <5>3, Zenon
      <4> QED BY <4>1, <4>2
    <3>4. h = [n \in 0..m |-> h[n]]
      BY Zenon
    <3> HIDE DEF h
    <3>5. RenderedUpTo(h, ts, m)
      BY <3>3, <3>4, Zenon DEF RenderedUpTo
    <3> QED BY <3>5
  <2> QED BY <2>3, <2>4
<1>2. \E g : RenderedUpTo(g, ts, len)
  <2>1. len \in 0..len /\ len \notin Bad
    BY <1>1
  <2> QED BY <2>1
<1> DEFINE G == CHOOSE g : g = [n \in 0..Len(ts) |->
                  IF n = 0 THEN [pending |-> 0, messages |-> <<>>] ELSE RenderTurn(g[n - 1], ts[n], n)]
<1>3. RenderedUpTo(G, ts, len)
  BY <1>2, Zenon DEF RenderedUpTo
<1>4. Rendered(ts) = G[len]
  BY Zenon DEF Rendered
<1> QED BY <1>3, <1>4, Zenon

LEMMA RenderedNone ==
  Rendered(<<>>) = [pending |-> 0, messages |-> <<>>]
<1>1. PICK g : RenderedUpTo(g, <<>>, 0) /\ Rendered(<<>>) = g[0]
  <2>1. 0 \in Nat /\ Len(<<>>) = 0
    OBVIOUS
  <2> QED BY <2>1, RenderedTrail, Zenon
<1>2. 0 \in 0..0
  OBVIOUS
<1> QED BY <1>1, <1>2, Zenon DEF RenderedUpTo

\* A turn is rendered after those before it.
LEMMA RenderedNext ==
  ASSUME NEW X, NEW ts \in Seq(X), NEW t \in X
  PROVE  Rendered(Append(ts, t)) = RenderTurn(Rendered(ts), t, Len(ts) + 1)
<1> DEFINE len == Len(ts)
           more == Append(ts, t)
<1>1. /\ len \in Nat /\ Len(more) = len + 1 /\ more[len + 1] = t
      /\ \A n \in 1..len : more[n] = ts[n]
  OBVIOUS
<1> HIDE DEF more
<1>2. PICK g : RenderedUpTo(g, ts, len) /\ Rendered(ts) = g[len]
  BY <1>1, RenderedTrail
<1>3. PICK h : RenderedUpTo(h, more, len + 1) /\ Rendered(more) = h[len + 1]
  BY <1>1, RenderedTrail
<1> DEFINE Bad == {n \in 0..len : g[n] # h[n]}
<1> HIDE DEF len
<1>4. /\ \A n \in 0..len : g[n] = IF n = 0 THEN [pending |-> 0, messages |-> <<>>] ELSE RenderTurn(g[n - 1], ts[n], n)
      /\ \A n \in 0..len + 1 :
            h[n] = IF n = 0 THEN [pending |-> 0, messages |-> <<>>] ELSE RenderTurn(h[n - 1], more[n], n)
  BY <1>2, <1>3, Zenon DEF RenderedUpTo
<1>5. Bad = {}
  <2> SUFFICES ASSUME Bad # {} PROVE FALSE
    OBVIOUS
  <2>1. PICK m \in Bad : \A k \in Bad : m <= k
    <3>1. Bad \subseteq Nat
      BY <1>1
    <3> HIDE DEF Bad
    <3> QED BY <3>1, Least
  <2>2. m \in 0..len /\ m \in 0..len + 1 /\ g[m] # h[m]
    BY <1>1
  <2>3. m # 0
    BY <1>4, <2>2, Zenon
  <2>4. m - 1 \in 0..len /\ m - 1 \notin Bad
    <3> HIDE DEF Bad
    <3> QED BY <1>1, <2>1, <2>2, <2>3
  <2>5. g[m - 1] = h[m - 1] /\ more[m] = ts[m]
    BY <1>1, <2>2, <2>3, <2>4
  <2>6. g[m] = RenderTurn(g[m - 1], ts[m], m) /\ h[m] = RenderTurn(h[m - 1], more[m], m)
    BY <1>4, <2>2, <2>3, Zenon
  <2> QED BY <2>2, <2>5, <2>6, Zenon
<1>6. g[len] = h[len]
  <2>1. len \in 0..len
    BY <1>1
  <2> QED BY <1>5, <2>1
<1>7. h[len + 1] = RenderTurn(h[len], t, len + 1)
  <2>1. len + 1 \in 0..len + 1 /\ len + 1 # 0 /\ (len + 1) - 1 = len
    BY <1>1
  <2>2. h[len + 1] = RenderTurn(h[(len + 1) - 1], more[len + 1], len + 1)
    BY <1>4, <2>1, Zenon
  <2> QED BY <2>1, <2>2, <1>1
<1> QED BY <1>2, <1>3, <1>6, <1>7, Zenon DEF more, len

-----------------------------------------------------------------------------
(* Transcript: what is rendered is accepted                                *)

Block == [type: {"text", "tool_use", "tool_result"}, id: Nat]
Message == [role: {"user", "assistant"}, content: Seq(Block)]

\* RequestAccepted, of messages.
Accepted(ms) ==
    /\ ms[1].role = "user" /\ Last(ms).role = "user"
    /\ \A k \in 1..Len(ms) - 1 : ms[k].role # ms[k + 1].role
    /\ \A k \in 1..Len(ms) :
         ms[k].role = "user" =>
           IdsOf(ms[k], "tool_result") = IF k = 1 THEN {} ELSE IdsOf(ms[k - 1], "tool_use")

Turn == {User} \cup {StepTurn(ids, final) : ids \in Seq(Nat), final \in BOOLEAN}
               \cup {ResultsTurn(ids) : ids \in Seq(Nat)}

\* No final answer waits for its result when a request is made.
TranscriptInv ==
    /\ turns \in Seq(Turn)
    /\ Rendered(turns).pending = 0
    /\ render_messages(turns) \in Seq(Message) /\ render_messages(turns) # <<>>
    /\ Accepted(render_messages(turns))

LEMMA BlocksAre ==
  ASSUME NEW type \in {"text", "tool_use", "tool_result"}, NEW ids \in Seq(Nat)
  PROVE  /\ Blocks(type, ids) \in Seq(Block) /\ Len(Blocks(type, ids)) = Len(ids)
         /\ \A k \in 1..Len(ids) : Blocks(type, ids)[k] = [type |-> type, id |-> ids[k]]
  BY DEF Blocks, Block

LEMMA TextIs ==
  /\ Blocks("text", <<0>>) \in Seq(Block) /\ Len(Blocks("text", <<0>>)) = 1
  /\ Blocks("text", <<0>>)[1].type = "text" /\ Blocks("text", <<0>>) # <<>>
<1>1. <<0>> \in Seq(Nat) /\ Len(<<0>>) = 1 /\ 1 \in 1..1
  OBVIOUS
<1>2. /\ Blocks("text", <<0>>) \in Seq(Block) /\ Len(Blocks("text", <<0>>)) = 1
      /\ Blocks("text", <<0>>)[1] = [type |-> "text", id |-> <<0>>[1]]
  BY <1>1, BlocksAre
<1> QED BY <1>2

LEMMA OneMore ==
  ASSUME NEW X, NEW s \in Seq(X), NEW t \in Seq(X), Len(t) = 1
  PROVE  /\ s \o t \in Seq(X) /\ Len(s \o t) = Len(s) + 1 /\ Len(s) \in Nat
         /\ (s \o t)[Len(s) + 1] = t[1]
         /\ \A k \in 1..Len(s) : (s \o t)[k] = s[k]
<1>1. /\ s \o t \in Seq(X) /\ Len(s \o t) = Len(s) + Len(t)
      /\ \A i \in 1..Len(s) + Len(t) : (s \o t)[i] = IF i <= Len(s) THEN s[i] ELSE t[i - Len(s)]
  BY ConcatProperties
<1> DEFINE st == s \o t
<1>2. Len(s) \in Nat
  OBVIOUS
<1> HIDE DEF st
<1> QED BY <1>1, <1>2 DEF st

\* The ids of a message of one kind of block.
LEMMA IdsOfBlocks ==
  ASSUME NEW type \in {"text", "tool_use", "tool_result"}, NEW other, NEW role, NEW ids \in Seq(Nat)
  PROVE  IdsOf([role |-> role, content |-> Blocks(type, ids)], other)
            = IF other = type THEN {ids[k] : k \in 1..Len(ids)} ELSE {}
<1> DEFINE content == Blocks(type, ids)
<1>1. /\ content \in Seq(Block) /\ Len(content) = Len(ids)
      /\ \A k \in 1..Len(ids) : content[k] = [type |-> type, id |-> ids[k]]
  BY BlocksAre
<1> HIDE DEF content
<1>2. ToSet(content) = {content[k] : k \in 1..Len(ids)}
  BY <1>1 DEF ToSet
<1>3. {b.id : b \in {c \in ToSet(content) : c.type = other}} = IF other = type THEN {ids[k] : k \in 1..Len(ids)} ELSE {}
  <2>1. \A c \in ToSet(content) : c.type = type
    <3> SUFFICES ASSUME NEW k \in 1..Len(ids) PROVE content[k].type = type
      BY <1>2
    <3>1. content[k] = [type |-> type, id |-> ids[k]]
      BY <1>1
    <3> QED BY <3>1
  <2>2. CASE other = type
    <3>1. {c \in ToSet(content) : c.type = other} = ToSet(content)
      BY <2>1, <2>2
    <3>2. {b.id : b \in ToSet(content)} = {ids[k] : k \in 1..Len(ids)}
      <4>1. \A k \in 1..Len(ids) : content[k].id = ids[k]
        <5> SUFFICES ASSUME NEW k \in 1..Len(ids) PROVE content[k].id = ids[k]
          OBVIOUS
        <5>1. content[k] = [type |-> type, id |-> ids[k]]
          BY <1>1
        <5> QED BY <5>1
      <4>2. {b.id : b \in ToSet(content)} = {content[k].id : k \in 1..Len(ids)}
        BY <1>2
      <4> QED BY <4>1, <4>2
    <3> QED BY <2>2, <3>1, <3>2
  <2>3. CASE other # type
    <3>1. {c \in ToSet(content) : c.type = other} = {}
      BY <2>1, <2>3
    <3> QED BY <2>3, <3>1
  <2> QED BY <2>2, <2>3
<1>4. IdsOf([role |-> role, content |-> content], other) = {b.id : b \in {c \in ToSet(content) : c.type = other}}
  BY Zenon DEF IdsOf
<1> QED BY <1>3, <1>4 DEF content

\* A text answers nothing and calls nothing.
LEMMA IdsOfText ==
  ASSUME NEW message \in Message, NEW other \in {"tool_use", "tool_result"}
  PROVE  IdsOf([message EXCEPT !.content = @ \o Blocks("text", <<0>>)], other) = IdsOf(message, other)
<1> DEFINE old == message.content
           text == Blocks("text", <<0>>)
           new == old \o text
<1>1. /\ text \in Seq(Block) /\ Len(text) = 1 /\ text[1].type = "text" /\ old \in Seq(Block)
  BY TextIs DEF Message
<1> HIDE DEF text, old
<1>2. /\ new \in Seq(Block) /\ Len(new) = Len(old) + 1 /\ new[Len(old) + 1] = text[1]
      /\ \A k \in 1..Len(old) : new[k] = old[k]
  BY <1>1, OneMore
<1> HIDE DEF new
<1>3. ToSet(new) = ToSet(old) \cup {text[1]}
  <2>1. \A b : b \in ToSet(new) <=> \E k \in 1..Len(old) + 1 : b = new[k]
    BY <1>2 DEF ToSet
  <2>2. \A b : b \in ToSet(old) <=> \E k \in 1..Len(old) : b = old[k]
    BY <1>1 DEF ToSet
  <2>3. Len(old) \in Nat
    BY <1>1
  <2> QED BY <1>2, <2>1, <2>2, <2>3
<1>4. {c \in ToSet(new) : c.type = other} = {c \in ToSet(old) : c.type = other}
  BY <1>1, <1>3
<1>5. [message EXCEPT !.content = @ \o Blocks("text", <<0>>)].content = new
  BY DEF Message, new, old, text
<1> QED BY <1>4, <1>5, Zenon DEF IdsOf, old

\* A message to the agent joins the results before it.
LEMMA NoteAccepted ==
  ASSUME NEW ms \in Seq(Message), ms # <<>>, Accepted(ms)
  PROVE  LET more == AppendBlocks(ms, "user", Blocks("text", <<0>>))
         IN  more \in Seq(Message) /\ more # <<>> /\ Accepted(more)
<1> DEFINE text == Blocks("text", <<0>>)
           more == AppendBlocks(ms, "user", text)
           len == Len(ms)
<1>1. text \in Seq(Block) /\ Len(text) = 1 /\ text # <<>>
  BY TextIs
<1>2. len \in Nat /\ len > 0 /\ Last(ms) = ms[len] /\ ms[len].role = "user" /\ \A k \in 1..len : ms[k] \in Message
  BY DEF Accepted, Last
<1>3. more = [ms EXCEPT ![len].content = @ \o text]
  <2> HIDE DEF text
  <2> QED BY <1>1, <1>2 DEF AppendBlocks
<1>4. /\ Len(more) = len /\ more[len] = [ms[len] EXCEPT !.content = @ \o text]
      /\ \A k \in 1..len : k # len => more[k] = ms[k]
  <2> HIDE DEF text
  <2>1. more = [ms EXCEPT ![len] = [ms[len] EXCEPT !.content = @ \o text]]
    BY <1>3
  <2> DEFINE joined == [ms[len] EXCEPT !.content = @ \o text]
  <2>2. more = [ms EXCEPT ![len] = joined]
    BY <2>1
  <2> HIDE DEF more, joined
  <2>3. len \in 1..len /\ ms \in Seq(Message)
    BY <1>2
  <2>4. /\ Len(more) = len /\ more[len] = joined
        /\ \A k \in 1..len : k # len => more[k] = ms[k]
    BY <2>2, <2>3
  <2> QED BY <2>4 DEF joined
<1>5. more[len] \in Message /\ more[len].role = "user"
  <2>1. ms[len] \in Message
    BY <1>2
  <2>2. ms[len].content \in Seq(Block) /\ DOMAIN ms[len] = {"role", "content"}
    BY <2>1 DEF Message
  <2> HIDE DEF text, more
  <2>3. ms[len].content \o text \in Seq(Block)
    BY <1>1, <2>2
  <2> DEFINE content == ms[len].content \o text
  <2> HIDE DEF content, len
  <2>4. more[len] = [ms[len] EXCEPT !.content = content]
    BY <1>4, Zenon DEF content
  <2>5. content \in Seq(Block)
    BY <2>3 DEF content
  <2>6. ms[len].role = "user"
    BY <1>2
  <2> QED BY <2>1, <2>4, <2>5, <2>6 DEF Message
<1>6. more \in Seq(Message)
  <2> HIDE DEF text, more
  <2>1. more \in [1..len -> Message]
    <3>1. more = [k \in 1..len |-> more[k]]
      <4> HIDE DEF len
      <4>1. ms = [k \in 1..len |-> ms[k]]
        BY <1>2 DEF len
      <4> QED BY <1>3, <4>1
    <3> HIDE DEF len
    <3> QED BY <3>1, <1>2, <1>4, <1>5
  <2> QED BY <1>2, <2>1
<1>7. \A other \in {"tool_use", "tool_result"} : \A k \in 1..len : IdsOf(more[k], other) = IdsOf(ms[k], other)
  <2> SUFFICES ASSUME NEW other \in {"tool_use", "tool_result"}, NEW k \in 1..len
               PROVE  IdsOf(more[k], other) = IdsOf(ms[k], other)
    OBVIOUS
  <2> HIDE DEF more, len, text
  <2>1. CASE k = len
    <3>1. ms[len] \in Message
      BY <1>2, <2>1
    <3>2. more[k] = [ms[len] EXCEPT !.content = @ \o Blocks("text", <<0>>)]
      BY <1>4, <2>1, Zenon DEF text
    <3>3. IdsOf([ms[len] EXCEPT !.content = @ \o Blocks("text", <<0>>)], other) = IdsOf(ms[len], other)
      BY <3>1, IdsOfText, Zenon
    <3> QED BY <2>1, <3>2, <3>3, Zenon
  <2>2. CASE k # len
    BY <1>4, <2>2, Zenon
  <2> QED BY <2>1, <2>2
<1>8. \A k \in 1..len : more[k].role = ms[k].role
  <2> HIDE DEF more, len
  <2> QED BY <1>2, <1>4, <1>5
<1>9. Accepted(more)
  <2>1. Last(more) = more[len]
    <3> HIDE DEF more, len
    <3> QED BY <1>4 DEF Last
  <2>2. /\ ms[1].role = "user"
        /\ \A k \in 1..len - 1 : ms[k].role # ms[k + 1].role
        /\ \A k \in 1..len : ms[k].role = "user" =>
              IdsOf(ms[k], "tool_result") = IF k = 1 THEN {} ELSE IdsOf(ms[k - 1], "tool_use")
    BY Zenon DEF Accepted
  <2> HIDE DEF more, len
  <2>3. more[1].role = "user" /\ more[len].role = "user"
    BY <1>2, <1>5, <1>8, <2>2
  <2>4. \A k \in 1..len - 1 : more[k].role # more[k + 1].role
    BY <1>2, <1>8, <2>2
  <2>5. \A k \in 1..len : more[k].role = "user" =>
              IdsOf(more[k], "tool_result") = IF k = 1 THEN {} ELSE IdsOf(more[k - 1], "tool_use")
    BY <1>2, <1>7, <1>8, <2>2
  <2> QED BY <1>4, <2>1, <2>3, <2>4, <2>5 DEF Accepted
<1>10. more # <<>>
  <2> HIDE DEF more
  <2> QED BY <1>2, <1>4
<1> QED BY <1>6, <1>9, <1>10

\* Calls and their results, one message each.
LEMMA CallsAccepted ==
  ASSUME NEW ms \in Seq(Message), ms # <<>>, Accepted(ms), NEW ids \in Seq(Nat), ids # <<>>
  PROVE  LET more == AppendBlocks(AppendBlocks(ms, "assistant", Blocks("tool_use", ids)),
                                  "user", Blocks("tool_result", ids))
         IN  more \in Seq(Message) /\ more # <<>> /\ Accepted(more)
<1> DEFINE call == [role |-> "assistant", content |-> Blocks("tool_use", ids)]
           answer == [role |-> "user", content |-> Blocks("tool_result", ids)]
           one == ms \o <<call>>
           more == one \o <<answer>>
           len == Len(ms)
<1>1. len \in Nat /\ len > 0 /\ Last(ms) = ms[len] /\ ms[len].role = "user"
  BY DEF Accepted, Last
<1>2. call \in Message /\ answer \in Message /\ Blocks("tool_use", ids) # <<>> /\ Blocks("tool_result", ids) # <<>>
  <2>1. /\ Blocks("tool_use", ids) \in Seq(Block) /\ Len(Blocks("tool_use", ids)) = Len(ids)
        /\ Blocks("tool_result", ids) \in Seq(Block) /\ Len(Blocks("tool_result", ids)) = Len(ids)
    BY BlocksAre
  <2>2. Len(ids) # 0
    OBVIOUS
  <2> QED BY <2>1, <2>2 DEF Message
<1>3. call.role = "assistant" /\ answer.role = "user"
  OBVIOUS
<1>4. AppendBlocks(ms, "assistant", Blocks("tool_use", ids)) = one
  BY <1>1, <1>2 DEF AppendBlocks
<1> HIDE DEF call, answer
<1>5. /\ one \in Seq(Message) /\ Len(one) = len + 1 /\ one[len + 1] = call /\ one # <<>>
      /\ \A k \in 1..len : one[k] = ms[k]
  BY <1>1, <1>2
<1> HIDE DEF one
<1>6. AppendBlocks(one, "user", Blocks("tool_result", ids)) = one \o <<answer>>
  <2>1. Last(one).role # "user"
    BY <1>3, <1>5 DEF Last
  <2> QED BY <1>2, <1>5, <2>1 DEF AppendBlocks, answer
<1>7. /\ more \in Seq(Message) /\ Len(more) = len + 2 /\ more[len + 2] = answer /\ more # <<>>
      /\ more[len + 1] = call /\ \A k \in 1..len : more[k] = ms[k]
  BY <1>1, <1>2, <1>5
<1> HIDE DEF more
<1>8. IdsOf(answer, "tool_result") = IdsOf(call, "tool_use")
  <2>1. IdsOf(answer, "tool_result") = {ids[k] : k \in 1..Len(ids)}
    BY IdsOfBlocks, Zenon DEF answer
  <2>2. IdsOf(call, "tool_use") = {ids[k] : k \in 1..Len(ids)}
    BY IdsOfBlocks, Zenon DEF call
  <2> QED BY <2>1, <2>2
<1>9. Accepted(more)
  <2>1. Last(more) = answer
    BY <1>7 DEF Last
  <2>2. /\ ms[1].role = "user"
        /\ \A k \in 1..len - 1 : ms[k].role # ms[k + 1].role
        /\ \A k \in 1..len : ms[k].role = "user" =>
              IdsOf(ms[k], "tool_result") = IF k = 1 THEN {} ELSE IdsOf(ms[k - 1], "tool_use")
    BY Zenon DEF Accepted
  <2> HIDE DEF len
  <2>3. more[1].role = "user"
    BY <1>1, <1>7, <2>2
  <2>4. \A k \in 1..Len(more) - 1 : more[k].role # more[k + 1].role
    <3> SUFFICES ASSUME NEW k \in 1..Len(more) - 1 PROVE more[k].role # more[k + 1].role
      OBVIOUS
    <3>1. CASE k < len
      <4>1. more[k] = ms[k] /\ more[k + 1] = ms[k + 1]
        BY <1>1, <1>7, <3>1
      <4>2. k \in 1..len - 1
        BY <1>1, <3>1
      <4> QED BY <2>2, <4>1, <4>2, Zenon
    <3>2. CASE k = len
      BY <1>1, <1>3, <1>7, <3>2
    <3>3. CASE k = len + 1
      BY <1>1, <1>3, <1>7, <3>3
    <3> QED BY <1>1, <1>7, <3>1, <3>2, <3>3
  <2>5. \A k \in 1..Len(more) : more[k].role = "user" =>
              IdsOf(more[k], "tool_result") = IF k = 1 THEN {} ELSE IdsOf(more[k - 1], "tool_use")
    <3> SUFFICES ASSUME NEW k \in 1..Len(more), more[k].role = "user"
                 PROVE  IdsOf(more[k], "tool_result") = IF k = 1 THEN {} ELSE IdsOf(more[k - 1], "tool_use")
      OBVIOUS
    <3>1. CASE k \in 1..len
      <4>1. more[k] = ms[k] /\ (k # 1 => more[k - 1] = ms[k - 1])
        BY <1>1, <1>7, <3>1
      <4> QED BY <2>2, <3>1, <4>1
    <3>2. CASE k = len + 1
      BY <1>3, <1>7, <3>2
    <3>3. CASE k = len + 2
      <4>1. k # 1 /\ more[k] = answer /\ more[k - 1] = call
        BY <1>1, <1>7, <3>3
      <4> QED BY <1>8, <4>1
    <3> QED BY <1>1, <1>7, <3>1, <3>2, <3>3
  <2> QED BY <1>3, <2>1, <2>3, <2>4, <2>5 DEF Accepted
<1> QED BY <1>4, <1>6, <1>7, <1>9 DEF more

\* What one step writes, turn by turn.
LEMMA TwoTurns ==
  ASSUME NEW ts \in Seq(Turn), NEW s \in Turn, NEW t \in Turn
  PROVE  /\ ts \o <<s, t>> \in Seq(Turn)
         /\ Rendered(ts \o <<s, t>>) =
              RenderTurn(RenderTurn(Rendered(ts), s, Len(ts) + 1), t, Len(ts) + 2)
<1>1. ts \o <<s, t>> = Append(Append(ts, s), t)
  OBVIOUS
<1>2. Append(ts, s) \in Seq(Turn) /\ Len(Append(ts, s)) + 1 = Len(ts) + 2
  OBVIOUS
<1>3. Append(Append(ts, s), t) \in Seq(Turn)
  BY <1>2
<1>4. Rendered(Append(Append(ts, s), t)) = RenderTurn(Rendered(Append(ts, s)), t, Len(Append(ts, s)) + 1)
  BY <1>2, RenderedNext
<1>5. Rendered(Append(ts, s)) = RenderTurn(Rendered(ts), s, Len(ts) + 1)
  BY RenderedNext
<1> QED BY <1>1, <1>2, <1>3, <1>4, <1>5

LEMMA UserRendered ==
  ASSUME NEW acc, NEW i
  PROVE  RenderTurn(acc, User, i) =
           [pending |-> 0, messages |-> AppendBlocks(acc.messages, "user", UserBlock(acc.pending))]
<1>1. User.type = "user"
  BY DEF User
<1> QED BY <1>1, Zenon DEF RenderTurn

LEMMA StepRendered ==
  ASSUME NEW acc, NEW i, NEW ids \in Seq(Nat), NEW final \in BOOLEAN
  PROVE  RenderTurn(acc, StepTurn(ids, final), i) =
           [pending |-> IF final THEN FinalId(i) ELSE acc.pending,
            messages |-> AppendBlocks(acc.messages, "assistant",
                           Blocks("tool_use", ids \o IF final THEN <<FinalId(i)>> ELSE <<>>))]
<1> DEFINE turn == StepTurn(ids, final)
<1>1. turn.type = "step" /\ turn.type # "user" /\ turn.ids = ids /\ turn.final = final
  BY DEF StepTurn
<1> HIDE DEF turn
<1>2. RenderTurn(acc, turn, i) =
        [pending |-> IF turn.final THEN FinalId(i) ELSE acc.pending,
         messages |-> AppendBlocks(acc.messages, "assistant",
                        Blocks("tool_use", turn.ids \o IF turn.final THEN <<FinalId(i)>> ELSE <<>>))]
  BY <1>1, Zenon DEF RenderTurn
<1> QED BY <1>1, <1>2, Zenon DEF turn

LEMMA ResultsRendered ==
  ASSUME NEW acc, NEW i, NEW ids
  PROVE  RenderTurn(acc, ResultsTurn(ids), i) =
           [pending |-> acc.pending,
            messages |-> AppendBlocks(acc.messages, "user", Blocks("tool_result", ids))]
<1> DEFINE turn == ResultsTurn(ids)
<1>1. turn.type = "results" /\ turn.type # "user" /\ turn.type # "step" /\ turn.ids = ids
  BY DEF ResultsTurn
<1> HIDE DEF turn
<1>2. RenderTurn(acc, turn, i) =
        [pending |-> acc.pending,
         messages |-> AppendBlocks(acc.messages, "user", Blocks("tool_result", turn.ids))]
  BY <1>1, Zenon DEF RenderTurn
<1> QED BY <1>1, <1>2, Zenon DEF turn

LEMMA TranscriptStart == TranscriptInit => TranscriptInv
<1> SUFFICES ASSUME TranscriptInit PROVE TranscriptInv
  OBVIOUS
<1> DEFINE first == [role |-> "user", content |-> Blocks("text", <<0>>)]
<1>1. User \in Turn /\ <<>> \in Seq(Turn) /\ turns = Append(<<>>, User) /\ turns \in Seq(Turn)
  BY DEF TranscriptInit, Turn
<1>2. Rendered(turns) = RenderTurn([pending |-> 0, messages |-> <<>>], User, Len(<<>>) + 1)
  BY <1>1, RenderedNone, RenderedNext
<1>3. Rendered(turns) = [pending |-> 0, messages |-> AppendBlocks(<<>>, "user", UserBlock(0))]
  BY <1>2, UserRendered
<1>4. AppendBlocks(<<>>, "user", UserBlock(0)) = <<first>>
  BY TextIs DEF AppendBlocks, UserBlock
<1>5. first \in Message /\ first.role = "user"
  BY TextIs DEF Message
<1>6. IdsOf(first, "tool_result") = {}
  <2>1. <<0>> \in Seq(Nat) /\ "tool_result" # "text"
    OBVIOUS
  <2> QED BY <2>1, IdsOfBlocks, Zenon
<1> HIDE DEF first
<1>7. Accepted(<<first>>)
  BY <1>5, <1>6 DEF Accepted, Last
<1>8. <<first>> \in Seq(Message) /\ <<first>> # <<>>
  BY <1>5
<1>9. Rendered(turns).pending = 0 /\ render_messages(turns) = <<first>>
  BY <1>3, <1>4 DEF render_messages
<1> QED BY <1>1, <1>7, <1>8, <1>9 DEF TranscriptInv

LEMMA TurnsAre ==
  ASSUME NEW ids \in Seq(Nat), NEW final \in BOOLEAN
  PROVE  StepTurn(ids, final) \in Turn /\ ResultsTurn(ids) \in Turn /\ User \in Turn
<1> DEFINE steps == {StepTurn(i, f) : i \in Seq(Nat), f \in BOOLEAN}
           results == {ResultsTurn(i) : i \in Seq(Nat)}
<1>1. StepTurn(ids, final) \in steps
  OBVIOUS
<1>2. ResultsTurn(ids) \in results
  OBVIOUS
<1>3. Turn = {User} \cup steps \cup results
  BY DEF Turn
<1> HIDE DEF steps, results
<1> QED BY <1>1, <1>2, <1>3

\* Calls, their results and a note.
LEMMA CallsKeep ==
  ASSUME TranscriptInv, NEW ids \in Seq(Nat), ids # <<>>,
         NEW note \in {<<>>, <<User>>}, turns' = turns \o <<StepTurn(ids, FALSE), ResultsTurn(ids)>> \o note
  PROVE  TranscriptInv'
<1> DEFINE s == StepTurn(ids, FALSE)
           t == ResultsTurn(ids)
           two == turns \o <<s, t>>
           ms == render_messages(turns)
           more == AppendBlocks(AppendBlocks(ms, "assistant", Blocks("tool_use", ids)),
                                "user", Blocks("tool_result", ids))
<1>1. turns \in Seq(Turn) /\ s \in Turn /\ t \in Turn /\ User \in Turn
  BY TurnsAre, Zenon DEF TranscriptInv
<1>2. ids \o <<>> = ids
  OBVIOUS
<1>3. Rendered(turns).pending = 0
  BY DEF TranscriptInv
<1>4. RenderTurn(Rendered(turns), s, Len(turns) + 1) =
        [pending |-> 0, messages |-> AppendBlocks(ms, "assistant", Blocks("tool_use", ids))]
  BY <1>2, <1>3, StepRendered DEF render_messages
<1>5. RenderTurn(RenderTurn(Rendered(turns), s, Len(turns) + 1), t, Len(turns) + 2) = [pending |-> 0, messages |-> more]
  <2> DEFINE acc == [pending |-> 0, messages |-> AppendBlocks(ms, "assistant", Blocks("tool_use", ids))]
  <2>1. acc.pending = 0 /\ acc.messages = AppendBlocks(ms, "assistant", Blocks("tool_use", ids))
    OBVIOUS
  <2> HIDE DEF acc
  <2>2. RenderTurn(acc, t, Len(turns) + 2) = [pending |-> 0, messages |-> more]
    BY <2>1, ResultsRendered
  <2> QED BY <1>4, <2>2 DEF acc
<1>6. two \in Seq(Turn) /\ Rendered(two) = [pending |-> 0, messages |-> more]
  BY <1>1, <1>5, TwoTurns
<1>7. ms \in Seq(Message) /\ ms # <<>> /\ Accepted(ms)
  BY DEF TranscriptInv
<1> HIDE DEF ms
<1>8. more \in Seq(Message) /\ more # <<>> /\ Accepted(more)
  BY <1>7, CallsAccepted
<1> HIDE DEF more, s, t
<1>9. CASE note = <<>>
  <2>1. turns' = two
    BY <1>6, <1>9 DEF s, t
  <2> HIDE DEF two
  <2>2. Rendered(turns').pending = 0 /\ render_messages(turns') = more
    <3>1. Rendered(turns') = [pending |-> 0, messages |-> more]
      BY <1>6, <2>1, Zenon
    <3> QED BY <3>1 DEF render_messages
  <2> QED BY <1>6, <1>8, <2>1, <2>2 DEF TranscriptInv, render_messages
<1>10. CASE note = <<User>>
  <2> DEFINE noted == AppendBlocks(more, "user", Blocks("text", <<0>>))
  <2>1. turns' = two \o <<User>>
    BY <1>10 DEF s, t
  <2> HIDE DEF two
  <2>2. turns' = Append(two, User) /\ turns' \in Seq(Turn)
    <3>1. two \o <<User>> = Append(two, User) /\ two \o <<User>> \in Seq(Turn)
      <4>1. User \in Turn /\ two \in Seq(Turn)
        BY <1>1, <1>6
      <4> QED BY <4>1
    <3> QED BY <2>1, <3>1, Zenon
  <2>3. Rendered(Append(two, User)) = RenderTurn([pending |-> 0, messages |-> more], User, Len(two) + 1)
    BY <1>1, <1>6, RenderedNext
  <2>4. RenderTurn([pending |-> 0, messages |-> more], User, Len(two) + 1) = [pending |-> 0, messages |-> noted]
    BY UserRendered DEF UserBlock
  <2>5. noted \in Seq(Message) /\ noted # <<>> /\ Accepted(noted)
    BY <1>8, NoteAccepted
  <2> HIDE DEF noted
  <2>6. Rendered(turns').pending = 0 /\ render_messages(turns') = noted
    <3>1. Rendered(turns') = [pending |-> 0, messages |-> noted]
      BY <2>2, <2>3, <2>4, Zenon
    <3> QED BY <3>1 DEF render_messages
  <2> QED BY <2>2, <2>5, <2>6 DEF TranscriptInv, render_messages
<1> QED BY <1>9, <1>10

\* A final answer that is refused, and the reasons: its result.
LEMMA FinalKeeps ==
  ASSUME TranscriptInv, turns' = turns \o <<StepTurn(<<>>, TRUE), User>>
  PROVE  TranscriptInv'
<1> DEFINE s == StepTurn(<<>>, TRUE)
           ms == render_messages(turns)
           id == FinalId(Len(turns) + 1)
           more == AppendBlocks(AppendBlocks(ms, "assistant", Blocks("tool_use", <<id>>)),
                                "user", Blocks("tool_result", <<id>>))
<1>1. turns \in Seq(Turn) /\ s \in Turn /\ User \in Turn /\ <<>> \in Seq(Nat)
  <2>1. <<>> \in Seq(Nat) /\ TRUE \in BOOLEAN
    OBVIOUS
  <2> QED BY <2>1, TurnsAre, Zenon DEF TranscriptInv
<1>2. id \in Nat /\ id # 0 /\ <<id>> \in Seq(Nat) /\ <<id>> # <<>> /\ <<>> \o <<id>> = <<id>>
  BY <1>1 DEF FinalId
<1> HIDE DEF id
<1>3. RenderTurn(Rendered(turns), s, Len(turns) + 1) =
        [pending |-> id, messages |-> AppendBlocks(ms, "assistant", Blocks("tool_use", <<id>>))]
  <2>1. RenderTurn(Rendered(turns), s, Len(turns) + 1) =
          [pending |-> IF TRUE THEN FinalId(Len(turns) + 1) ELSE Rendered(turns).pending,
           messages |-> AppendBlocks(Rendered(turns).messages, "assistant",
                          Blocks("tool_use", <<>> \o IF TRUE THEN <<FinalId(Len(turns) + 1)>> ELSE <<>>))]
    BY <1>1, StepRendered, Zenon
  <2>2. <<>> \o <<FinalId(Len(turns) + 1)>> = <<id>>
    BY <1>2 DEF id
  <2> QED BY <2>1, <2>2, Zenon DEF render_messages, id
<1>4. RenderTurn(RenderTurn(Rendered(turns), s, Len(turns) + 1), User, Len(turns) + 2) = [pending |-> 0, messages |-> more]
  <2> DEFINE acc == [pending |-> id, messages |-> AppendBlocks(ms, "assistant", Blocks("tool_use", <<id>>))]
  <2>1. acc.pending = id /\ acc.messages = AppendBlocks(ms, "assistant", Blocks("tool_use", <<id>>))
    OBVIOUS
  <2> HIDE DEF acc
  <2>2. UserBlock(acc.pending) = Blocks("tool_result", <<id>>)
    BY <1>2, <2>1 DEF UserBlock
  <2>3. RenderTurn(acc, User, Len(turns) + 2) = [pending |-> 0, messages |-> more]
    BY <2>1, <2>2, UserRendered
  <2> QED BY <1>3, <2>3 DEF acc
<1>5. turns' \in Seq(Turn) /\ Rendered(turns') = [pending |-> 0, messages |-> more]
  BY <1>1, <1>4, TwoTurns
<1>6. ms \in Seq(Message) /\ ms # <<>> /\ Accepted(ms)
  BY DEF TranscriptInv
<1> HIDE DEF ms
<1>7. more \in Seq(Message) /\ more # <<>> /\ Accepted(more)
  BY <1>2, <1>6, CallsAccepted
<1> HIDE DEF more
<1>8. Rendered(turns').pending = 0 /\ render_messages(turns') = more
  BY <1>5 DEF render_messages
<1> QED BY <1>5, <1>7, <1>8 DEF TranscriptInv, render_messages

LEMMA TranscriptStep == TranscriptInv /\ [TranscriptNext]_transcriptVars => TranscriptInv'
<1> SUFFICES ASSUME TranscriptInv, [TranscriptNext]_transcriptVars PROVE TranscriptInv'
  OBVIOUS
<1>1. CASE UNCHANGED transcriptVars
  BY <1>1 DEF transcriptVars, TranscriptInv
<1>2. ASSUME NEW actions \in 0..MaxActions + 1, NEW final \in BOOLEAN, Stepped(actions, final)
      PROVE  TranscriptInv'
  <2> DEFINE s == normalize_step(actions, final)
             n == IF s.actions < MaxActions THEN s.actions ELSE MaxActions
             ids == CallIds(n)
  <2>1. s.actions \in Nat
    BY TranscriptConstants DEF normalize_step
  <2>2. CASE s.actions > 0 /\ \E note \in {<<>>, <<User>>} :
                   turns' = turns \o <<StepTurn(ids, FALSE), ResultsTurn(ids)>> \o note
    <3>1. n \in Nat /\ n > 0 /\ Len(turns) \in Nat
      <4> HIDE DEF s
      <4> QED BY <2>1, <2>2, TranscriptConstants DEF TranscriptInv
    <3> HIDE DEF n, s
    <3>2. ids \in Seq(Nat) /\ Len(ids) = n
      BY <3>1 DEF CallIds
    <3>3. ids # <<>>
      BY <3>1, <3>2
    <3> QED BY <2>2, <3>2, <3>3, CallsKeep
  <2>3. CASE turns' = turns \o <<StepTurn(<<>>, TRUE), User>>
    BY <2>3, FinalKeeps
  <2> QED BY <1>2, <2>2, <2>3, Zenon DEF Stepped
<1> QED BY <1>1, <1>2 DEF TranscriptNext

\* However long an agent works, whatever it asks for and however often its final
\* answer is refused, its next request is accepted (_loop, render_messages).
THEOREM RequestsAccepted == TranscriptSpec => []RequestAccepted
<1>1. TranscriptInv => RequestAccepted
  BY Zenon DEF TranscriptInv, RequestAccepted, Accepted
<1> QED BY <1>1, TranscriptStart, TranscriptStep, PTL DEF TranscriptSpec

=============================================================================
