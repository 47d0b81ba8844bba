------------------------------- MODULE Replay -------------------------------
(***************************************************************************)
(* An investigation recorded and run again: the view an agent is told      *)
(* (app/db/investigations.py), what export keeps of a live run and how it  *)
(* is loaded (app/agents/recording.py, app/eval/replay.py), and the two    *)
(* cassettes that answer the replay (app/tools/sources.py,                 *)
(* app/llm/replay.py).                                                     *)
(*                                                                         *)
(* A live agent asks the model, which asks for the one tool of the model   *)
(* or gives its final answer; the tool never answers twice the same.  A    *)
(* request is what it hashes: the incident, the view and the tool answers  *)
(* so far.  All incidents fall into one related-window, and a row can be   *)
(* seen as soon as it has its created_at or closed_at.                     *)
(***************************************************************************)
EXTENDS Naturals, Sequences, FiniteSets, FiniteSetsExt

CONSTANTS
    AgentRuns,      \* pairs of an incident, a number, and an agent of it
    Fingerprints,   \* the fingerprints the incidents may have: functions of them
    MaxQueries,     \* bound: tool calls of an incident before its agents ask no more
    MaxReruns       \* bound: agents interrupted

\* The key of the queue of a tool's entries whoever asked: no agent's name.
AnyAgent == "any"

ASSUME ReplayConstants ==
    \A r \in AgentRuns : r = <<r[1], r[2]>> /\ r[1] \in Nat \ {0} /\ r[2] # AnyAgent

Investigated == {r[1] : r \in AgentRuns}

VARIABLES
    tick,
    fingerprint,
    phase, turn,    \* "live", "replay" of one incident after the other, "done"; or "failed"
    opened, shut,   \* per incident: created_at and closed_at, 0 for NULL
    live,       \* per agent run: where it is, what it was told and shown
    reruns,     \* agent runs that were interrupted and run again
    toolCalls,  \* per incident: rows of tool_calls, each an agent and an answer
    steps,      \* llm_calls: the model's answer to each request of each agent
    replayed,   \* per agent run: the same for the replay
    queues,     \* ReplaySource: the entries left under each key, as their places in the cassette
    lastOf      \* ReplaySource: what the entry last taken under each key answered

liveVars == <<tick, fingerprint, opened, shut, live, reruns, toolCalls, steps>>
source == <<queues, lastOf>>
replayVars == <<liveVars, phase, turn, replayed, source>>

NotRun == [pc |-> "idle", view |-> {}, shown |-> <<>>]

-----------------------------------------------------------------------------

\* incident_view: the incidents that were open when this one opened.
RelatedView(i, closed) ==
    {j \in Investigated \ {i} : /\ opened[j] \in 1..opened[i]
                                /\ closed[j] = 0 \/ closed[j] > opened[i]}

Request(r, run) == [run |-> r, view |-> run.view, shown |-> run.shown]

-----------------------------------------------------------------------------
(* The live run.                                                           *)

\* One webhook opens incidents, in one transaction and at one time.
Opens(new) ==
    /\ phase = "live"
    /\ new # {} /\ \A i \in new : opened[i] = 0
    /\ \A i \in new, j \in Investigated :
          i # j /\ fingerprint[j] = fingerprint[i] => j \notin new /\ (opened[j] > 0 => shut[j] > 0)
    /\ tick' = tick + 1
    /\ opened' = [i \in Investigated |-> IF i \in new THEN tick' ELSE opened[i]]
    /\ UNCHANGED <<fingerprint, shut, live, reruns, toolCalls, steps>>
    /\ UNCHANGED <<phase, turn, replayed, source>>

Closed(i) ==
    /\ phase = "live"
    /\ opened[i] > 0 /\ shut[i] = 0
    /\ \A r \in AgentRuns : r[1] = i => live[r].pc = "done"
    /\ tick' = tick + 1
    /\ shut' = [shut EXCEPT ![i] = tick']
    /\ UNCHANGED <<fingerprint, opened, live, reruns, toolCalls, steps>>
    /\ UNCHANGED <<phase, turn, replayed, source>>

Starts(r) ==
    /\ phase = "live" /\ opened[r[1]] > 0 /\ live[r].pc = "idle"
    /\ live' = [live EXCEPT ![r] = [pc |-> "think", view |-> RelatedView(r[1], shut), shown |-> <<>>]]
    /\ UNCHANGED <<tick, fingerprint, opened, shut, reruns, toolCalls, steps>>
    /\ UNCHANGED <<phase, turn, replayed, source>>

\* The model answers and the row is stored; of two rows for one request the
\* replay takes the later.
Answered(r, step) ==
    /\ phase = "live" /\ live[r].pc = "think"
    /\ step = "ask" => Len(toolCalls[r[1]]) < MaxQueries
    /\ steps' = {s \in steps : s.request # Request(r, live[r])}
                \cup {[request |-> Request(r, live[r]), step |-> step]}
    /\ live' = [live EXCEPT ![r].pc = IF step = "ask" THEN "ask" ELSE "done"]
    /\ UNCHANGED <<tick, fingerprint, opened, shut, reruns, toolCalls>>
    /\ UNCHANGED <<phase, turn, replayed, source>>

\* tool_entry: the row is tagged with the incident and the agent.
Called(r) ==
    /\ phase = "live" /\ live[r].pc = "ask"
    /\ LET answer == <<r[1], Len(toolCalls[r[1]])>>
       IN  /\ toolCalls' = [toolCalls EXCEPT ![r[1]] = Append(@, [agent |-> r[2], answer |-> answer])]
           /\ live' = [live EXCEPT ![r].pc = "think", ![r].shown = Append(@, answer)]
    /\ UNCHANGED <<tick, fingerprint, opened, shut, reruns, steps>>
    /\ UNCHANGED <<phase, turn, replayed, source>>

\* The worker dies; the job runs again, and the agent starts from nothing.
Interrupted(r) ==
    /\ phase = "live" /\ live[r].pc \in {"think", "ask"}
    /\ r \notin reruns /\ Cardinality(reruns) < MaxReruns
    /\ reruns' = reruns \cup {r}
    /\ live' = [live EXCEPT ![r] = NotRun]
    /\ UNCHANGED <<tick, fingerprint, opened, shut, toolCalls, steps>>
    /\ UNCHANGED <<phase, turn, replayed, source>>

-----------------------------------------------------------------------------
(* The replay.                                                             *)

\* incident_tools: only the entries of this incident.
incident_tools(i) == toolCalls[i]

NoEntry == <<0, 0>>

\* The keys an entry is filed under.
KeysOf_Slip(entry) == {AnyAgent}
KeysOf(entry) == {AnyAgent, entry.agent}

Keys == {AnyAgent} \cup {r[2] : r \in AgentRuns}

\* A ReplaySource for incident i: its queues, in the order of the rows.
Load(i) ==
    /\ queues' = [k \in Keys |-> {n \in DOMAIN incident_tools(i) : k \in KeysOf(incident_tools(i)[n])}]
    /\ lastOf' = [k \in Keys |-> NoEntry]

\* Oldest first, then by id.
InOrder(i, j) == opened[i] < opened[j] \/ (opened[i] = opened[j] /\ i <= j)

\* The first of the incidents still to be replayed, as a set of one or none.
NextOf(left) == {i \in left : \A j \in left : InOrder(i, j)}

TurnOf(left) ==
    IF left = {} THEN phase' = "done" /\ UNCHANGED <<turn, source>>
    ELSE \E i \in NextOf(left) : phase' = "replay" /\ turn' = i /\ Load(i)

\* _load: the rows come back, the investigated ones open again; the index of open
\* incidents by fingerprint refuses two of one fingerprint.
Loaded ==
    /\ phase = "live" /\ \A r \in AgentRuns : live[r].pc = "done"
    /\ IF \E i, j \in Investigated : i # j /\ fingerprint[i] = fingerprint[j]
       THEN phase' = "failed" /\ UNCHANGED <<turn, source>>
       ELSE TurnOf(Investigated)
    /\ UNCHANGED <<liveVars, replayed>>

\* An agent of the incident in turn is told of the incidents as they are loaded.
ReplayStarts(r) ==
    /\ phase = "replay" /\ turn = r[1] /\ replayed[r].pc = "idle"
    /\ replayed' = [replayed EXCEPT ![r] =
                      [pc |-> "think", view |-> RelatedView(r[1], [i \in Investigated |-> 0]), shown |-> <<>>]]
    /\ UNCHANGED <<liveVars, phase, turn, source>>

\* ReplayBackend.step: the recorded answer to this very request, or a miss.
ReplayAnswered(r) ==
    LET found == {s \in steps : s.request = Request(r, replayed[r])}
    IN  /\ phase = "replay" /\ turn = r[1] /\ replayed[r].pc = "think"
        /\ replayed' = [replayed EXCEPT ![r].pc =
                          IF found = {} THEN "missed"
                          ELSE IF \E s \in found : s.step = "ask" THEN "ask" ELSE "done"]
        /\ UNCHANGED <<liveVars, phase, turn, source>>

\* ReplaySource.fetch: the next entry under the agent's key, or the last one again;
\* if there never was one, the same under the key of any agent.
Key(agent) == IF queues[agent] # {} \/ lastOf[agent] # NoEntry THEN agent ELSE AnyAgent

ReplayCalled(r) ==
    LET k == Key(r[2])
    IN  /\ phase = "replay" /\ turn = r[1] /\ replayed[r].pc = "ask"
        /\ IF queues[k] # {}
           THEN LET first == Min(queues[k])
                IN  /\ queues' = [queues EXCEPT ![k] = @ \ {first}]
                    /\ lastOf' = [lastOf EXCEPT ![k] = incident_tools(turn)[first].answer]
           ELSE UNCHANGED source
        /\ replayed' = [replayed EXCEPT ![r].pc = "think", ![r].shown = Append(@, lastOf'[k])]
        /\ UNCHANGED <<liveVars, phase, turn>>

\* _drive has no job left: the next incident's turn.
NextTurn ==
    LET unplayed == {r[1] : r \in {s \in AgentRuns : replayed[s].pc = "idle"}}
    IN  /\ phase = "replay"
        /\ \A r \in AgentRuns : r[1] = turn => replayed[r].pc \in {"done", "missed"}
        /\ TurnOf(unplayed)
        /\ UNCHANGED <<liveVars, replayed>>

ReplayInit ==
    /\ tick = 1 /\ phase = "live" /\ turn = 0 /\ fingerprint \in Fingerprints
    /\ opened = [i \in Investigated |-> 0] /\ shut = [i \in Investigated |-> 0]
    /\ live = [r \in AgentRuns |-> NotRun] /\ replayed = [r \in AgentRuns |-> NotRun]
    /\ reruns = {} /\ steps = {} /\ toolCalls = [i \in Investigated |-> <<>>]
    /\ queues = [k \in Keys |-> {}] /\ lastOf = [k \in Keys |-> NoEntry]

ReplayNext ==
    \/ \E new \in SUBSET Investigated : Opens(new)
    \/ \E i \in Investigated : Closed(i)
    \/ \E r \in AgentRuns : \/ Starts(r) \/ Called(r) \/ Interrupted(r)
                            \/ \E step \in {"ask", "final"} : Answered(r, step)
                            \/ ReplayStarts(r) \/ ReplayAnswered(r) \/ ReplayCalled(r)
    \/ Loaded \/ NextTurn

ReplaySpec == ReplayInit /\ [][ReplayNext]_replayVars

-----------------------------------------------------------------------------

\* The incidents that had been closed when i was opened
ClosedBefore(i) == {j \in Investigated \ {i} : shut[j] > 0 /\ shut[j] <= opened[i]}

\* A replayed investigation runs with every incident of the recording in the
\* database, all of them open again (app/eval/replay.py:110), and is told what the
\* live one was told and of nothing else but those that had been closed before:
\* whichever existed when the live one began, only those opened when its own was
\* count (investigations.py:16).
ToldTheSame ==
    \A r \in AgentRuns :
        replayed[r].pc # "idle" => live[r].view = replayed[r].view \ ClosedBefore(r[1])

\* Told the same, it ends as it did live: each agent gets back the answers it got
\* itself, for this incident and in their order, however the replay interleaves
\* the agents (sources.py:169).  Not so for an agent that was interrupted: the
\* answers of both of its attempts are in the recording.
AnsweredTheSame ==
    \A r \in AgentRuns :
        replayed[r].pc \in {"done", "missed"} /\ replayed[r].view = live[r].view /\ r \notin reruns
        => replayed[r] = live[r]

\* A replay does what the live investigation did: it is told the same but for
\* incidents closed before, and, told the same and not interrupted, ends the same.
ReplayFaithful == ToldTheSame /\ AnsweredTheSame

=============================================================================
