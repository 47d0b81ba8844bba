----------------------------- MODULE Transcript -----------------------------
(***************************************************************************)
(* The transcript of an agent, as its loop writes it (app/agents/loop.py)  *)
(* and as the Messages API gets it (app/llm/api.py).  The API refuses a    *)
(* request whose messages do not alternate, or in which a tool call is not *)
(* answered by the very next message.                                      *)
(***************************************************************************)
EXTENDS Naturals, Sequences, SequencesExt

CONSTANTS
    MaxTurns,      \* bound: length of the transcript
    MaxActions     \* loop.py, MAX_ACTIONS

ASSUME TranscriptConstants == MaxTurns \in Nat /\ MaxActions \in Nat \ {0}

VARIABLE turns     \* AgentRun.turns

transcriptVars == <<turns>>

User == [type |-> "user"]
StepTurn(ids, final) == [type |-> "step", ids |-> ids, final |-> final]
ResultsTurn(ids) == [type |-> "results", ids |-> ids]

\* types.py, normalize_step: requests for data beat a final answer given with them,
\* and an answer with neither is refused.
normalize_step(actions, final) ==
    CASE actions > 0 -> [actions |-> actions, final |-> FALSE]
      [] actions = 0 /\ final -> [actions |-> 0, final |-> TRUE]
      [] OTHER -> [actions |-> 0, final |-> FALSE]

CallIds(n) == [k \in 1..n |-> 10 * Len(turns) + k]

TranscriptInit == turns = <<User>>

\* One step: data is asked for and comes back, on the last steps with a note; or
\* the final answer is refused and the agent told why.
Stepped(actions, final) ==
    LET s == normalize_step(actions, final)
        ids == CallIds(IF s.actions < MaxActions THEN s.actions ELSE MaxActions)
    IN  /\ Len(turns) < MaxTurns
        /\ \/ /\ s.actions > 0
              /\ \E note \in {<<>>, <<User>>} :
                   turns' = turns \o <<StepTurn(ids, FALSE), ResultsTurn(ids)>> \o note
           \/ /\ s.final
              /\ turns' = turns \o <<StepTurn(<<>>, TRUE), User>>

TranscriptNext == \E actions \in 0..MaxActions + 1, final \in BOOLEAN : Stepped(actions, final)

TranscriptSpec == TranscriptInit /\ [][TranscriptNext]_transcriptVars

-----------------------------------------------------------------------------
(* api.py, render_messages.                                                *)

FinalId(i) == 1000 + i

\* _append: a block joins the last message if that is of the same role.
AppendBlocks(messages, role, blocks) ==
    IF blocks = <<>> THEN messages
    ELSE IF messages # <<>> /\ Last(messages).role = role
    THEN [messages EXCEPT ![Len(messages)].content = @ \o blocks]
    ELSE messages \o <<[role |-> role, content |-> blocks]>>

Blocks(type, ids) == [k \in 1..Len(ids) |-> [type |-> type, id |-> ids[k]]]

\* A message to the agent: the result of its final answer if that is pending.
UserBlock_Slip(pending) == Blocks("text", <<0>>)
UserBlock(pending) == IF pending # 0 THEN Blocks("tool_result", <<pending>>) ELSE Blocks("text", <<0>>)

\* The i-th turn, after what came before it; pending: the final answer that
\* needs a result.
RenderTurn(acc, turn, i) ==
    CASE turn.type = "user" ->
           [pending |-> 0, messages |-> AppendBlocks(acc.messages, "user", UserBlock(acc.pending))]
      [] turn.type = "step" ->
           [pending |-> IF turn.final THEN FinalId(i) ELSE acc.pending,
            messages |-> AppendBlocks(acc.messages, "assistant",
              Blocks("tool_use", turn.ids \o IF turn.final THEN <<FinalId(i)>> ELSE <<>>))]
      [] OTHER ->
           [pending |-> acc.pending,
            messages |-> AppendBlocks(acc.messages, "user", Blocks("tool_result", turn.ids))]

Rendered(ts) ==
    LET upTo[n \in 0..Len(ts)] ==
            IF n = 0 THEN [pending |-> 0, messages |-> <<>>]
            ELSE RenderTurn(upTo[n - 1], ts[n], n)
    IN  upTo[Len(ts)]

render_messages(ts) == Rendered(ts).messages

-----------------------------------------------------------------------------

IdsOf(message, type) == {b.id : b \in {c \in ToSet(message.content) : c.type = type}}

\* Whatever an agent did, its next request is one the API takes: the roles
\* alternate from user to user, and each message of the user answers exactly the
\* tool calls of the message before it, a refused final answer among them.
RequestAccepted ==
    LET ms == render_messages(turns)
    IN  /\ ms[1].role = "user" /\ Last(ms).role = "user"
        /\ \A k \in 1..Len(ms) - 1 : ms[k].role # ms[k + 1].role
        /\ \A k \in 1..Len(ms) :
             ms[k].role = "user" =>
               IdsOf(ms[k], "tool_result") = IF k = 1 THEN {} ELSE IdsOf(ms[k - 1], "tool_use")

=============================================================================
