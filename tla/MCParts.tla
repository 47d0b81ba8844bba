------------------------------ MODULE MCParts -------------------------------
(***************************************************************************)
(* The parts that share no state with each other, for TLC: each behaviour  *)
(* is one of one part, chosen at the start, and the others stand still.    *)
(* The processes of all parts are of one set, Pair; in each part they are  *)
(* interchangeable.                                                        *)
(***************************************************************************)
EXTENDS Stream, Verify, Cluster, Lab, Evaluate, Scoring, Replay, Policy, Chunking, Knowledge, TLC

CONSTANT Pair   \* two processes, of whichever part

VARIABLE part

auditVars == vars
consoleVars == <<streamVars, pageVars>>

PartsInit ==
    /\ part \in {"audit", "stream", "verify", "cluster", "lab", "evaluate", "scoring", "replay", "policy", "knowledge"}
    /\ StreamInit /\ VerifyInit /\ ClusterInit
    /\ LabInit /\ EvalInit /\ ScoringInit /\ ReplayInit /\ PolicyInit /\ KnowledgeInit
    \* The choices of a part at its start matter in that part only.
    /\ part # "verify" => incident.checked
    /\ part # "evaluate" => waiting = EvalCatalogue
    /\ part # "replay" => fingerprint = CHOOSE f \in Fingerprints : TRUE
    /\ part # "lab" => /\ scn.todo = (CHOOSE a \in Acceptance : TRUE).faults
                       /\ \A d \in DOMAIN rollouts : rollouts[d].cause = ""

\* The stream is followed over two audit rows of two transactions, two calls,
\* and three rows in all.
SmallLog ==
    LET inside(w) == at[w] # "caller"
    IN  /\ nextSeq' <= 3 /\ nextSeq' + Cardinality(calls' \cup drawn') <= 4
        /\ \A w \in Writers : inside(w)' => w \in Pair /\ (nextSeq = 3 => inside(w))
        /\ \A w \in Writers : \A r \in pending'[w] : r.content = "c1"

\* The parts other than p stand still.
Still(p) ==
    /\ IF p \in {"audit", "stream"} THEN TRUE ELSE UNCHANGED auditVars
    /\ IF p = "stream" THEN TRUE ELSE UNCHANGED consoleVars
    /\ IF p = "verify" THEN TRUE ELSE UNCHANGED verifyVars
    /\ IF p = "cluster" THEN TRUE ELSE UNCHANGED clusterVars
    /\ IF p = "lab" THEN TRUE ELSE UNCHANGED labVars
    /\ IF p = "evaluate" THEN TRUE ELSE UNCHANGED evalVars
    /\ IF p = "scoring" THEN TRUE ELSE UNCHANGED scoringVars
    /\ IF p = "replay" THEN TRUE ELSE UNCHANGED replayVars
    /\ IF p = "policy" THEN TRUE ELSE UNCHANGED policyVars
    /\ IF p = "knowledge" THEN TRUE ELSE UNCHANGED kbVars

PartsNext ==
    /\ part' = part /\ Still(part)
    /\ \/ part = "audit" /\ Next
       \/ part = "stream" /\ StreamNext /\ SmallLog
       \/ part = "verify" /\ VerifyNext
       \/ part = "cluster" /\ ClusterNext
       \/ part = "lab" /\ LabNext
       \/ part = "evaluate" /\ EvalNext
       \/ part = "scoring" /\ ScoringNext
       \/ part = "replay" /\ ReplayNext /\ reruns' \subseteq {<<1, "x">>}
       \/ part = "policy" /\ PolicyNext
       \/ part = "knowledge" /\ KnowledgeNext

partsVars ==
    <<part, auditVars, consoleVars, verifyVars, clusterVars, labVars, evalVars, scoringVars, replayVars, policyVars, kbVars>>

PartsSpec == PartsInit /\ [][PartsNext]_partsVars

Symmetry == Permutations(Pair)

-----------------------------------------------------------------------------
(* Lab: a release that breaks nothing before one that does, a fault left   *)
(* over from before; an alarm that fires, resolves and fires again, or two *)
(* alarms that fire once.                                                  *)

AcceptanceRuns ==
    LET thrice == [checkout |-> 3, ad |-> 0]
        twice == [checkout |-> 2, ad |-> 0]
        once == [checkout |-> 1, ad |-> 1]
    IN  {[faults |-> <<"benign-release-currency", "bad-release">>, notices |-> twice],
         [faults |-> <<"bad-release">>, notices |-> once],
         [faults |-> <<"ad-failure", "network-delay">>, notices |-> thrice]}

(* Evaluate: three scenarios. *)

ThreeScenarios == <<"a", "b", "c">>

(* Scoring: what may be seen of a bad release of checkout: nothing, the    *)
(* right diagnosis and repair, a wrong one, three incidents of which one   *)
(* is older than the fault, an incident without a model, a wrong repair of *)
(* an incident elsewhere.                                                  *)

TheLabel ==
    [root |-> "checkout", symptoms |-> {"checkout", "frontend"}, other |-> "ad", otherSymptoms |-> {"ad"},
     repair |-> {<<"rollout_undo", "checkout">>}, acceptable |-> {<<"restart", "checkout">>}]
FourServices == <<"ad", "cart", "checkout", "frontend">>

Sighted(service, opened_at, causes, took) ==
    [service |-> service, opened |-> opened_at, priority |-> 1, causes |-> causes, noModel |-> FALSE,
     verdict |-> "require_approval", actions |-> {}, executions |-> {}, took |-> took]
Right == {[Sighted("checkout", 1, <<"checkout">>, 1) EXCEPT !.actions = {<<"rollout_undo", "checkout">>}]}
Wrong == {Sighted("checkout", 1, <<"cart", "checkout">>, 3)}
SixSightings ==
    { {}, Right, Wrong,
      {Sighted("checkout", 2, <<"checkout">>, 2), Sighted("frontend", 1, <<"cart">>, 4), Sighted("ad", 0, <<"ad">>, 1)},
      {[Sighted("checkout", 1, <<>>, 5) EXCEPT !.noModel = TRUE]},
      {[Sighted("cart", 1, <<"cart">>, 5) EXCEPT !.actions = {<<"restart", "cart">>}]} }

AllRight == [k \in 1..5 |-> Right]
AllWrong == [k \in 1..5 |-> Wrong]
TwoRuns == <<AllRight, [k \in 1..5 |-> IF k = 1 THEN {} ELSE Wrong]>>
FourBaselines ==
    { << <<>>, <<>> >>, << <<AllRight>>, AllWrong>>, << <<[k \in 1..2 |-> Right]>>, <<>> >>, <<TwoRuns, AllRight>> }

(* Replay: two agents on the first incident, one on the second, which is   *)
(* of the same fingerprint or of another.                                  *)

ThreeRuns == {<<1, "x">>, <<1, "y">>, <<2, "x">>}
TwoFingerprints == {<<"f", "g">>, <<"f", "f">>}

(* Policy: a metric, a rollout's history and a page of the knowledge base; *)
(* windows that are whole, over midnight, empty and unreadable.            *)

ThreeRows ==
    [m |-> [tool |-> "prom_query", deployment |-> "none"],
     h |-> [tool |-> "rollout_history", deployment |-> "checkout"],
     k |-> [tool |-> "kb_search", deployment |-> "none"]]
Seen == [metrics |-> {"m", "k"}, changes |-> {"h", "k"}, planner |-> {"h"}]
TwentyCauses ==
    [service: {"checkout", "cart"}, confidence: {40, 50}, ids: {{"m"}, {"k"}, {"m", "k"}, {"h"}, {"m", "x"}}]
Planned(action, deployment, ids) == [action |-> action, deployment |-> deployment, ids |-> ids]
SixActions ==
    {Planned("restart_deployment", "checkout", {"k"}), Planned("restart_deployment", "cart", {"m"}),
     Planned("rollout_undo", "checkout", {"h"}), Planned("rollout_undo", "cart", {"h"}),
     Planned("rollout_undo", "checkout", {"m"}), Planned("scale_deployment", "checkout", {"x"})}
FourWindows == {<<0, 24>>, <<22, 6>>, <<9, 9>>, <<9, 25>>}

(* Chunking: sections that are small, over the maximum, of blocks that are  *)
(* over it, with list items, with code blocks and with one that is open at *)
(* the end of its section; a heading may come twice.                       *)

Shapes ==
    {<<"text">>, <<"text", "blank", "text">>, <<"text", "item", "item", "item">>,
     <<"text", "fence", "blank", "text", "fence", "blank", "text">>,
     <<"text", "fence", "text", "text", "item", "text", "fence", "text">>,
     <<"text", "blank", "fence", "blank", "text", "blank", "text", "text">>,
     <<"text", "fence", "item", "fence", "fence", "blank", "item", "fence", "blank", "text">>}
SectionsAt(n) ==
    {[heading |-> h, lines |-> [i \in DOMAIN shape |-> [at |-> <<n, i>>, kind |-> shape[i]]]] :
        h \in {"a", "b"}, shape \in Shapes}
SmallDocuments ==
    {<<s>> : s \in SectionsAt(1)} \cup {<<s, t>> : s \in SectionsAt(1), t \in SectionsAt(2)}
    \cup {<<s, t, u>> : s \in {x \in SectionsAt(1) : Len(x.lines) < 5}, t \in SectionsAt(2),
                       u \in {x \in SectionsAt(3) : Len(x.lines) < 4}}
TwoPresets == {[target |-> 4, min |-> m, max |-> 6, overlap |-> 1] : m \in {0, 3}}

(* Knowledge: a directory, the same embedded by another model, and a later *)
(* one in which a document is changed and the other is gone.               *)

ThreeTargets ==
    {[dir |-> <<1, 1>>, embedder |-> "m", chunking |-> "section", prune |-> TRUE],
     [dir |-> <<1, 1>>, embedder |-> "n", chunking |-> "section", prune |-> FALSE],
     [dir |-> <<2>>, embedder |-> "m", chunking |-> "section", prune |-> TRUE]}
OneOrTwo(key) == key.hash

=============================================================================
