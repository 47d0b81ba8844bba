-------------------------- MODULE MCInvestigation --------------------------
(***************************************************************************)
(* The investigation and what its agents wait for, for TLC: the job, the   *)
(* tool calls, the model steps and the transcript share no state, so each  *)
(* behaviour is one of one of them, chosen at the start, and the others    *)
(* stand still.  The agents of all four are the Investigators.             *)
(***************************************************************************)
EXTENDS Investigation, Sources, Llm, Transcript, TLC

VARIABLE part

AgentsInit ==
    /\ part \in {"job", "sources", "llm", "transcript"}
    /\ InvestigationInit /\ SourcesInit /\ LlmInit /\ TranscriptInit

\* The parts other than p stand still.
Still(p) ==
    /\ IF p = "job" THEN TRUE ELSE UNCHANGED invVars
    /\ IF p = "sources" THEN TRUE ELSE UNCHANGED sourcesVars
    /\ IF p = "llm" THEN TRUE ELSE UNCHANGED llmVars
    /\ IF p = "transcript" THEN TRUE ELSE UNCHANGED transcriptVars

AgentsNext ==
    /\ part' = part /\ Still(part)
    /\ \/ part = "job" /\ InvestigationNext
       \/ part = "sources" /\ SourcesNext
       \/ part = "llm" /\ LlmNext
       \/ part = "transcript" /\ TranscriptNext

AgentsSpec == AgentsInit /\ [][AgentsNext]_<<part, invVars, sourcesVars, llmVars, transcriptVars>>

Symmetry == Permutations(Investigators)

=============================================================================
